---------------------------- MODULE MCDatalogger ----------------------------
(* The data logger for TLC.                                                *)
EXTENDS DataloggerLog

(* Nothing is claimed of the log behind a state where it was spoiled; such *)
(* a state itself is still checked.                                        *)
Unspoiled == ~spoiled
=============================================================================
