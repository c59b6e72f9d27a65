---------------------------- MODULE MCPanelLeds ----------------------------
(* Values for the constants of PanelLeds.                                  *)
EXTENDS PanelLeds

(* `led 2 2': a state that is neither 0 nor 1.  The buttons and the        *)
(* controller make the calls with the others.                              *)
OddCalls == {<<[led |-> 2, state |-> 2]>>}
=============================================================================
