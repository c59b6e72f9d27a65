------------------------------ MODULE MCPanel ------------------------------
(* Values for the constants of Panel and PanelPresses: the sequences of     *)
(* LED() calls the commands of the source make.                            *)
EXTENDS PanelPresses

(* `led' with a number that is no LED, and with a state that is neither 0  *)
(* nor 1.  The other states come from the buttons, and sequences of calls  *)
(* from the controller.                                                    *)
SomeCalls == {<<On(0)>>, <<[led |-> 2, state |-> 2]>>}
=============================================================================
