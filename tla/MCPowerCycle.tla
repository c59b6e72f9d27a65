---------------------------- MODULE MCPowerCycle ----------------------------
(* The power cycles for TLC: times at the ends of an hour, of a ten and of *)
(* a day, and typed nonsense; a clock as delivered, and one in 12-hour     *)
(* mode a minute before one in the afternoon.                              *)
EXTENDS PowerCycle

MCSettings == {<<9, 59>>, <<23, 58>>, <<69, 160>>}
MCFound    == {<<0, 0>>, <<64 + 32 + 18, 89>>}
MCStack    == {<<6, 28>>}
=============================================================================
