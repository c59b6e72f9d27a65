----------------------------- MODULE PowerCycle -----------------------------
(***************************************************************************)
(* The two things this program relies on when power comes back: the zero   *)
(* of the current sensor in the processor's EEPROM, and the clock on its   *)
(* battery.  Calibrations and commands are carried out by the main loop,   *)
(* and so only behind HardwareInit and one at a time; power may fail       *)
(* anywhere, inside any of them.                                           *)
(***************************************************************************)
EXTENDS HeaterCurrent, Clock

vars == <<heaterVars, clockVars>>

Init == HeaterInit /\ ClockInit

PowerFail ==
    /\ pc # "off"
    /\ HeaterPowerFail /\ ClockPowerFail

(* A minute of the clock passes at any time.                               *)
Next ==
    \/ /\ pc = "done" /\ HeaterNext
       /\ Quiet /\ UNCHANGED <<timeVars, chipVars, bus, initVars>>
    \/ ClockNext /\ (todo = {} \/ Minute) /\ UNCHANGED heaterVars
    \/ PowerFail

Spec == Init /\ [][Next]_vars

TypeOK == HeaterTypeOK /\ ClockTypeOK
=============================================================================
