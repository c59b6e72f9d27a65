------------------------------ MODULE PanelLeds -----------------------------
(***************************************************************************)
(* The two copies of the LEDs.  LED() keeps the expander's register BLINK0 *)
(* and the LED bits of BH_HIOStatus in two updates with interrupts between *)
(* and inside them, and looks at the result of neither.  This module is    *)
(* Panel with a history variable that follows which LEDs LED() failed with *)
(* last; the firmware never reads it.                                      *)
(***************************************************************************)
EXTENDS Panel

VARIABLE astray   \* the LEDs whose last update went wrong

ledVars == <<vars, astray>>

LInit == Init /\ astray = {}

(* A call with a state that LED() gives to one copy only went wrong even   *)
(* if the bus did its work.                                                *)
WentWell ==
    LET c == Head(calls) IN c.state # 2 /\ blink0' = Put(readReg, c.led, c.state)

LMainLoop ==
    /\ MainLoop
    /\ astray' = IF pc \notin {"read", "write"}   THEN astray
                 ELSE IF Garbled                  THEN Leds
                 ELSE IF pc' = "write"            THEN astray
                 ELSE IF pc = "write" /\ WentWell THEN astray \ {Head(calls).led}
                                                  ELSE astray \union {Head(calls).led}

LNext ==
    \/ LMainLoop
    \/ INT2_vect /\ UNCHANGED astray
    \/ INT2_read /\ UNCHANGED astray
    \/ \E b \in Buttons : Toggle(b) /\ UNCHANGED astray

LSpec == LInit /\ [][LNext]_ledVars /\ Fairness

-----------------------------------------------------------------------------
(* The LED bits of BH_HIOStatus, which HandleButtonPress steers by, show   *)
(* what the expander lights whenever the main loop is between two tasks.   *)
(* On a bus that fails, or with a state that is neither 0 nor 1, LED()     *)
(* makes them part for the LED it was called for, and for no other one,    *)
(* until it is called for it again and goes well; only a transaction into  *)
(* which an ISR broke, on a bus that cannot bear it, spoils the others.    *)
LedAgreement ==
    (pc = "top" /\ ~hwError) =>
        \A n \in Leds \ astray : n \in hio.lit <=> n \in blink0
=============================================================================
