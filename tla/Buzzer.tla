------------------------------- MODULE Buzzer -------------------------------
(***************************************************************************)
(* The buzzer (Board/Hardware.c): Beep turns timer 3 on, waits with        *)
(* DelayMS, and turns the timer off; ISR(TIMER3_COMPA_vect) toggles the    *)
(* buzzer's pin whenever the timer has counted to its compare value.       *)
(*                                                                         *)
(* Interrupts are seen here as the core serves them.  A pending interrupt  *)
(* is served before the next instruction of the main program, the one with *)
(* the lower vector first: INT2, INT3 and timer 0 come before timer 3.     *)
(* Behind each return from an interrupt one instruction of the main        *)
(* program is executed before the next interrupt is served.                *)
(***************************************************************************)
EXTENDS DelayTimer

VARIABLES
    beep,      \* where Beep is
    timer,     \* TCCR3B: timer 3 runs
    match,     \* its compare flag: the interrupt is pending
    pin,       \* the buzzer's pin is high
    fresh,     \* an interrupt has just returned
    between    \* history: another interrupt came between the two steps of the
               \* last BuzzerOff

buzzerVars == <<beep, timer, match, pin, fresh, between>>
allVars    == <<vars, buzzerVars>>

BuzzerInit ==
    /\ Init
    /\ beep = "silent"
    /\ timer = FALSE /\ match = FALSE /\ pin = FALSE
    /\ fresh = FALSE /\ between = FALSE

-----------------------------------------------------------------------------
(* Beep, called by the command `beep'.  Each step of it waits for the      *)
(* pending interrupt, if it is one that has to be served first.            *)

MainStep ==
    /\ fresh \/ ~match
    /\ fresh' = FALSE

(* BuzzerOn, with the timer started anew, and the call of DelayMS, which   *)
(* may return at once.  Many instructions lie between two beeps, so that   *)
(* nothing is pending any more.                                            *)
BuzzerOn(m) ==
    /\ beep = "silent" /\ pc = "idle" /\ ~match
    /\ timer' = TRUE
    /\ \/ Call(m) /\ beep' = "delay"
       \/ (m = 0 \/ m >= ROLLOVER) /\ beep' = "stop" /\ UNCHANGED vars
    /\ between' = FALSE
    /\ UNCHANGED <<match, pin>>

Delay ==
    /\ beep = "delay"
    /\ CheckLow \/ CheckHigh \/ AssignLow \/ AssignHigh \/ LoopLow \/ LoopHigh \/ Return
    /\ beep' = IF pc = "returned" THEN "stop" ELSE "delay"
    /\ UNCHANGED <<timer, match, pin, between>>

(* Mutant: the timer is left on.                                           *)
StopNothing ==
    /\ beep = "stop"
    /\ beep' = "clear"
    /\ UNCHANGED <<vars, timer, match, pin, between>>

(* BuzzerOff: TCCR3B = 0.  The timer may reach its compare value while the *)
(* instruction is executed.                                                *)
StopTimer ==
    /\ beep = "stop"
    /\ beep' = "clear"
    /\ timer' = FALSE
    /\ match' \in {match, TRUE}
    /\ UNCHANGED <<vars, pin, between>>

(* Mutant: the pin is left as it is.                                       *)
ClearNothing ==
    /\ beep = "clear"
    /\ beep' = "silent"
    /\ UNCHANGED <<vars, timer, match, pin, between>>

(* BuzzerOff: the pin is cleared, in one instruction.                      *)
ClearPin ==
    /\ beep = "clear"
    /\ beep' = "silent"
    /\ pin' = FALSE
    /\ UNCHANGED <<vars, timer, match, between>>

(* Between two beeps the main program is elsewhere.                        *)
Elsewhere == beep = "silent" /\ fresh /\ UNCHANGED <<vars, beep, timer, match, pin, between>>

Beep ==
    /\ MainStep
    /\ (\E m \in Requests : BuzzerOn(m)) \/ Delay \/ StopTimer \/ ClearPin \/ Elsewhere

-----------------------------------------------------------------------------
(* The timers and the interrupts.                                          *)

Match ==
    /\ timer /\ ~match
    /\ match' = TRUE
    /\ UNCHANGED <<vars, beep, timer, pin, fresh, between>>

Served == ~fresh /\ fresh' = TRUE

TIMER3_COMPA_vect ==
    /\ match /\ Served
    /\ match' = FALSE
    /\ pin' = ~pin
    /\ UNCHANGED <<vars, beep, timer, between>>

(* An interrupt that comes first: the tick of timer 0, or one of which only *)
(* the return matters here.                                                *)
OtherInterrupt ==
    /\ Served
    /\ Tick \/ UNCHANGED vars
    /\ between' = (between \/ beep = "clear")
    /\ UNCHANGED <<beep, timer, match, pin>>

BuzzerNext == Beep \/ Match \/ TIMER3_COMPA_vect \/ OtherInterrupt

BuzzerSpec ==
    /\ BuzzerInit /\ [][BuzzerNext]_allVars
    /\ WF_allVars(Beep) /\ SF_allVars(TIMER3_COMPA_vect)
    /\ SF_allVars(OtherInterrupt /\ Tick)

-----------------------------------------------------------------------------
(* Types; timer 3 runs from BuzzerOn to BuzzerOff, however DelayMS returns, *)
(* and DelayMS runs only inside a beep.                                    *)
BuzzerTypeOK ==
    /\ beep \in {"silent", "delay", "stop", "clear"}
    /\ timer \in BOOLEAN /\ match \in BOOLEAN /\ pin \in BOOLEAN
    /\ fresh \in BOOLEAN /\ between \in BOOLEAN
    /\ timer <=> beep \in {"delay", "stop"}
    /\ beep = "delay" <=> pc # "idle"

(* Behind a beep the buzzer's pin is low and stays low, although BuzzerOff *)
(* stops the timer and clears the pin in two steps with an interrupt       *)
(* possibly pending: that one is served between the steps, unless another  *)
(* interrupt takes its place there.                                        *)
QuietAfterBeep ==
    (beep = "silent" /\ (pin \/ match)) => between

(* A beep whose DelayMS waits for a value the counter reaches comes to an  *)
(* end, however often the timer that makes the sound interrupts the wait.  *)
BeepEnds ==
    (timer /\ pc \in Looping /\ WaitMS < ROLLOVER) ~> (~timer /\ ~match)
=============================================================================
