---------------------------- MODULE BuzzerProofs ----------------------------
(***************************************************************************)
(* Theorems about the buzzer, for all values of the constants.             *)
(***************************************************************************)
EXTENDS Buzzer, DelayTimerProofs

-----------------------------------------------------------------------------
(* A beep takes the steps of DelayMS and of its timer, and no others with  *)
(* their variables.                                                        *)
LEMMA StepsOfDelay == [BuzzerNext]_allVars => [Next]_vars
<1>. SUFFICES ASSUME [BuzzerNext]_allVars PROVE [Next]_vars
  OBVIOUS
<1>1. ASSUME NEW m \in Requests, BuzzerOn(m) PROVE [Next]_vars
  BY <1>1 DEF BuzzerOn, Next, DelayMS
<1>2. CASE Delay
  BY <1>2 DEF Delay, Next, DelayMS
<1>3. CASE StopTimer \/ ClearPin \/ Elsewhere
  BY <1>3 DEF StopTimer, ClearPin, Elsewhere
<1>4. CASE Match \/ TIMER3_COMPA_vect
  BY <1>4 DEF Match, TIMER3_COMPA_vect
<1>5. CASE OtherInterrupt
  BY <1>5 DEF OtherInterrupt, Next
<1>6. CASE UNCHANGED allVars
  BY <1>6 DEF allVars
<1>. QED
  BY <1>1, <1>2, <1>3, <1>4, <1>5, <1>6 DEF BuzzerNext, Beep

LEMMA BeepTakesSteps == BuzzerSpec => Steps
<1>1. BuzzerInit => Init
  BY DEF BuzzerInit
<1>. QED
  BY <1>1, StepsOfDelay, PTL DEF BuzzerSpec, Steps

(* In a beep, too, an undisturbed delay has its length: the sound of the   *)
(* buzzer is as long as was asked for, but for a tick.                     *)
THEOREM BeepLength == BuzzerSpec => [](TypeOK /\ DelayLength)
BY BeepTakesSteps, TypeOfSteps, DelayLengthOfSteps, PTL

-----------------------------------------------------------------------------
(* Types, and when the timer runs.                                         *)

LEMMA DelayRuns ==
    /\ \A m \in Requests : Call(m) => pc' # "idle"
    /\ Delay => (pc' # "idle" <=> pc # "returned")
    /\ Tick => UNCHANGED pc
BY DEF Call, Delay, CheckLow, CheckHigh, AssignLow, AssignHigh, LoopLow, LoopHigh,
       LoadLow, Return, Tick

LEMMA TypeInductive == BuzzerTypeOK /\ [BuzzerNext]_allVars => BuzzerTypeOK'
<1>. SUFFICES ASSUME BuzzerTypeOK, [BuzzerNext]_allVars PROVE BuzzerTypeOK'
  OBVIOUS
<1>. USE DEF vars
<1>1. ASSUME NEW m \in Requests, MainStep, BuzzerOn(m) PROVE BuzzerTypeOK'
  BY <1>1, DelayRuns DEF BuzzerTypeOK, MainStep, BuzzerOn
<1>2. CASE MainStep /\ Delay
  BY <1>2, DelayRuns DEF BuzzerTypeOK, MainStep, Delay
<1>3. CASE MainStep /\ StopTimer
  BY <1>3 DEF BuzzerTypeOK, MainStep, StopTimer
<1>4. CASE MainStep /\ ClearPin
  BY <1>4 DEF BuzzerTypeOK, MainStep, ClearPin
<1>5. CASE MainStep /\ Elsewhere
  BY <1>5 DEF BuzzerTypeOK, MainStep, Elsewhere
<1>6. CASE Match
  BY <1>6 DEF BuzzerTypeOK, Match
<1>7. CASE TIMER3_COMPA_vect
  BY <1>7 DEF BuzzerTypeOK, Served, TIMER3_COMPA_vect
<1>8. CASE OtherInterrupt
  BY <1>8, DelayRuns DEF BuzzerTypeOK, Served, OtherInterrupt
<1>9. CASE UNCHANGED allVars
  BY <1>9 DEF BuzzerTypeOK, allVars, buzzerVars
<1>. QED
  BY <1>1, <1>2, <1>3, <1>4, <1>5, <1>6, <1>7, <1>8, <1>9 DEF BuzzerNext, Beep

(* Timer 3 runs exactly while Beep waits in DelayMS or is about to stop    *)
(* it, whatever the delay and however often it is interrupted.             *)
THEOREM BuzzerTypeCorrect == BuzzerSpec => []BuzzerTypeOK
<1>1. BuzzerInit => BuzzerTypeOK
  BY DEF BuzzerInit, Init, BuzzerTypeOK
<1>. QED
  BY <1>1, TypeInductive, PTL DEF BuzzerSpec

-----------------------------------------------------------------------------
(* Quiet behind a beep.                                                    *)

(* Between the two steps of BuzzerOff an interrupt that is pending can     *)
(* only be put off by another one that has just been served.               *)
QuietInv ==
    /\ (beep = "clear" /\ fresh /\ match) => between
    /\ QuietAfterBeep

LEMMA QuietInductive == BuzzerTypeOK /\ QuietInv /\ [BuzzerNext]_allVars => QuietInv'
<1>. SUFFICES ASSUME BuzzerTypeOK, QuietInv, [BuzzerNext]_allVars PROVE QuietInv'
  OBVIOUS
<1>. USE DEF QuietInv, QuietAfterBeep
<1>1. ASSUME NEW m \in Requests, BuzzerOn(m) PROVE QuietInv'
  BY <1>1 DEF BuzzerOn
<1>2. CASE Delay
  BY <1>2 DEF Delay
<1>3. CASE MainStep /\ StopTimer
  BY <1>3 DEF MainStep, StopTimer
<1>4. CASE MainStep /\ ClearPin
  BY <1>4 DEF MainStep, ClearPin
<1>5. CASE Elsewhere
  BY <1>5 DEF Elsewhere
<1>6. CASE Match
  BY <1>6 DEF Match, BuzzerTypeOK
<1>7. CASE TIMER3_COMPA_vect
  BY <1>7 DEF TIMER3_COMPA_vect
<1>8. CASE OtherInterrupt
  BY <1>8 DEF OtherInterrupt
<1>9. CASE UNCHANGED allVars
  BY <1>9 DEF allVars, buzzerVars
<1>. QED
  BY <1>1, <1>2, <1>3, <1>4, <1>5, <1>6, <1>7, <1>8, <1>9 DEF BuzzerNext, Beep

(* Whatever interrupts come, the pin is left high only if one of them came *)
(* between stopping the timer and clearing the pin.                        *)
THEOREM QuietCorrect == BuzzerSpec => []QuietAfterBeep
<1>1. BuzzerInit => QuietInv
  BY DEF BuzzerInit, QuietInv, QuietAfterBeep
<1>. QED
  BY <1>1, QuietInductive, BuzzerTypeCorrect, PTL DEF BuzzerSpec, QuietInv
=============================================================================
