-------------------- MODULE TemperatureControllerProofs ---------------------
(***************************************************************************)
(* Proofs about TemperatureController for every period and every number of *)
(* calibration readings: the types, the distance of two samples, when a    *)
(* sample is missed, that no thermistor is left with its current on, and   *)
(* that a value is read from the channel it is taken for.                  *)
(***************************************************************************)
EXTENDS TemperatureController, TLAPS

(***************************************************************************)
(* Types.                                                                  *)
(***************************************************************************)

LEMMA Constants ==
    /\ PERIOD \in Nat /\ PERIOD > 0
    /\ CalReadings \in Nat /\ CalReadings > 0
  BY ControllerAssumption

(* What a function is given to measure is a sequence of channels, and not  *)
(* empty.                                                                  *)
LEMMA WorkLists ==
    /\ DataOrder \in Seq(Channels) /\ DataOrder # << >>
    /\ \A c \in Channels : Readings(c) \in Seq(Channels) /\ Readings(c) # << >>
    /\ << >> \in Seq(Channels)
<1>1. DataOrder \in Seq(Channels) /\ DataOrder # << >>
  BY DEF DataOrder, Channels, Thermistors
<1>2. ASSUME NEW c \in Channels
      PROVE  Readings(c) \in Seq(Channels) /\ Readings(c) # << >>
  <2>1. Readings(c) \in [1..CalReadings -> Channels]
    BY DEF Readings
  <2>2. Readings(c) \in Seq(Channels) /\ Len(Readings(c)) = CalReadings
    BY <2>1, Constants
  <2>. QED
    BY <2>2, Constants
<1>3. << >> \in Seq(Channels)
  OBVIOUS
<1>. QED
  BY <1>1, <1>2, <1>3

(* Measuring one channel leaves the rest, whose emptiness Read tests.      *)
LEMMA NextWork ==
    ASSUME TypeOK, pc \in {"start", "wait", "read"}
    PROVE  Head(todo) \in Channels /\ Tail(todo) \in Seq(Channels)
  BY DEF TypeOK

LEMMA CountStays == \A n \in 0..PERIOD : NextCount(n) \in 0..PERIOD
  BY Constants DEF NextCount

(* The chip.                                                               *)
LEMMA StartType ==
    ASSUME ADTypeOK, NEW c \in Channels, NEW m \in {"single", "continuous"},
           StartConversion(c, m)
    PROVE  ADTypeOK'
  BY DEF ADTypeOK, StartConversion, Currents

LEMMA ReadType ==
    ASSUME ADTypeOK, NEW c \in Channels, ReadData(c)
    PROVE  ADTypeOK'
  BY DEF ADTypeOK, ReadData, IOAfter, Currents

LEMMA ADSameType == ADTypeOK /\ UNCHANGED adVars => ADTypeOK'
  BY DEF ADTypeOK, adVars

(* The count of the seconds stays within the period, and a channel is left *)
(* to measure wherever the main loop measures.                             *)
THEOREM TypeCorrect == Spec => []TypeOK
<1>1. Init => TypeOK
  <2>1. "red" \in Channels /\ "off" \in Currents
    BY DEF Channels, Thermistors, Currents
  <2>2. [channel |-> "red", io |-> "off"] \in Value
    BY <2>1 DEF Value
  <2>3. ADInit => ADTypeOK
    BY <2>1, <2>2, Zenon DEF ADInit, ADTypeOK
  <2>4. 0 \in 0..PERIOD /\ PERIOD \in 0..PERIOD /\ 0 \in 0..6 /\ 0 \in 0..2
    BY Constants
  <2>. QED
    BY <2>3, <2>4, WorkLists, Zenon DEF Init, TypeOK, Tasks, Labels
<1>2. TypeOK /\ [Next]_vars => TypeOK'
  <2>. SUFFICES ASSUME TypeOK, [Next]_vars PROVE TypeOK'
    OBVIOUS
  <2>. USE DEF controller, locals, history, Tasks, Labels, At, Go
  <2>1. CASE QuickCommand
    <3>1. ADTypeOK'
      BY <2>1, ADSameType DEF QuickCommand, TypeOK
    <3>2. controlOn' \in BOOLEAN /\ relay' \in BOOLEAN
      BY <2>1, Zenon
         DEF QuickCommand, StartTemperatureController, StopTemperatureController, Relay, TypeOK
    <3>4. NumberOfSamples' \in 0..6
      BY <2>1 DEF QuickCommand, StartTemperatureController, StopTemperatureController, Relay, TypeOK
    <3>3. armed' \in BOOLEAN
      BY <2>1 DEF QuickCommand
    <3>. QED
      BY <2>1, <3>1, <3>2, <3>3, <3>4 DEF QuickCommand, TypeOK
  <2>2. CASE MeasuringCommand
    BY <2>2, ADSameType, WorkLists DEF MeasuringCommand, TypeOK
  <2>3. CASE CalCommand
    <3>1. ADTypeOK'
      BY <2>3 DEF CalCommand, SelfCalibrate, ADTypeOK, TypeOK, Channels
    <3>. QED
      BY <2>3, <3>1 DEF CalCommand, TypeOK
  <2>4. CASE Key
    <3>1. "internal" \in Channels /\ "current" \in Channels
      BY DEF Channels
    <3>2. ADTypeOK'
      BY <2>4, <3>1, StartType, ADSameType
         DEF Key, AD7794InternalTempCal, CalibrateHeaterCurrent, TypeOK
    <3>3. todo' \in Seq(Channels) /\ (pc' \in {"start", "wait", "read"} => todo' # << >>)
      BY <2>4, <3>1, WorkLists DEF Key, AD7794InternalTempCal, CalibrateHeaterCurrent, TypeOK
    <3>. QED
      BY <2>4, <3>2, <3>3 DEF Key, AD7794InternalTempCal, CalibrateHeaterCurrent, TypeOK
  <2>5. CASE CheckCount
    <3>1. ADTypeOK'
      BY <2>5, ADSameType DEF CheckCount, TypeOK
    <3>2. since' \in 0..PERIOD
      BY <2>5, Constants DEF CheckCount, TypeOK
    <3>3. CASE Due
      BY <2>5, <3>1, <3>2, <3>3, WorkLists DEF CheckCount, TypeOK
    <3>4. CASE ~Due
      BY <2>5, <3>1, <3>2, <3>4 DEF CheckCount, TypeOK
    <3>. QED
      BY <3>3, <3>4
  <2>6. CASE Start
    <3>1. ADTypeOK'
      BY <2>6, NextWork, StartType DEF Start, TypeOK
    <3>. QED
      BY <2>6, <3>1 DEF Start, TypeOK
  <2>7. CASE Wait
    <3>1. ADTypeOK'
      BY <2>7 DEF Wait, WaitReady, ADTypeOK, TypeOK
    <3>. QED
      BY <2>7, <3>1 DEF Wait, TypeOK
  <2>8. CASE Read
    <3>1. ADTypeOK'
      BY <2>8, NextWork, ReadType DEF Read, TypeOK
    <3>2. pc' \in {"start", "wait", "end"} /\ (pc' # "end" => todo' # << >>)
      BY <2>8 DEF Read
    <3>. QED
      BY <2>8, <3>1, <3>2, NextWork DEF Read, TypeOK
  <2>9. CASE EndCommand
    <3>1. ADTypeOK'
      BY <2>9, ADSameType DEF EndCommand, TypeOK
    <3>. QED
      BY <2>9, <3>1 DEF EndCommand, TypeOK
  <2>10. CASE EndSample
    <3>1. ADTypeOK'
      BY <2>10, ADSameType DEF EndSample, TypeOK
    <3>2. NumberOfSamples' \in 0..6 /\ CountsFromRTC' \in 0..PERIOD
      BY <2>10, Constants DEF EndSample, TypeOK
    <3>. QED
      BY <2>10, <3>1, <3>2 DEF EndSample, TypeOK
  <2>11. CASE Tick
    <3>1. ADTypeOK'
      BY <2>11, ADSameType DEF Tick, TypeOK
    <3>2. CountsFromRTC' \in 0..PERIOD
      BY <2>11, CountStays DEF Tick, TypeOK
    <3>3. since' \in 0..PERIOD /\ idle' \in 0..2
      BY <2>11, Constants DEF Tick, TypeOK
    <3>4. slow' \in BOOLEAN /\ armed' \in BOOLEAN /\ missed' \in BOOLEAN
      BY <2>11 DEF Tick, TypeOK
    <3>. QED
      BY <2>11, <3>1, <3>2, <3>3, <3>4 DEF Tick, TypeOK
  <2>12. CASE Convert /\ UNCHANGED <<controller, locals, history>>
    <3>1. ADTypeOK'
      BY <2>12 DEF Convert, ADTypeOK, Value, TypeOK
    <3>. QED
      BY <2>12, <3>1 DEF TypeOK
  <2>13. CASE UNCHANGED vars
    <3>1. ADTypeOK'
      BY <2>13, ADSameType DEF vars, TypeOK
    <3>. QED
      BY <2>13, <3>1 DEF vars, TypeOK
  <2>. QED
    BY <2>1, <2>2, <2>3, <2>4, <2>5, <2>6, <2>7, <2>8, <2>9, <2>10, <2>11, <2>12, <2>13
       DEF Next, MainLoop
<1>. QED
  BY <1>1, <1>2, PTL DEF Spec

(***************************************************************************)
(* The distance of two samples.                                            *)
(*                                                                         *)
(* EndSample sets the count to 0, whatever was counted during the sample,  *)
(* so that between samples the count is never ahead of the ticks since the *)
(* last one began.                                                         *)
(***************************************************************************)

SpacingInv ==
    /\ ~Sampling => CountsFromRTC <= since
    /\ pc = "key" => task # "TemperatureControllerTask"

(* Two samples begin at least a period apart.                              *)
THEOREM SpacingCorrect == Spec => SampleSpacing
<1>1. Init => SpacingInv
  BY Constants DEF Init, SpacingInv
<1>2. TypeOK /\ SpacingInv /\ [Next]_vars => SpacingInv'
  <2>. SUFFICES ASSUME TypeOK, SpacingInv, [Next]_vars PROVE SpacingInv'
    OBVIOUS
  <2>. USE DEF SpacingInv, Sampling, controller, locals, history, At, Go
  <2>1. CASE QuickCommand
    BY <2>1 DEF QuickCommand
  <2>2. CASE MeasuringCommand \/ CalCommand
    BY <2>2 DEF MeasuringCommand, CalCommand
  <2>3. CASE Key
    BY <2>3 DEF Key, AD7794InternalTempCal, CalibrateHeaterCurrent, StartConversion
  <2>4. CASE CheckCount
    BY <2>4 DEF CheckCount
  <2>5. CASE Start \/ Wait \/ Read
    <3>1. /\ task' = task /\ pc # "top" /\ pc' \notin {"top", "key"}
          /\ UNCHANGED <<CountsFromRTC, since>>
      BY <2>5 DEF Start, Wait, Read
    <3>. QED
      BY <3>1
  <2>6. CASE EndCommand
    BY <2>6 DEF EndCommand
  <2>7. CASE EndSample
    BY <2>7 DEF EndSample, TypeOK
  <2>8. CASE Tick
    BY <2>8, Constants DEF Tick, NextCount, TypeOK
  <2>9. CASE Convert /\ UNCHANGED <<controller, locals, history>>
    BY <2>9
  <2>10. CASE UNCHANGED vars
    BY <2>10 DEF vars
  <2>. QED
    BY <2>1, <2>2, <2>3, <2>4, <2>5, <2>6, <2>7, <2>8, <2>9, <2>10 DEF Next, MainLoop
<1>3. TypeOK /\ SpacingInv /\ [Next]_vars => [~Sampling /\ Sampling' => since = PERIOD]_vars
  <2>. SUFFICES ASSUME TypeOK, SpacingInv, Next, ~Sampling, Sampling' PROVE since = PERIOD
    OBVIOUS
  <2>. USE DEF Sampling, controller, locals, history, At, Go
  <2>1. CASE CheckCount
    BY <2>1, Constants DEF CheckCount, Due, SpacingInv, TypeOK
  <2>2. CASE QuickCommand \/ MeasuringCommand \/ CalCommand
    BY <2>2 DEF QuickCommand, MeasuringCommand, CalCommand
  <2>3. CASE Key
    BY <2>3 DEF Key, AD7794InternalTempCal, CalibrateHeaterCurrent
  <2>4. CASE Start \/ Wait \/ Read
    BY <2>4 DEF Start, Wait, Read
  <2>5. CASE EndCommand \/ EndSample
    BY <2>5 DEF EndCommand, EndSample
  <2>6. CASE Tick \/ (Convert /\ UNCHANGED <<controller, locals, history>>)
    BY <2>6 DEF Tick
  <2>. QED
    BY <2>1, <2>2, <2>3, <2>4, <2>5, <2>6 DEF Next, MainLoop
<1>. QED
  BY <1>1, <1>2, <1>3, TypeCorrect, PTL DEF Spec, SampleSpacing

(***************************************************************************)
(* Missed samples.                                                         *)
(*                                                                         *)
(* The count reaches PERIOD by a tick.  While the main loop has not looked *)
(* at it since, idle counts that tick; when it has looked, a controller    *)
(* that was on has its sample.  The next tick is idle's second one.        *)
(***************************************************************************)

MissedInv ==
    /\ pc = "key" => task # "TemperatureControllerTask"
    /\ armed => controlOn
    /\ CountsFromRTC = PERIOD /\ armed /\ ~Sampling => idle >= 1
    /\ missed => slow

(* A sample is missed only when the main loop is away for a whole second.  *)
THEOREM MissedCorrect == Spec => []MissedOnlyIfSlow
<1>1. Init => MissedInv
  BY DEF Init, MissedInv
<1>2. TypeOK /\ MissedInv /\ [Next]_vars => MissedInv'
  <2>. SUFFICES ASSUME TypeOK, MissedInv, [Next]_vars PROVE MissedInv'
    OBVIOUS
  <2>. USE DEF MissedInv, Sampling, controller, locals, history, At, Go
  <2>1. CASE QuickCommand
    <3>1. /\ armed' = (armed /\ controlOn') /\ ~Sampling /\ pc' = "top"
          /\ UNCHANGED <<CountsFromRTC, idle, slow, missed>>
      BY <2>1 DEF QuickCommand
    <3>. QED
      BY <3>1
  <2>2. CASE MeasuringCommand \/ CalCommand
    BY <2>2 DEF MeasuringCommand, CalCommand
  <2>3. CASE Key
    BY <2>3 DEF Key, AD7794InternalTempCal, CalibrateHeaterCurrent, StartConversion
  <2>4. CASE CheckCount
    BY <2>4 DEF CheckCount, Due
  <2>5. CASE Start \/ Wait \/ Read
    <3>1. /\ task' = task /\ pc # "top" /\ pc' \notin {"top", "key"}
          /\ UNCHANGED <<CountsFromRTC, controlOn, idle, slow, armed, missed>>
      BY <2>5 DEF Start, Wait, Read
    <3>. QED
      BY <3>1
  <2>6. CASE EndCommand
    BY <2>6 DEF EndCommand
  <2>7. CASE EndSample
    BY <2>7, Constants DEF EndSample
  <2>8. CASE Tick
    <3>1. armed' = controlOn /\ UNCHANGED <<controlOn, task, pc>>
      BY <2>8 DEF Tick
    <3>2. idle' >= 1 /\ (idle >= 1 => idle' = 2)
      BY <2>8 DEF Tick, TypeOK
    <3>3. ASSUME CountsFromRTC = PERIOD, armed, ~Sampling
          PROVE  slow'
      BY <2>8, <3>2, <3>3 DEF Tick
    <3>4. missed' => slow'
      BY <2>8, <3>3 DEF Tick
    <3>. QED
      BY <3>1, <3>2, <3>4
  <2>9. CASE Convert /\ UNCHANGED <<controller, locals, history>>
    BY <2>9
  <2>10. CASE UNCHANGED vars
    BY <2>10 DEF vars
  <2>. QED
    BY <2>1, <2>2, <2>3, <2>4, <2>5, <2>6, <2>7, <2>8, <2>9, <2>10 DEF Next, MainLoop
<1>3. MissedInv => MissedOnlyIfSlow
  BY DEF MissedInv, MissedOnlyIfSlow
<1>. QED
  BY <1>1, <1>2, <1>3, TypeCorrect, PTL DEF Spec

(***************************************************************************)
(* The excitation current.                                                 *)
(*                                                                         *)
(* A current is on only between Start and Read, and then it is the one of  *)
(* the channel that is measured, which ReadData switches off.              *)
(***************************************************************************)

CurrentInv ==
    adIO \in IF pc \in {"wait", "read"} THEN {"off", Head(todo)} ELSE {"off"}

(* No thermistor is left with its measuring current on, timeouts or not.   *)
THEOREM ExcitationCorrect == Spec => []ExcitationOff
<1>1. Init => CurrentInv
  BY DEF Init, ADInit, CurrentInv
<1>2. TypeOK /\ CurrentInv /\ [Next]_vars => CurrentInv'
  <2>. SUFFICES ASSUME TypeOK, CurrentInv, [Next]_vars PROVE CurrentInv'
    OBVIOUS
  <2>. USE DEF CurrentInv, adVars, controller, locals, history, At, Go
  <2>1. CASE QuickCommand \/ MeasuringCommand
    BY <2>1 DEF QuickCommand, MeasuringCommand
  <2>2. CASE CalCommand
    BY <2>2 DEF CalCommand, SelfCalibrate
  <2>3. CASE Key
    BY <2>3 DEF Key, AD7794InternalTempCal, CalibrateHeaterCurrent, StartConversion, Thermistors
  <2>4. CASE CheckCount
    BY <2>4 DEF CheckCount
  <2>5. CASE Start
    BY <2>5 DEF Start, StartConversion
  <2>6. CASE Wait
    BY <2>6 DEF Wait, WaitReady
  <2>7. CASE Read
    <3>1. adIO \in {"off", Head(todo)} /\ adIO \in Currents /\ pc' # "read"
      BY <2>7 DEF Read, TypeOK, ADTypeOK
    <3>2. adIO' = IF Head(todo) \in Thermistors THEN "off" ELSE adIO
      BY <2>7 DEF Read, ReadData, IOAfter
    <3>3. adIO' = "off"
      BY <3>1, <3>2 DEF Currents
    <3>. QED
      BY <3>3
  <2>8. CASE EndCommand
    BY <2>8 DEF EndCommand
  <2>9. CASE EndSample
    BY <2>9 DEF EndSample
  <2>10. CASE Tick
    BY <2>10 DEF Tick
  <2>11. CASE Convert /\ UNCHANGED <<controller, locals, history>>
    BY <2>11 DEF Convert
  <2>12. CASE UNCHANGED vars
    BY <2>12 DEF vars
  <2>. QED
    BY <2>1, <2>2, <2>3, <2>4, <2>5, <2>6, <2>7, <2>8, <2>9, <2>10, <2>11, <2>12
       DEF Next, MainLoop
<1>3. CurrentInv => ExcitationOff
  BY DEF CurrentInv, ExcitationOff
<1>. QED
  BY <1>1, <1>2, <1>3, TypeCorrect, PTL DEF Spec

(***************************************************************************)
(* The values that are read.                                               *)
(*                                                                         *)
(* Wherever the main loop waits or reads, the chip is set up for the       *)
(* channel that is due.  In continuous mode the conversions go on while    *)
(* the list of channels gets shorter: it names one channel only.           *)
(***************************************************************************)

IOFor(c) == IF c \in Thermistors THEN c ELSE "off"
Own(c)   == [channel |-> c, io |-> IOFor(c)]

OwnInv ==
    /\ pc \notin {"wait", "read"} => adIO = "off"
    /\ pc \in {"wait", "read"} =>
          /\ adChannel = Head(todo) /\ adIO = IOFor(Head(todo))
          /\ adMode = "continuous" => todo \in Seq({"internal"})
          /\ pc = "wait" /\ adReady => adData = Own(Head(todo))
          /\ pc = "read" /\ ~late => adData = Own(Head(todo))

(* What the commands and the tasks do between measurements.                *)
LEMMA OwnElsewhere ==
    ASSUME OwnInv, pc \notin {"wait", "read"}, pc' \notin {"wait", "read"}, adIO' = adIO
    PROVE  OwnInv'
  BY DEF OwnInv

LEMMA OwnSame ==
    ASSUME OwnInv, UNCHANGED <<adVars, pc, todo>>
    PROVE  OwnInv'
  BY DEF OwnInv, adVars

LEMMA OneChannel ==
    /\ Readings("internal") \in Seq({"internal"})
    /\ Head(Readings("internal")) = "internal"
<1>1. Readings("internal") \in [1..CalReadings -> {"internal"}]
  BY DEF Readings
<1>. QED
  BY <1>1, Constants DEF Readings

(* Without a timeout every value that is read was converted from its own   *)
(* channel, with that thermistor's current on and no other.                *)
THEOREM OwnCorrect == Spec => []OwnValues
<1>1. Init => OwnInv
  BY DEF Init, ADInit, OwnInv
<1>2. TypeOK /\ OwnInv /\ [Next]_vars => OwnInv'
  <2>. SUFFICES ASSUME TypeOK, OwnInv, [Next]_vars PROVE OwnInv'
    OBVIOUS
  <2>. USE DEF adVars, controller, locals, history, At, Go
  <2>1. CASE QuickCommand \/ MeasuringCommand \/ CalCommand
    BY <2>1, OwnElsewhere DEF QuickCommand, MeasuringCommand, CalCommand, SelfCalibrate
  <2>2. CASE Key
    <3>1. CASE AD7794InternalTempCal
      <4>1. /\ pc' = "wait" /\ todo' = Readings("internal") /\ adIO = "off"
            /\ adChannel' = "internal" /\ adIO' = adIO /\ adReady' = FALSE
        BY <2>2, <3>1
           DEF Key, AD7794InternalTempCal, StartConversion, OwnInv, Thermistors
      <4>2. IOFor("internal") = "off"
        BY DEF IOFor, Thermistors
      <4>. QED
        BY <4>1, <4>2, OneChannel DEF OwnInv
    <3>2. CASE ~AD7794InternalTempCal
      BY <2>2, <3>2, OwnElsewhere DEF Key, CalibrateHeaterCurrent
    <3>. QED
      BY <3>1, <3>2
  <2>3. CASE CheckCount \/ EndCommand \/ EndSample
    BY <2>3, OwnElsewhere DEF CheckCount, EndCommand, EndSample
  <2>4. CASE Start
    <3>1. /\ pc' = "wait" /\ todo' = todo /\ adReady' = FALSE /\ adMode' = "single"
          /\ adChannel' = Head(todo)
      BY <2>4 DEF Start, StartConversion
    <3>2. adIO' = IOFor(Head(todo))
      BY <2>4 DEF Start, StartConversion, OwnInv, IOFor
    <3>. QED
      BY <3>1, <3>2 DEF OwnInv
  <2>5. CASE Wait
    <3>1. /\ pc = "wait" /\ pc' = "read"
          /\ UNCHANGED <<adMode, adChannel, adIO, adData, adReady, todo>>
          /\ adReady \/ late'
      BY <2>5 DEF Wait, WaitReady
    <3>. QED
      BY <3>1 DEF OwnInv
  <2>6. CASE Read
    <3>1. /\ adIO' = IOAfter(Head(todo)) /\ adReady' = FALSE /\ todo' = Tail(todo)
          /\ pc = "read" /\ UNCHANGED <<adMode, adChannel>>
          /\ pc' \in {"start", "wait", "end"}
          /\ pc' = "wait" => adMode = "continuous" /\ todo' # << >>
      BY <2>6 DEF Read, ReadData
    <3>2. adIO' = "off"
      BY <3>1 DEF OwnInv, IOFor, IOAfter
    <3>3. CASE pc' # "wait"
      BY <3>1, <3>2, <3>3 DEF OwnInv
    <3>4. CASE pc' = "wait"
      <4>1. todo \in Seq({"internal"}) /\ todo # << >> /\ todo' # << >>
        BY <3>1, <3>4 DEF OwnInv, TypeOK
      <4>2. todo' \in Seq({"internal"}) /\ Head(todo) = "internal" /\ Head(todo') = "internal"
        BY <3>1, <4>1
      <4>3. adChannel' = Head(todo') /\ adIO' = IOFor(Head(todo'))
        BY <3>1, <3>2, <4>2 DEF OwnInv, IOFor, Thermistors
      <4>. QED
        BY <3>1, <3>4, <4>2, <4>3 DEF OwnInv
    <3>. QED
      BY <3>3, <3>4
  <2>7. CASE Tick
    BY <2>7, OwnSame DEF Tick
  <2>8. CASE Convert /\ UNCHANGED <<controller, locals, history>>
    <3>1. /\ adData' = [channel |-> adChannel, io |-> adIO]
          /\ adMode' = "continuous" => adMode = "continuous"
          /\ UNCHANGED <<adChannel, adIO, late, pc, todo>>
      BY <2>8 DEF Convert
    <3>. QED
      BY <3>1 DEF OwnInv, Own
  <2>9. CASE UNCHANGED vars
    BY <2>9, OwnSame DEF vars
  <2>. QED
    BY <2>1, <2>2, <2>3, <2>4, <2>5, <2>6, <2>7, <2>8, <2>9 DEF Next, MainLoop
<1>3. OwnInv => OwnValues
  BY DEF OwnInv, OwnValues, Own, IOFor
<1>. QED
  BY <1>1, <1>2, <1>3, TypeCorrect, PTL DEF Spec
=============================================================================
