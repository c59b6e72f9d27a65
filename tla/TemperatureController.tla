----------------------- MODULE TemperatureController ------------------------
(***************************************************************************)
(* The temperature controller of Board/Hardware.c with the commands of     *)
(* Board/commands.c that measure, calibrate and switch.  ISR(INT3_vect)    *)
(* counts the seconds of the clock in CountsFromRTC; the main loop takes a *)
(* sample when it finds the count at PERIOD, and sets it to 0 afterwards.  *)
(*                                                                         *)
(* A main loop step ends wherever the clock can tick with a consequence:   *)
(* before and after the test, before, between and after the measurements.  *)
(***************************************************************************)
EXTENDS ADConverter

CONSTANTS
    PERIOD,        \* 10 in the program
    CalReadings    \* how often a calibration measures: 10 and 5 in the program

ASSUME ControllerAssumption == PERIOD \in Nat \ {0} /\ CalReadings \in Nat \ {0}

VARIABLES
    CountsFromRTC,
    controlOn,          \* BH_STATUS_PROG_CONTROL_ON
    NumberOfSamples,
    relay,              \* pin 6 of port D
    task, pc,           \* the function the main loop is in, and where
    todo,               \* the channels it has still to measure
    since,              \* history: ticks since the last sample began, up to PERIOD
    idle,               \* history: ticks since the count was last looked at or set
                        \* to 0 by the main loop, up to 2
    slow,               \* history: idle has been 2
    armed,              \* history: the controller was on when the clock last
                        \* ticked, and has been on since
    missed              \* history: the count left PERIOD with the controller armed

controller == <<CountsFromRTC, controlOn, NumberOfSamples, relay>>
locals     == <<task, pc, todo>>
history    == <<since, idle, slow, armed, missed>>
vars       == <<adVars, controller, locals, history>>

Tasks  == {"RunCommand", "temps", "tempcal", "cal", "TemperatureControllerTask"}
Labels == {"top", "start", "wait", "read", "key", "end"}

(* The channels in the order in which GetData measures them.               *)
DataOrder   == <<"red", "black", "voltage", "internal", "current">>
Readings(c) == [i \in 1..CalReadings |-> c]

Init ==
    /\ ADInit
    /\ CountsFromRTC = 0
    /\ controlOn = FALSE
    /\ NumberOfSamples = 0
    /\ relay = FALSE
    /\ task = "RunCommand" /\ pc = "top"
    /\ todo = << >>
    /\ since = PERIOD
    /\ idle = 0 /\ slow = FALSE /\ armed = FALSE /\ missed = FALSE

-----------------------------------------------------------------------------
(* The main loop.                                                          *)

At(t, label) == task = t /\ pc = label
Go(t, label) == task' = t /\ pc' = label

StartTemperatureController ==
    /\ controlOn' = TRUE
    /\ NumberOfSamples' = 0
    /\ UNCHANGED relay

StopTemperatureController == controlOn' = FALSE /\ UNCHANGED <<NumberOfSamples, relay>>

Relay == relay' \in BOOLEAN /\ UNCHANGED <<controlOn, NumberOfSamples>>

(* A command that neither measures nor waits, or none.                     *)
QuickCommand ==
    /\ At("RunCommand", "top")
    /\ \/ StartTemperatureController
       \/ StopTemperatureController
       \/ Relay
    /\ armed' = (armed /\ controlOn')
    /\ Go("TemperatureControllerTask", "top")
    /\ UNCHANGED <<adVars, CountsFromRTC, todo, since, idle, slow, missed>>

(* `temps' and `tempcal' begin with GetData.                               *)
MeasuringCommand ==
    /\ At("RunCommand", "top")
    /\ \E t \in {"temps", "tempcal"} : Go(t, "start")
    /\ todo' = DataOrder
    /\ UNCHANGED <<adVars, controller, history>>

(* `cal' calibrates the channels and asks whether to go on.                *)
CalCommand ==
    /\ At("RunCommand", "top")
    /\ Go("cal", "key")
    /\ SelfCalibrate
    /\ UNCHANGED <<controller, todo, history>>

AD7794InternalTempCal ==
    /\ Go(task, "wait")
    /\ todo' = Readings("internal")
    /\ StartConversion("internal", "continuous")
    /\ UNCHANGED relay

(* The zero point is measured with the relay open, which stays so.         *)
CalibrateHeaterCurrent ==
    /\ Go(task, "start")
    /\ todo' = Readings("current")
    /\ relay' = FALSE
    /\ UNCHANGED adVars

(* WaitForAnyKey, and what the key asks for.  Any other key ends the       *)
(* command.                                                                *)
Key ==
    /\ pc = "key"
    /\ \/ task = "tempcal" /\ AD7794InternalTempCal
       \/ task = "cal" /\ CalibrateHeaterCurrent
       \/ Go("TemperatureControllerTask", "top") /\ UNCHANGED <<adVars, relay, todo>>
    /\ UNCHANGED <<CountsFromRTC, controlOn, NumberOfSamples, history>>

DueWhenOff == CountsFromRTC = PERIOD /\ ~controlOn   \* mutant
Due        == CountsFromRTC = PERIOD /\ controlOn

(* TemperatureControllerTask looks at the count.                           *)
CheckCount ==
    /\ At("TemperatureControllerTask", "top")
    /\ IF Due
       THEN /\ Go(task, "start") /\ todo' = DataOrder
            /\ since' = 0
       ELSE /\ Go("RunCommand", "top")
            /\ UNCHANGED <<todo, since>>
    /\ idle' = 0
    /\ UNCHANGED <<adVars, controller, slow, armed, missed>>

Start ==
    /\ pc = "start"
    /\ StartConversion(Head(todo), "single")
    /\ pc' = "wait"
    /\ UNCHANGED <<controller, task, todo, history>>

Wait ==
    /\ pc = "wait"
    /\ WaitReady
    /\ pc' = "read"
    /\ UNCHANGED <<controller, task, todo, history>>

(* The conversions of AD7794InternalTempCal follow each other by           *)
(* themselves, the others are started one by one.                          *)
Read ==
    /\ pc = "read"
    /\ ReadData(Head(todo))
    /\ todo' = Tail(todo)
    /\ \/ todo' = << >> /\ pc' = "end"
       \/ todo' # << >> /\ pc' = IF adMode = "continuous" THEN "wait" ELSE "start"
    /\ UNCHANGED <<controller, task, history>>

EndCommand ==
    /\ pc = "end" /\ task # "TemperatureControllerTask"
    /\ IF task = "tempcal" /\ adMode # "continuous"
       THEN Go(task, "key") ELSE Go("TemperatureControllerTask", "top")
    /\ UNCHANGED <<adVars, controller, todo, history>>

(* Mutant: the count is left alone.                                        *)
EndSampleNoReset ==
    /\ At("TemperatureControllerTask", "end")
    /\ NumberOfSamples' = IF NumberOfSamples < 6 THEN NumberOfSamples + 1 ELSE NumberOfSamples
    /\ Go("RunCommand", "top")
    /\ UNCHANGED <<adVars, CountsFromRTC, controlOn, relay, todo, history>>

(* The sample is counted, no more, and the count starts again.             *)
EndSample ==
    /\ At("TemperatureControllerTask", "end")
    /\ NumberOfSamples' = IF NumberOfSamples < 6 THEN NumberOfSamples + 1 ELSE NumberOfSamples
    /\ CountsFromRTC' = 0
    /\ idle' = 0
    /\ Go("RunCommand", "top")
    /\ UNCHANGED <<adVars, controlOn, relay, todo, since, slow, armed, missed>>

MainLoop ==
    \/ QuickCommand \/ MeasuringCommand \/ CalCommand
    \/ CheckCount
    \/ Start \/ Wait \/ Read
    \/ EndCommand \/ EndSample

-----------------------------------------------------------------------------
(* ISR(INT3_vect).                                                         *)

NextCountEarly(n) == IF n + 1 >= PERIOD THEN n + 1 - PERIOD ELSE n + 1   \* mutant
NextCountLate(n)  == IF n > PERIOD THEN n + 1 - PERIOD ELSE n + 1        \* mutant
NextCount(n)      == IF n + 1 > PERIOD THEN n + 1 - PERIOD ELSE n + 1

Sampling == task = "TemperatureControllerTask" /\ pc # "top"

Tick ==
    /\ CountsFromRTC' = NextCount(CountsFromRTC)
    /\ since' = IF since < PERIOD THEN since + 1 ELSE since
    /\ idle' = IF idle < 2 THEN idle + 1 ELSE idle
    /\ slow' = (slow \/ (idle' = 2 /\ ~Sampling))
    /\ armed' = controlOn
    /\ missed' = (missed \/ (CountsFromRTC = PERIOD /\ armed /\ ~Sampling))
    /\ UNCHANGED <<adVars, controlOn, NumberOfSamples, relay, locals>>

Next ==
    \/ MainLoop
    \/ Key
    \/ Tick
    \/ Convert /\ UNCHANGED <<controller, locals, history>>

(* The program runs, the clock ticks and the chip converts; nobody needs   *)
(* to press a key.                                                         *)
Spec == /\ Init /\ [][Next]_vars
        /\ WF_vars(MainLoop)
        /\ WF_vars(Tick)
        /\ WF_vars(Convert /\ UNCHANGED <<controller, locals, history>>)

-----------------------------------------------------------------------------
(* What the controller promises.                                           *)

(* Types; the count of the seconds stays within the period, and a channel  *)
(* is left to measure wherever the main loop measures.                     *)
TypeOK ==
    /\ ADTypeOK
    /\ CountsFromRTC \in 0..PERIOD
    /\ controlOn \in BOOLEAN
    /\ NumberOfSamples \in 0..6
    /\ relay \in BOOLEAN
    /\ task \in Tasks
    /\ pc \in Labels
    /\ todo \in Seq(Channels)
    /\ pc \in {"start", "wait", "read"} => todo # << >>
    /\ since \in 0..PERIOD
    /\ idle \in 0..2
    /\ slow \in BOOLEAN /\ armed \in BOOLEAN /\ missed \in BOOLEAN

(* Two samples begin at least a period apart, although ticks go on while   *)
(* one is taken and the controller is stopped and started in between.      *)
SampleSpacing == [][~Sampling /\ Sampling' => since = PERIOD]_vars

(* The count is compared for equality, so a sample is missed when the main *)
(* loop is away for a whole second, and only then.                         *)
MissedOnlyIfSlow == missed => slow

(* Without a timeout every value that is read was converted from its own   *)
(* channel, with the current of that thermistor on and no other current.   *)
OwnValues ==
    (pc = "read" /\ ~late) =>
        LET c == Head(todo)
        IN  adData = [channel |-> c, io |-> IF c \in Thermistors THEN c ELSE "off"]

(* No thermistor is heated by its measuring current between measurements,  *)
(* timeouts or not.                                                        *)
ExcitationOff == pc \in {"top", "key", "end"} => adIO = "off"

(* A controller that stays on, in a loop that is never away for a second,  *)
(* goes on taking samples.                                                 *)
SamplesGoOn == ([]~slow /\ <>[]controlOn) => []<>Sampling
=============================================================================
