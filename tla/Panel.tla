------------------------------- MODULE Panel -------------------------------
(***************************************************************************)
(* The front panel: two buttons and three LEDs behind a MAX7315 expander   *)
(* on the two-wire bus, and BH_HIOStatus, the byte in which the firmware   *)
(* remembers pressed buttons and lit LEDs (Board/status.c, LED,            *)
(* HandleButtonPress, GetButtonState and ISR(INT2_vect) of                 *)
(* Board/Hardware.c, Board/max7315.c).                                     *)
(*                                                                         *)
(* The main loop and ISR(INT2_vect) share BH_HIOStatus and the bus without *)
(* a lock.  BH_SetStatus compiles to a load and a store, so these are two  *)
(* steps here and the interrupt may be served between them; a bus          *)
(* transaction of the main loop is a step during which the interrupt,      *)
(* which starts a transaction of its own, may be served as well.  The ISR  *)
(* is never interrupted, but the buttons can move while it reads them.     *)
(***************************************************************************)
EXTENDS Naturals, Sequences, FiniteSetsExt

CONSTANTS
    Buttons,     \* the buttons somebody uses: 1 is red, 2 is black
    LedCalls,    \* the sequences of LED() calls one command may make
    Controller,  \* may TemperatureControllerTask take a sample?
    TwiFaults,   \* may a transaction fail?
    TwiNests,    \* does TWIRW survive being entered again by the ISR?
    Chords,      \* may two buttons be down at once?
    Bounce       \* may a button move while INT2 is pending or being served?

Leds  == 1..3
Tasks == {"RunCommand", "HandleButtonPress", "TemperatureControllerTask"}

(* A call LED(led, state): led 0 stands for every number that is no LED,   *)
(* state 2 for every byte other than 0 and 1.                              *)
Call       == [led : 0..3, state : 0..2]
On(n)      == [led |-> n, state |-> 1]
Off(n)     == [led |-> n, state |-> 0]

ASSUME PanelAssumption ==
    /\ Buttons \subseteq 1..2
    /\ \A c \in LedCalls : c \in Seq(Call) /\ c # << >>
    /\ Controller \in BOOLEAN
    /\ TwiFaults \in BOOLEAN
    /\ TwiNests \in BOOLEAN
    /\ Chords \in BOOLEAN
    /\ Bounce \in BOOLEAN

VARIABLES
    hio,       \* BH_HIOStatus: the bits PEND, OLD and LED (bit 7 is never read)
    hwError,   \* BH_STATUS_HW_MAX7315, left set when MAX7315Init failed
    blink0,    \* the LEDs the expander's register BLINK0 lights
    twi,       \* the two-wire interface: "on" as HardwareInit left it, "scan"
               \* in the command twiscan, and "off" behind it
    down,      \* the buttons held down
    latched,   \* the inputs at the last read of INPUTS; INT is low while they differ
    int2,      \* the pending flag of INT2 in EIFR
    isr,       \* ISR(INT2_vect) has been entered and is reading INPUTS
    task,      \* the function of the main loop that is running
    pc,        \* where it is
    calls,     \* the LED() calls it has still to make
    readReg,   \* ReadReg of MAX7315ModifyReg
    op,        \* the bit BH_SetStatus is to change
    reg,       \* the copy of BH_HIOStatus between the load and the store
    clash      \* the ISR used the bus during the current transaction

panel  == <<hio, hwError, blink0>>
inputs == <<down, latched, int2, isr>>
locals == <<task, pc, calls, readReg, op, reg, clash>>
vars   == <<panel, twi, inputs, locals>>

-----------------------------------------------------------------------------
(* The status byte.                                                        *)

HIO   == [pend : SUBSET (1..2), old : SUBSET (1..2), lit : SUBSET Leds]
BitOp == [field : {"pend"}, n : 1..2, val : {0, 1}]
             \union [field : {"lit"}, n : Leds, val : {0, 1}]

NoByte == [pend |-> {}, old |-> {}, lit |-> {}]
NoOp   == [field |-> "pend", n |-> 1, val |-> 0]

Put(S, n, val) == IF val = 1 THEN S \union {n} ELSE S \ {n}

(* Mutant: both PEND bits are cleared at once.                             *)
WithBitBoth(byte, o) ==
    IF o.field = "pend" THEN [byte EXCEPT !.pend = {}]
                        ELSE [byte EXCEPT !.lit  = Put(@, o.n, o.val)]

(* Mutant: the mask is not inverted, so a bit cannot be cleared.           *)
WithBitStuck(byte, o) ==
    IF o.field = "pend" THEN byte
                        ELSE [byte EXCEPT !.lit = Put(@, o.n, o.val)]

WithBit(byte, o) ==
    IF o.field = "pend" THEN [byte EXCEPT !.pend = Put(@, o.n, o.val)]
                        ELSE [byte EXCEPT !.lit  = Put(@, o.n, o.val)]

(* The state in which HardwareInit enables the interrupts.  A failed       *)
(* MAX7315Init leaves the expander as it found it.                         *)
Init ==
    /\ hio = NoByte
    /\ hwError \in BOOLEAN
    /\ down \in {D \in SUBSET Buttons : Chords \/ Cardinality(D) <= 1}
    /\ IF hwError THEN blink0 \in SUBSET Leds /\ latched \in SUBSET (1..2)
                  ELSE blink0 = {} /\ latched = down
    /\ twi = "on"
    /\ int2 \in BOOLEAN
    /\ isr = FALSE
    /\ task = "RunCommand"
    /\ pc = "top"
    /\ calls = << >>
    /\ readReg = {}
    /\ op = NoOp
    /\ reg = NoByte
    /\ clash = FALSE

-----------------------------------------------------------------------------
(* The main loop.  It runs while no ISR does.                              *)

NextTask == CASE task = "RunCommand"                -> "HandleButtonPress"
              [] task = "HandleButtonPress"         -> "TemperatureControllerTask"
              [] task = "TemperatureControllerTask" -> "RunCommand"

(* Go on with the LED() calls cs, or return to the main loop.              *)
Resume(cs) ==
    /\ calls' = cs
    /\ IF cs = << >> THEN pc' = "top" /\ task' = NextTask
                     ELSE pc' = "led" /\ task' = task

At(label) == ~isr /\ pc = label

(* A command: `led' makes LED() calls; `led 4 r', gettime and settime make *)
(* a transaction; twiscan turns the interface on, scans the bus, and turns *)
(* it off.  The other commands do not touch the panel or the bus.          *)
RunCommand ==
    /\ At("top") /\ task = "RunCommand"
    /\ \/ (\E cs \in LedCalls \union {<< >>} : Resume(cs)) /\ UNCHANGED twi
       \/ pc' = "bus" /\ UNCHANGED <<twi, task, calls>>
       \/ pc' = "scan" /\ twi' = "scan" /\ UNCHANGED <<task, calls>>
    /\ UNCHANGED <<panel, inputs, readReg, op, reg, clash>>

(* LED 3 is lit while a sample is taken.                                   *)
TemperatureControllerTask ==
    /\ At("top") /\ task = "TemperatureControllerTask"
    /\ \/ Resume(<< >>)
       \/ Controller /\ Resume(<<On(3), Off(3)>>)
    /\ UNCHANGED <<panel, twi, inputs, readReg, op, reg, clash>>

(* The red button lights the first dark LED, the black one puts out the    *)
(* last lit one; the decision is made on one read of BH_HIOStatus.         *)
StepUp(lit)   == IF lit = Leds THEN << >> ELSE <<On(Min(Leds \ lit))>>
StepDown(lit) == IF lit = {}   THEN << >> ELSE <<Off(Max(lit))>>

Take(b, cs) ==
    /\ op' = [field |-> "pend", n |-> b, val |-> 0]
    /\ calls' = cs
    /\ pc' = "load"
    /\ UNCHANGED task

(* Mutant: the black button is tested first.                               *)
BlackFirst ==
    /\ At("top") /\ task = "HandleButtonPress"
    /\ \/ hio.pend = {} /\ Resume(<< >>) /\ UNCHANGED op
       \/ 2 \in hio.pend /\ Take(2, StepDown(hio.lit))
       \/ 2 \notin hio.pend /\ 1 \in hio.pend /\ Take(1, StepUp(hio.lit))
    /\ UNCHANGED <<panel, twi, inputs, readReg, reg, clash>>

HandleButtonPress ==
    /\ At("top") /\ task = "HandleButtonPress"
    /\ \/ hio.pend = {} /\ Resume(<< >>) /\ UNCHANGED op
       \/ 1 \in hio.pend /\ Take(1, StepUp(hio.lit))
       \/ 1 \notin hio.pend /\ 2 \in hio.pend /\ Take(2, StepDown(hio.lit))
    /\ UNCHANGED <<panel, twi, inputs, readReg, reg, clash>>

(* Mutant of LED: any number other than 2 and 3 is taken for LED 1.        *)
LEDAnyNumber ==
    /\ At("led")
    /\ IF hwError THEN Resume(Tail(calls)) ELSE pc' = "read" /\ UNCHANGED <<task, calls>>
    /\ UNCHANGED <<panel, twi, inputs, readReg, op, reg, clash>>

(* LED: it returns at once if the expander failed to initialise; a number  *)
(* that is no LED falls through its conditions.                            *)
LED ==
    /\ At("led")
    /\ IF hwError \/ Head(calls).led = 0
       THEN Resume(Tail(calls))
       ELSE pc' = "read" /\ UNCHANGED <<task, calls>>
    /\ UNCHANGED <<panel, twi, inputs, readReg, op, reg, clash>>

(* How the transactions of MAX7315ModifyReg end.  An interface that is off *)
(* transfers nothing.                                                      *)
MayFail == TwiFaults \/ twi = "off" \/ (clash /\ ~TwiNests)
Garbled == twi # "off" /\ clash /\ ~TwiNests

(* LED ignores the result of MAX7315ModifyReg and goes on to BH_SetStatus, *)
(* which does nothing when LEDState is neither 0 nor 1.                    *)
AfterModifyReg ==
    /\ clash' = FALSE
    /\ readReg' = {}
    /\ IF Head(calls).state = 2
       THEN Resume(Tail(calls)) /\ UNCHANGED op
       ELSE /\ op' = [field |-> "lit", n |-> Head(calls).led, val |-> Head(calls).state]
            /\ calls' = Tail(calls)
            /\ pc' = "load"
            /\ UNCHANGED task

(* Mutant: the register is written without having been read.               *)
ModifyBlind ==
    /\ At("read")
    /\ readReg' = {} /\ pc' = "write" /\ clash' = FALSE
    /\ UNCHANGED <<panel, twi, inputs, task, calls, op, reg>>

ModifyRead ==
    /\ At("read")
    /\ \/ /\ twi # "off"
          /\ readReg' \in IF Garbled THEN SUBSET Leds ELSE {blink0}
          /\ pc' = "write"
          /\ clash' = FALSE
          /\ UNCHANGED <<task, calls, op>>
       \/ MayFail /\ AfterModifyReg
    /\ UNCHANGED <<panel, twi, inputs, reg>>

(* A failed write may or may not have reached the register.                *)
ModifyWrite ==
    LET new == Put(readReg, Head(calls).led, Head(calls).state) IN
    /\ At("write")
    /\ \/ twi # "off" /\ blink0' = new
       \/ MayFail /\ blink0' = blink0
       \/ Garbled /\ blink0' \in SUBSET Leds
    /\ AfterModifyReg
    /\ UNCHANGED <<hio, hwError, twi, inputs, reg>>

(* The transaction of a command that uses the bus: `led 4 0' reads INPUTS, *)
(* and so acknowledges the interrupt, the others touch other registers.    *)
BusCommand ==
    /\ At("bus")
    /\ latched' \in IF twi = "off" THEN {latched} ELSE {down, latched}
    /\ clash' = FALSE
    /\ Resume(<< >>)
    /\ UNCHANGED <<panel, twi, down, int2, isr, readReg, op, reg>>

(* twiscan addresses every device, which may make the expander's inputs    *)
(* count as read, and turns the interface off.  Nothing turns it on again  *)
(* but a start of the program, or twiscan for the time of its scan.        *)
TwiScan ==
    /\ At("scan")
    /\ twi' = "off"
    /\ latched' \in {down, latched}
    /\ clash' = FALSE
    /\ Resume(<< >>)
    /\ UNCHANGED <<panel, down, int2, isr, readReg, op, reg>>

(* BH_SetStatus on BH_HIOStatus, which is not volatile: one load, one      *)
(* store, and an interrupt may be served in between.                       *)
LoadStatus ==
    /\ At("load")
    /\ reg' = hio
    /\ pc' = "store"
    /\ UNCHANGED <<panel, twi, inputs, task, calls, readReg, op, clash>>

StoreStatus ==
    /\ At("store")
    /\ hio' = WithBit(reg, op)
    /\ op' = NoOp
    /\ reg' = NoByte
    /\ Resume(calls)
    /\ UNCHANGED <<hwError, blink0, twi, inputs, readReg, clash>>

MainLoop ==
    \/ RunCommand \/ HandleButtonPress \/ TemperatureControllerTask
    \/ LED \/ ModifyRead \/ ModifyWrite \/ BusCommand \/ TwiScan
    \/ LoadStatus \/ StoreStatus

-----------------------------------------------------------------------------
(* The interrupt.                                                          *)

OnBus == pc \in {"read", "write", "bus", "scan"}

(* The core clears the flag and enters the vector.                         *)
INT2_vect ==
    /\ int2 /\ ~isr
    /\ int2' = FALSE
    /\ isr' = TRUE
    /\ clash' = (clash \/ OnBus)
    /\ UNCHANGED <<panel, twi, down, latched, task, pc, calls, readReg, op, reg>>

(* The rest of the ISR.  GetButtonState ignores the result of the read, so *)
(* what a failed read leaves in DataToReceive is taken for the buttons.    *)
(* B1_OLD and B2_OLD are compared with, and never written.                 *)
ServeButtonsInverted(read) ==   \* mutant: the inputs are active low
    /\ hio' = [hio EXCEPT !.pend = @ \union ((1..2) \ read)]
    /\ isr' = FALSE

ServeButtonsOld(read) ==        \* mutant: the OLD bits are kept up to date
    /\ hio' = [hio EXCEPT !.pend = @ \union (read \ hio.old), !.old = read]
    /\ isr' = FALSE

ServeButtons(read) ==
    /\ hio' = [hio EXCEPT !.pend = @ \union (read \ hio.old)]
    /\ isr' = FALSE

(* Mutant: the ISR stays off a bus that the main loop is using.            *)
INT2_readIfFree ==
    /\ isr
    /\ IF OnBus \/ twi = "off" THEN isr' = FALSE /\ UNCHANGED <<hio, latched>>
                              ELSE ServeButtons(down) /\ latched' = down
    /\ UNCHANGED <<hwError, blink0, twi, down, int2, locals>>

INT2_read ==
    /\ isr
    /\ \/ twi # "off" /\ ServeButtons(down) /\ latched' = down
       \/ /\ TwiFaults \/ twi = "off" \/ (OnBus /\ ~TwiNests)
          /\ \E garbage \in SUBSET (1..2) : ServeButtons(garbage)
          /\ latched' \in IF twi = "off" THEN {latched} ELSE {latched, down}
    /\ UNCHANGED <<hwError, blink0, twi, down, int2, locals>>

(* A button is pressed or released.  The expander pulls INT low when its   *)
(* inputs come to differ from those last read, and INT2 is triggered by    *)
(* the falling edge.                                                       *)
Toggle(b) ==
    LET now == IF b \in down THEN down \ {b} ELSE down \union {b} IN
    /\ Chords \/ Cardinality(now) <= 1
    /\ Bounce \/ ~(int2 \/ isr)
    /\ down' = now
    /\ int2' = (int2 \/ (down = latched /\ now # latched))
    /\ UNCHANGED <<panel, twi, latched, isr, locals>>

Next ==
    \/ MainLoop
    \/ INT2_vect
    \/ INT2_read
    \/ \E b \in Buttons : Toggle(b)

(* The core serves a pending interrupt as soon as no ISR runs.  However    *)
(* fast interrupts arrive it executes one instruction of the main program  *)
(* after each return from an ISR, so the main loop is treated strongly.    *)
Fairness == /\ SF_vars(MainLoop)
            /\ WF_vars(INT2_vect)
            /\ WF_vars(INT2_read)

Spec == Init /\ [][Next]_vars /\ Fairness

-----------------------------------------------------------------------------
(* What the panel promises.                                                *)

(* Every variable keeps its type, and a step of LED() has a call to make.  *)
TypeOK ==
    /\ hio \in HIO
    /\ hwError \in BOOLEAN
    /\ blink0 \in SUBSET Leds
    /\ twi \in {"on", "scan", "off"}
    /\ down \in SUBSET Buttons
    /\ latched \in SUBSET (1..2)
    /\ int2 \in BOOLEAN
    /\ isr \in BOOLEAN
    /\ task \in Tasks
    /\ pc \in {"top", "led", "read", "write", "bus", "scan", "load", "store"}
    /\ calls \in Seq(Call)
    /\ readReg \in SUBSET Leds
    /\ op \in BitOp
    /\ reg \in HIO
    /\ clash \in BOOLEAN
    /\ pc \in {"led", "read", "write"} => calls # << >>
    /\ pc \in {"read", "write"} => Head(calls).led # 0

(* A bus without errors, as long as the interface is on.                   *)
ReliableBus == ~TwiFaults /\ TwiNests

(* An edge-triggered interrupt with a level source: while the inputs       *)
(* differ from those last read INT stays low and gives no further edge, so *)
(* the flag must be set or the ISR about to read, or the buttons are dead. *)
(* It holds until the first twiscan, which leaves the ISR without a bus:   *)
(* the next press is never read, and no button works until the next start. *)
NoStuckInterrupt ==
    (~hwError /\ twi = "on" /\ down # latched) => (int2 \/ isr)

(* The unlocked read-modify-write of BH_SetStatus can only cost presses:   *)
(* between its load and its store the byte gains PEND bits and nothing     *)
(* else, whatever the bus does.                                            *)
StoreLosesOnlyPresses ==
    pc = "store" => /\ reg.lit = hio.lit
                    /\ reg.old = hio.old
                    /\ reg.pend \subseteq hio.pend

(* A pending press of the red button is taken by HandleButtonPress, the    *)
(* black one too unless red ones keep arriving: red is tested first.       *)
RedPressTaken   == (1 \in hio.pend) ~> (1 \notin hio.pend)
BlackPressTaken == <>[](1 \notin hio.pend) => ((2 \in hio.pend) ~> (2 \notin hio.pend))
=============================================================================
