---------------------------- MODULE PanelProofs ----------------------------
(***************************************************************************)
(* Proofs about Panel: its types, what the unlocked update of BH_HIOStatus *)
(* can cost, and the acknowledged interrupt; about PanelLeds: where the    *)
(* two copies of the LEDs agree; and about PanelPresses: when a press is   *)
(* lost, and when there is one nobody made.  All of it is for all values   *)
(* of the constants.                                                       *)
(***************************************************************************)
EXTENDS PanelPresses, PanelLeds, FiniteSetTheorems, TLAPS

(***************************************************************************)
(* Helpers of the specification.                                           *)
(***************************************************************************)

(* The first dark and the last lit LED are LEDs of their set.              *)
LEMMA MinMaxOfLeds ==
    ASSUME NEW S \in SUBSET Leds, S # {}
    PROVE  /\ Min(S) \in S /\ \A y \in S : Min(S) <= y
           /\ Max(S) \in S /\ \A y \in S : Max(S) >= y
<1>1. \E x \in S : \A y \in S : x <= y
  <2>1. CASE 1 \in S
    BY <2>1 DEF Leds
  <2>2. CASE 1 \notin S /\ 2 \in S
    BY <2>2 DEF Leds
  <2>3. CASE 1 \notin S /\ 2 \notin S
    <3>1. \A y \in S : y = 3
      BY <2>3 DEF Leds
    <3>2. PICK y \in S : TRUE
      BY S # {}
    <3>. QED
      BY <3>1, <3>2
  <2>. QED
    BY <2>1, <2>2, <2>3
<1>2. \E x \in S : \A y \in S : x >= y
  <2>1. CASE 3 \in S
    BY <2>1 DEF Leds
  <2>2. CASE 3 \notin S /\ 2 \in S
    BY <2>2 DEF Leds
  <2>3. CASE 3 \notin S /\ 2 \notin S
    <3>1. \A y \in S : y = 1
      BY <2>3 DEF Leds
    <3>2. PICK y \in S : TRUE
      BY S # {}
    <3>. QED
      BY <3>1, <3>2
  <2>. QED
    BY <2>1, <2>2, <2>3
<1>3. Min(S) \in S /\ \A y \in S : Min(S) <= y
  BY <1>1 DEF Min
<1>4. Max(S) \in S /\ \A y \in S : Max(S) >= y
  BY <1>2 DEF Max
<1>. QED
  BY <1>3, <1>4

(* What a press makes HandleButtonPress call is a sequence of calls of LED *)
(* with the number of an LED.                                              *)
LEMMA StepsAreCalls ==
    ASSUME NEW lit \in SUBSET Leds, NEW cs \in {StepUp(lit), StepDown(lit)}
    PROVE  cs \in Seq(Call)
<1>1. \A n \in Leds : On(n) \in Call /\ Off(n) \in Call
  BY DEF On, Off, Call, Leds
<1>2. cs # << >> => \E c \in Call : cs = <<c>>
  <2>1. CASE lit # Leds /\ cs = <<On(Min(Leds \ lit))>>
    BY <1>1, <2>1, MinMaxOfLeds
  <2>2. CASE lit # {} /\ cs = <<Off(Max(lit))>>
    BY <1>1, <2>2, MinMaxOfLeds
  <2>. QED
    BY <2>1, <2>2 DEF StepUp, StepDown
<1>3. CASE cs = << >>
  BY <1>3
<1>4. ASSUME NEW c \in Call, cs = <<c>> PROVE cs \in Seq(Call)
  BY <1>4
<1>. QED
  BY <1>2, <1>3, <1>4

(* A sequence that is not empty has a head and a tail of the same type.    *)
LEMMA HeadTailOfCalls ==
    ASSUME NEW cs \in Seq(Call), cs # << >>
    PROVE  /\ Head(cs) \in Call /\ Head(cs) = cs[1] /\ Len(cs) >= 1
           /\ Tail(cs) \in Seq(Call)
           /\ Len(Tail(cs)) = Len(cs) - 1
           /\ \A i \in 1..Len(Tail(cs)) : Tail(cs)[i] = cs[i + 1]
  OBVIOUS

LEMMA NoCallsType == << >> \in Seq(Call)
  OBVIOUS

(* BH_SetStatus changes a byte into a byte.                                *)
LEMMA WithBitType ==
    ASSUME NEW byte \in HIO, NEW o \in BitOp
    PROVE  /\ WithBit(byte, o) \in HIO
           /\ WithBit(byte, o).old = byte.old
           /\ o.field = "pend" => WithBit(byte, o).lit = byte.lit
           /\ o.field = "lit" => /\ WithBit(byte, o).lit = Put(byte.lit, o.n, o.val)
                                 /\ WithBit(byte, o).pend = byte.pend
BY DEF WithBit, HIO, BitOp, Put, Leds

(***************************************************************************)
(* Types.                                                                  *)
(***************************************************************************)

(* Returning to the main loop or going on with the remaining calls.        *)
LEMMA ResumeType ==
    ASSUME TypeOK, NEW cs \in Seq(Call), Resume(cs)
    PROVE  /\ calls' = cs /\ task' \in Tasks
           /\ cs = << >> => pc' = "top"
           /\ cs # << >> => pc' = "led"
BY DEF TypeOK, Resume, NextTask, Tasks

LEMMA AfterModifyRegType ==
    ASSUME TypeOK, pc \in {"read", "write"}, AfterModifyReg
    PROVE  /\ clash' = FALSE /\ readReg' = {}
           /\ calls' = Tail(calls) /\ calls' \in Seq(Call)
           /\ task' \in Tasks
           /\ op' \in BitOp
           /\ pc' \in {"top", "led", "load"}
           /\ pc' = "led" => calls' # << >>
           /\ pc' = "load" => /\ op'.field = "lit" /\ op'.n = Head(calls).led
                              /\ op'.val = Head(calls).state
           /\ pc' = "load" <=> Head(calls).state # 2
           /\ pc' # "load" => op' = op
           /\ pc' = "top" => calls' = << >>
<1>1. Head(calls) \in Call /\ Tail(calls) \in Seq(Call) /\ Head(calls).led \in Leds
  BY HeadTailOfCalls DEF TypeOK, Call, Leds
<1>2. CASE Head(calls).state = 2
  <2>1. Resume(Tail(calls)) /\ op' = op
    BY <1>2 DEF AfterModifyReg
  <2>. QED
    BY <1>1, <1>2, <2>1, ResumeType DEF AfterModifyReg, TypeOK
<1>3. CASE Head(calls).state # 2
  <2>1. Head(calls).state \in {0, 1}
    BY <1>1, <1>3 DEF Call
  <2>2. /\ op' = [field |-> "lit", n |-> Head(calls).led, val |-> Head(calls).state]
        /\ calls' = Tail(calls) /\ pc' = "load" /\ task' = task
    BY <1>3 DEF AfterModifyReg
  <2>3. op' \in BitOp
    BY <1>1, <2>1, <2>2 DEF BitOp
  <2>. QED
    BY <1>1, <1>3, <2>2, <2>3 DEF AfterModifyReg, TypeOK
<1>. QED
  BY <1>2, <1>3

LEMMA TypeAlways == Init /\ [][Next]_vars => []TypeOK
<1>1. Init => TypeOK
  <2>. SUFFICES ASSUME Init PROVE TypeOK
    OBVIOUS
  <2>1. hio \in HIO /\ reg \in HIO /\ op \in BitOp
    BY DEF Init, HIO, NoByte, NoOp, BitOp
  <2>2. down \in SUBSET Buttons /\ latched \in SUBSET (1..2) /\ blink0 \in SUBSET Leds
    BY PanelAssumption DEF Init
  <2>. QED
    BY <2>1, <2>2, NoCallsType DEF Init, TypeOK, Tasks
<1>2. TypeOK /\ [Next]_vars => TypeOK'
  <2>. SUFFICES ASSUME TypeOK, [Next]_vars PROVE TypeOK'
    OBVIOUS
  <2>. USE DEF panel, inputs, locals, At
  <2>1. CASE RunCommand
    <3>1. CASE (\E cs \in LedCalls \union {<< >>} : Resume(cs)) /\ UNCHANGED twi
      <4>1. PICK cs \in LedCalls \union {<< >>} : Resume(cs)
        BY <3>1
      <4>2. cs \in Seq(Call)
        BY PanelAssumption, NoCallsType
      <4>. QED
        BY <2>1, <3>1, <4>1, <4>2, ResumeType DEF RunCommand, TypeOK
    <3>2. CASE pc' = "bus" /\ UNCHANGED <<twi, task, calls>>
      BY <2>1, <3>2 DEF RunCommand, TypeOK
    <3>3. CASE pc' = "scan" /\ twi' = "scan" /\ UNCHANGED <<task, calls>>
      BY <2>1, <3>3 DEF RunCommand, TypeOK
    <3>. QED
      BY <2>1, <3>1, <3>2, <3>3 DEF RunCommand
  <2>2. CASE HandleButtonPress
    <3>1. CASE hio.pend = {} /\ Resume(<< >>) /\ UNCHANGED op
      BY <2>2, <3>1, NoCallsType, ResumeType DEF HandleButtonPress, TypeOK
    <3>2. ASSUME NEW b \in 1..2, NEW cs \in {StepUp(hio.lit), StepDown(hio.lit)},
                 Take(b, cs)
          PROVE  TypeOK'
      <4>1. cs \in Seq(Call)
        BY StepsAreCalls DEF TypeOK, HIO
      <4>2. op' \in BitOp
        BY <3>2 DEF Take, BitOp
      <4>. QED
        BY <2>2, <3>2, <4>1, <4>2 DEF HandleButtonPress, Take, TypeOK
    <3>. QED
      BY <2>2, <3>1, <3>2 DEF HandleButtonPress
  <2>3. CASE TemperatureControllerTask
    <3>1. <<On(3), Off(3)>> \in Seq(Call)
      BY DEF On, Off, Call
    <3>. QED
      BY <2>3, <3>1, NoCallsType, ResumeType DEF TemperatureControllerTask, TypeOK
  <2>4. CASE LED
    <3>1. Tail(calls) \in Seq(Call)
      BY <2>4, HeadTailOfCalls DEF LED, TypeOK
    <3>2. CASE hwError \/ Head(calls).led = 0
      BY <2>4, <3>1, <3>2, ResumeType DEF LED, TypeOK
    <3>3. CASE ~(hwError \/ Head(calls).led = 0)
      BY <2>4, <3>3 DEF LED, TypeOK
    <3>. QED
      BY <3>2, <3>3
  <2>5. CASE ModifyRead
    <3>1. CASE AfterModifyReg
      BY <2>5, <3>1, AfterModifyRegType DEF ModifyRead, TypeOK
    <3>2. CASE ~AfterModifyReg
      BY <2>5, <3>2 DEF ModifyRead, TypeOK
    <3>. QED
      BY <3>1, <3>2
  <2>6. CASE ModifyWrite
    <3>1. Head(calls).led \in Leds
      BY <2>6, HeadTailOfCalls DEF ModifyWrite, TypeOK, Call, Leds
    <3>2. Put(readReg, Head(calls).led, Head(calls).state) \in SUBSET Leds
      BY <3>1 DEF Put, TypeOK
    <3>3. blink0' \in SUBSET Leds
      BY <2>6, <3>2 DEF ModifyWrite, TypeOK
    <3>. QED
      BY <2>6, <3>3, AfterModifyRegType DEF ModifyWrite, TypeOK
  <2>7. CASE BusCommand
    <3>1. latched' \in SUBSET (1..2)
      BY <2>7, PanelAssumption DEF BusCommand, TypeOK
    <3>. QED
      BY <2>7, <3>1, NoCallsType, ResumeType DEF BusCommand, TypeOK
  <2>8. CASE LoadStatus
    BY <2>8 DEF LoadStatus, TypeOK
  <2>9. CASE StoreStatus
    <3>1. hio' \in HIO
      BY <2>9, WithBitType DEF StoreStatus, TypeOK
    <3>2. NoOp \in BitOp /\ NoByte \in HIO
      BY DEF NoOp, BitOp, NoByte, HIO
    <3>. QED
      BY <2>9, <3>1, <3>2, ResumeType DEF StoreStatus, TypeOK
  <2>10. CASE INT2_vect
    BY <2>10 DEF INT2_vect, TypeOK
  <2>11. CASE INT2_read
    <3>1. PICK read \in SUBSET (1..2) : ServeButtons(read)
      BY <2>11, PanelAssumption DEF INT2_read, TypeOK
    <3>2. hio' \in HIO
      BY <3>1 DEF ServeButtons, TypeOK, HIO
    <3>3. latched' \in SUBSET (1..2)
      BY <2>11, PanelAssumption DEF INT2_read, TypeOK
    <3>. QED
      BY <2>11, <3>1, <3>2, <3>3 DEF INT2_read, ServeButtons, TypeOK
  <2>12. ASSUME NEW b \in Buttons, Toggle(b)
         PROVE  TypeOK'
    BY <2>12 DEF Toggle, TypeOK
  <2>13. CASE UNCHANGED vars
    BY <2>13 DEF vars, TypeOK
  <2>14. CASE TwiScan
    <3>1. latched' \in SUBSET (1..2)
      BY <2>14, PanelAssumption DEF TwiScan, TypeOK
    <3>. QED
      BY <2>14, <3>1, NoCallsType, ResumeType DEF TwiScan, TypeOK
  <2>. QED
    BY <2>1, <2>2, <2>3, <2>4, <2>5, <2>6, <2>7, <2>8, <2>9, <2>10, <2>11, <2>12, <2>13,
       <2>14
    DEF Next, MainLoop
<1>. QED
  BY <1>1, <1>2, PTL

(* Every variable keeps its type through every step of the main loop, the  *)
(* interrupt and the buttons.                                              *)
THEOREM TypeCorrect == Spec => []TypeOK
  BY TypeAlways, PTL DEF Spec

(***************************************************************************)
(* The unlocked read-modify-write of BH_HIOStatus.                         *)
(***************************************************************************)

(* What a step can do to the byte: only the store of the main loop and the *)
(* ISR write it, and the ISR only adds PEND bits.                          *)
LEMMA StatusSteps ==
    ASSUME TypeOK, [Next]_vars
    PROVE  \/ StoreStatus
           \/ LoadStatus
           \/ pc' # "store" /\ pc # "store" /\ hio' = hio
           \/ /\ UNCHANGED <<pc, reg, op, calls, blink0, hwError, readReg>>
              /\ hio' = [hio EXCEPT !.pend = hio'.pend]
              /\ hio.pend \subseteq hio'.pend
<1>. USE DEF panel, inputs, locals, At, Resume
<1>1. CASE RunCommand \/ TemperatureControllerTask \/ LED \/ BusCommand \/ TwiScan
  BY <1>1 DEF RunCommand, TemperatureControllerTask, LED, BusCommand, TwiScan
<1>2. CASE HandleButtonPress
  BY <1>2 DEF HandleButtonPress, Take
<1>3. CASE ModifyRead \/ ModifyWrite
  BY <1>3 DEF ModifyRead, ModifyWrite, AfterModifyReg
<1>4. CASE INT2_read
  <2>1. PICK read : hio' = [hio EXCEPT !.pend = @ \union (read \ hio.old)]
    BY <1>4 DEF INT2_read, ServeButtons
  <2>2. hio'.pend = hio.pend \union (read \ hio.old)
    BY <2>1 DEF TypeOK, HIO
  <2>. QED
    BY <1>4, <2>1, <2>2 DEF INT2_read
<1>5. hio = [hio EXCEPT !.pend = hio.pend]
  BY DEF TypeOK, HIO
<1>6. CASE INT2_vect \/ (\E b \in Buttons : Toggle(b)) \/ UNCHANGED vars
  BY <1>5, <1>6 DEF INT2_vect, Toggle, vars
<1>. QED
  BY <1>1, <1>2, <1>3, <1>4, <1>6 DEF Next, MainLoop

LEMMA StoreAlways == Init /\ [][Next]_vars => []StoreLosesOnlyPresses
<1>1. Init => StoreLosesOnlyPresses
  BY DEF Init, StoreLosesOnlyPresses
<1>2. TypeOK /\ StoreLosesOnlyPresses /\ [Next]_vars => StoreLosesOnlyPresses'
  <2>. SUFFICES ASSUME TypeOK, StoreLosesOnlyPresses, [Next]_vars
                PROVE  StoreLosesOnlyPresses'
    OBVIOUS
  <2>1. CASE StoreStatus
    BY <2>1 DEF StoreStatus, Resume, StoreLosesOnlyPresses
  <2>2. CASE LoadStatus
    BY <2>2 DEF LoadStatus, panel, StoreLosesOnlyPresses
  <2>3. CASE pc' # "store"
    BY <2>3 DEF StoreLosesOnlyPresses
  <2>4. CASE /\ UNCHANGED <<pc, reg>>
             /\ hio' = [hio EXCEPT !.pend = hio'.pend]
             /\ hio.pend \subseteq hio'.pend
    <3>1. hio'.lit = hio.lit /\ hio'.old = hio.old
      BY <2>4 DEF TypeOK, HIO
    <3>. QED
      BY <2>4, <3>1 DEF StoreLosesOnlyPresses
  <2>. QED
    BY <2>1, <2>2, <2>3, <2>4, StatusSteps
<1>. QED
  BY <1>1, <1>2, TypeAlways, PTL

(* Whatever the bus, the buttons and the commands do, the store of         *)
(* BH_SetStatus can undo nothing but a press recorded since its load.      *)
THEOREM StoreSafe == Spec => []StoreLosesOnlyPresses
  BY StoreAlways, PTL DEF Spec

(***************************************************************************)
(* The acknowledged interrupt.                                             *)
(***************************************************************************)

(* The interface is only ever on as HardwareInit left it.                  *)
LEMMA TwiSteps ==
    ASSUME [Next]_vars, twi' = "on"
    PROVE  twi = "on" /\ ~TwiScan
<1>1. twi' = twi \/ twi' \in {"scan", "off"}
  BY DEF Next, MainLoop, RunCommand, HandleButtonPress, TemperatureControllerTask, LED,
         ModifyRead, ModifyWrite, BusCommand, TwiScan, LoadStatus, StoreStatus,
         INT2_vect, INT2_read, Toggle, vars
<1>. QED
  BY <1>1 DEF TwiScan

(* On a bus without errors the edge-triggered interrupt never sleeps while *)
(* the inputs differ from those last read, whoever reads INPUTS and        *)
(* however the buttons bounce, until twiscan turns the bus off.            *)
THEOREM InterruptAlive ==
    ASSUME ReliableBus PROVE Spec => []NoStuckInterrupt
<1>1. Init => NoStuckInterrupt
  BY DEF Init, NoStuckInterrupt
<1>2. NoStuckInterrupt /\ [Next]_vars => NoStuckInterrupt'
  <2>. SUFFICES ASSUME NoStuckInterrupt, [Next]_vars, twi' = "on"
                PROVE  NoStuckInterrupt'
    BY DEF NoStuckInterrupt
  <2>. USE DEF panel, inputs, locals
  <2>0. twi = "on" /\ ~TwiScan
    BY TwiSteps
  <2>1. CASE MainLoop /\ ~BusCommand
    <3>1. UNCHANGED <<inputs, hwError>>
      BY <2>0, <2>1 DEF MainLoop, RunCommand, HandleButtonPress,
                        TemperatureControllerTask, LED, ModifyRead, ModifyWrite,
                        LoadStatus, StoreStatus
    <3>. QED
      BY <2>0, <3>1 DEF NoStuckInterrupt
  <2>2. CASE BusCommand
    BY <2>0, <2>2 DEF BusCommand, NoStuckInterrupt
  <2>3. CASE INT2_vect
    BY <2>0, <2>3 DEF INT2_vect, NoStuckInterrupt
  <2>4. CASE INT2_read
    BY <2>0, <2>4, ReliableBus DEF INT2_read, ReliableBus, NoStuckInterrupt
  <2>5. ASSUME NEW b \in Buttons, Toggle(b) PROVE NoStuckInterrupt'
    BY <2>0, <2>5 DEF Toggle, NoStuckInterrupt
  <2>6. CASE UNCHANGED vars
    BY <2>0, <2>6 DEF vars, NoStuckInterrupt
  <2>. QED
    BY <2>1, <2>2, <2>3, <2>4, <2>5, <2>6 DEF Next
<1>. QED
  BY <1>1, <1>2, PTL DEF Spec

(***************************************************************************)
(* The two copies of the LEDs.                                             *)
(*                                                                         *)
(* LedAgreement speaks of the top of the main loop only.  The invariant    *)
(* that carries it there says what holds inside LED(), for every LED whose *)
(* last update went well: the bit read from BLINK0 is still the register's *)
(* when it is written back, and from the write to the store of             *)
(* BH_SetStatus the expander has the bit that is to be stored.             *)
(***************************************************************************)

Behind(n) == pc \in {"load", "store"} /\ op.field = "lit" /\ op.n = n

LedInv ==
    /\ astray \subseteq Leds
    /\ ~hwError => \A n \in Leds \ astray :
          /\ pc = "write" => (n \in readReg <=> n \in blink0)
          /\ IF Behind(n) THEN n \in blink0 <=> op.val = 1
                          ELSE n \in hio.lit <=> n \in blink0

(* Steps that touch neither copy, nor an update of either.                 *)
LEMMA LedsUntouched ==
    ASSUME LedInv, astray' = astray, hwError' = hwError, blink0' = blink0,
           hio'.lit = hio.lit, readReg' = readReg, pc' = "write" => pc = "write",
           \A n \in Leds : Behind(n)' <=> Behind(n), op'.val = op.val \/ ~\E n \in Leds : Behind(n)
    PROVE  LedInv'
BY DEF LedInv

(* The history variable only looks on.                                     *)
LEMMA LedsFollow == [LNext]_ledVars => [Next]_vars
  BY DEF LNext, LMainLoop, Next, ledVars

LEMMA LedsAlways == LSpec => [](TypeOK /\ StoreLosesOnlyPresses)
<1>1. LInit => Init
  BY DEF LInit
<1>. QED
  BY <1>1, LedsFollow, TypeAlways, StoreAlways, PTL DEF LSpec

(* A failed or a successful transaction of LED().                          *)
LEMMA LedBusStep ==
    ASSUME TypeOK, LedInv, LMainLoop, ModifyRead \/ ModifyWrite
    PROVE  LedInv'
<1>. USE DEF panel, inputs, locals, At
<1>0. hio' = hio /\ hwError' = hwError /\ pc \in {"read", "write"}
  BY DEF ModifyRead, ModifyWrite
<1>1. CASE Garbled
  <2>1. astray' = Leds
    BY <1>0, <1>1 DEF LMainLoop
  <2>. QED
    BY <2>1 DEF LedInv
<1>2. CASE ~Garbled /\ ModifyRead /\ pc' = "write"
  <2>1. astray' = astray /\ blink0' = blink0
    BY <1>2 DEF LMainLoop, ModifyRead
  <2>2. readReg' = blink0 \/ AfterModifyReg
    BY <1>2 DEF ModifyRead
  <2>3. pc' # "write" \/ ~AfterModifyReg
    BY <1>0, AfterModifyRegType
  <2>4. \A n \in Leds : ~Behind(n) /\ ~Behind(n)'
    BY <1>0, <1>2 DEF Behind
  <2>. QED
    BY <1>0, <1>2, <2>1, <2>2, <2>3, <2>4 DEF LedInv
<1>3. CASE ~Garbled /\ ~(ModifyRead /\ pc' = "write")
  <2>. DEFINE c == Head(calls)
  <2>1. AfterModifyReg
    BY <1>3 DEF ModifyRead, ModifyWrite
  <2>2. c \in Call /\ c.led \in Leds
    BY <1>0, HeadTailOfCalls DEF TypeOK, Call, Leds
  <2>3. /\ pc' \in {"top", "led", "load"}
        /\ pc' = "load" => op'.field = "lit" /\ op'.n = c.led /\ op'.val = c.state
        /\ pc' = "load" <=> c.state # 2
    BY <1>0, <2>1, AfterModifyRegType
  <2>4. \A n \in Leds : ~Behind(n) /\ (Behind(n)' => n = c.led /\ c.state # 2)
    BY <1>0, <2>3 DEF Behind
  <2>5. CASE ModifyRead
    <3>1. blink0' = blink0 /\ pc = "read" /\ pc' # "write"
      BY <1>3, <2>5 DEF ModifyRead
    <3>2. astray' = astray \union {c.led}
      BY <1>3, <3>1 DEF LMainLoop
    <3>. QED
      BY <1>0, <2>2, <2>3, <2>4, <3>1, <3>2 DEF LedInv
  <2>6. CASE ModifyWrite /\ WentWell
    <3>1. /\ pc = "write" /\ c.state # 2 /\ c.state \in {0, 1}
          /\ blink0' = Put(readReg, c.led, c.state)
      BY <2>2, <2>6 DEF ModifyWrite, WentWell, Call
    <3>2. astray' = astray \ {c.led}
      BY <1>3, <2>3, <2>6, <3>1 DEF LMainLoop
    <3>3. pc' = "load" /\ op'.field = "lit" /\ op'.n = c.led /\ op'.val = c.state
      BY <2>3, <3>1
    <3>4. c.led \in blink0' <=> c.state = 1
      BY <3>1 DEF Put
    <3>5. \A n \in Leds : n # c.led => (n \in blink0' <=> n \in readReg)
      BY <3>1 DEF Put
    <3>6. \A n \in Leds : Behind(n)' <=> n = c.led
      BY <3>3 DEF Behind
    <3>7. ASSUME ~hwError, NEW n \in Leds \ astray'
          PROVE  IF Behind(n)' THEN n \in blink0' <=> op'.val = 1
                               ELSE n \in hio'.lit <=> n \in blink0'
      <4>1. CASE n = c.led
        BY <2>2, <3>3, <3>4, <3>6, <4>1
      <4>2. CASE n # c.led
        <5>1. n \in Leds \ astray
          BY <3>2, <3>7, <4>2
        <5>2. (n \in readReg <=> n \in blink0) /\ (n \in hio.lit <=> n \in blink0)
          BY <2>4, <3>1, <3>7, <5>1 DEF LedInv
        <5>. QED
          BY <1>0, <3>5, <3>6, <4>2, <5>2
      <4>. QED
        BY <4>1, <4>2
    <3>. QED
      BY <1>0, <3>2, <3>3, <3>7 DEF LedInv
  <2>7. CASE ModifyWrite /\ ~WentWell
    <3>1. pc = "write" /\ blink0' \in {blink0, Put(readReg, c.led, c.state)}
      BY <1>3, <2>7 DEF ModifyWrite
    <3>2. astray' = astray \union {c.led}
      BY <1>3, <2>3, <2>7, <3>1 DEF LMainLoop
    <3>3. ASSUME ~hwError, NEW n \in Leds \ astray'
          PROVE  ~Behind(n)' /\ (n \in hio'.lit <=> n \in blink0')
      <4>1. n \in Leds \ astray /\ n # c.led
        BY <3>2, <3>3
      <4>2. (n \in readReg <=> n \in blink0) /\ (n \in hio.lit <=> n \in blink0)
        BY <2>4, <3>1, <3>3, <4>1 DEF LedInv
      <4>. QED
        BY <1>0, <2>4, <3>1, <4>1, <4>2 DEF Put
    <3>. QED
      BY <1>0, <2>2, <2>3, <3>2, <3>3 DEF LedInv
  <2>. QED
    BY <2>5, <2>6, <2>7
<1>. QED
  BY <1>1, <1>2, <1>3

(* The store of BH_SetStatus.                                              *)
LEMMA LedStoreStep ==
    ASSUME TypeOK, StoreLosesOnlyPresses, LedInv, LMainLoop, StoreStatus
    PROVE  LedInv'
<1>1. /\ pc = "store" /\ reg.lit = hio.lit /\ hio' = WithBit(reg, op)
      /\ pc' \in {"top", "led"} /\ UNCHANGED <<blink0, hwError>>
      /\ reg \in HIO /\ op \in BitOp
  BY DEF StoreStatus, StoreLosesOnlyPresses, Resume, At, TypeOK
<1>2. astray' = astray
  BY <1>1 DEF LMainLoop
<1>3. \A n \in Leds : ~Behind(n)'
  BY <1>1 DEF Behind
<1>4. ASSUME ~hwError, NEW n \in Leds \ astray
      PROVE  n \in hio'.lit <=> n \in blink0
  <2>1. CASE op.field = "lit"
    <3>1. hio'.lit = Put(hio.lit, op.n, op.val)
      BY <1>1, <2>1, WithBitType
    <3>2. Behind(n) <=> op.n = n
      BY <1>1, <2>1 DEF Behind
    <3>. QED
      BY <1>4, <3>1, <3>2 DEF LedInv, Put
  <2>2. CASE op.field # "lit"
    <3>1. hio'.lit = hio.lit /\ ~Behind(n)
      BY <1>1, <2>2, WithBitType DEF BitOp, Behind
    <3>. QED
      BY <1>4, <3>1 DEF LedInv
  <2>. QED
    BY <2>1, <2>2
<1>. QED
  BY <1>1, <1>2, <1>3, <1>4 DEF LedInv

(* On every bus, and with every state a command may give, the two copies   *)
(* of the LEDs agree at the top of the main loop for each LED whose last   *)
(* update went well, although interrupts rewrite the byte meanwhile.       *)
THEOREM LedsAgree == LSpec => []LedAgreement
<1>1. LInit => LedInv
  BY DEF LInit, Init, NoByte, LedInv, Behind
<1>2. TypeOK /\ StoreLosesOnlyPresses /\ LedInv /\ [LNext]_ledVars => LedInv'
  <2>. SUFFICES ASSUME TypeOK, StoreLosesOnlyPresses, LedInv, [LNext]_ledVars
                PROVE  LedInv'
    OBVIOUS
  <2>. USE DEF panel, inputs, locals, At, Behind
  <2>1. CASE LMainLoop /\ (ModifyRead \/ ModifyWrite)
    BY <2>1, LedBusStep
  <2>2. CASE LMainLoop /\ StoreStatus
    BY <2>2, LedStoreStep
  <2>3. CASE LMainLoop /\ LoadStatus
    <3>1. astray' = astray
      BY <2>3 DEF LMainLoop, LoadStatus
    <3>. QED
      BY <2>3, <3>1, LedsUntouched DEF LoadStatus
  <2>4. CASE LMainLoop /\ (RunCommand \/ TemperatureControllerTask \/ LED
                              \/ BusCommand \/ TwiScan \/ HandleButtonPress)
    <3>1. /\ pc \in {"top", "led", "bus", "scan"}
          /\ UNCHANGED <<hio, blink0, hwError, readReg>>
          /\ pc' \in {"top", "led", "bus", "scan", "read"}
             \/ (pc' = "load" /\ op'.field = "pend")
      BY <2>4 DEF RunCommand, TemperatureControllerTask, LED, BusCommand, TwiScan,
                  HandleButtonPress, Take, Resume
    <3>2. astray' = astray
      BY <2>4, <3>1 DEF LMainLoop
    <3>3. \A n \in Leds : ~Behind(n) /\ ~Behind(n)'
      BY <3>1
    <3>. QED
      BY <3>1, <3>2, <3>3, LedsUntouched
  <2>5. CASE INT2_read /\ UNCHANGED astray
    <3>1. hio'.lit = hio.lit
      BY <2>5 DEF INT2_read, ServeButtons, TypeOK, HIO
    <3>. QED
      BY <2>5, <3>1, LedsUntouched DEF INT2_read
  <2>6. CASE \/ (INT2_vect \/ (\E b \in Buttons : Toggle(b))) /\ UNCHANGED astray
             \/ UNCHANGED ledVars
    BY <2>6, LedsUntouched DEF INT2_vect, Toggle, ledVars, vars
  <2>. QED
    BY <2>1, <2>2, <2>3, <2>4, <2>5, <2>6 DEF LNext, LMainLoop, MainLoop
<1>3. LedInv => LedAgreement
  BY DEF LedInv, LedAgreement, Behind
<1>. QED
  BY <1>1, <1>2, <1>3, LedsAlways, PTL DEF LSpec

(***************************************************************************)
(* The fate of a press.                                                    *)
(***************************************************************************)

(* The history variables only look on.                                     *)
LEMMA PressesFollow == [HNext]_allVars => [Next]_vars
  BY DEF HNext, HMainLoop, HINT2_read, HToggle, Next, allVars

LEMMA PressesAlways == HSpec => [](TypeOK /\ StoreLosesOnlyPresses)
<1>1. HInit => Init
  BY DEF HInit
<1>. QED
  BY <1>1, PressesFollow, TypeAlways, StoreAlways, PTL DEF HSpec

(* Nobody writes the bits OLD: the ISR compares with bits that are zero.   *)
(* And nobody but the ISR sets a bit PEND.                                 *)
NoOld == /\ hio.old = {} /\ reg.old = {}
         /\ op.field = "pend" => op.val = 0

LEMMA NoOldInit == Init => NoOld
  BY DEF Init, NoOld, NoByte, NoOp

LEMMA NoOldStep ==
    ASSUME TypeOK, NoOld, [Next]_vars
    PROVE  NoOld'
<1>. USE DEF NoOld, panel, inputs, locals, At
<1>1. CASE StoreStatus
  BY <1>1, WithBitType DEF StoreStatus, TypeOK, NoByte, NoOp
<1>2. CASE INT2_read
  <2>1. PICK read : hio' = [hio EXCEPT !.pend = @ \union (read \ hio.old)]
    BY <1>2 DEF INT2_read, ServeButtons
  <2>. QED
    BY <1>2, <2>1 DEF INT2_read, TypeOK, HIO
<1>3. CASE LoadStatus
  BY <1>3 DEF LoadStatus
<1>4. CASE ~StoreStatus /\ ~INT2_read /\ ~LoadStatus
  <2>1. UNCHANGED <<hio, reg>>
    BY <1>4 DEF Next, MainLoop, RunCommand, HandleButtonPress, TemperatureControllerTask,
                LED, ModifyRead, ModifyWrite, BusCommand, TwiScan, INT2_vect, Toggle, vars
  <2>2. op' = op \/ op'.field = "lit" \/ op'.val = 0
    <3>1. CASE MainLoop /\ ~HandleButtonPress /\ ~ModifyRead /\ ~ModifyWrite
      BY <1>4, <3>1 DEF MainLoop, RunCommand, TemperatureControllerTask, LED, BusCommand,
                        TwiScan
    <3>2. CASE HandleButtonPress
      BY <3>2 DEF HandleButtonPress, Take
    <3>3. CASE ModifyRead \/ ModifyWrite
      BY <3>3 DEF ModifyRead, ModifyWrite, AfterModifyReg
    <3>4. CASE ~MainLoop
      BY <1>4, <3>4 DEF Next, INT2_vect, Toggle, vars
    <3>. QED
      BY <3>1, <3>2, <3>3, <3>4
  <2>. QED
    BY <2>1, <2>2
<1>. QED
  BY <1>1, <1>2, <1>3, <1>4

(* On a bus without errors the ISR adds exactly the buttons that are down. *)
LEMMA ReliableRead ==
    ASSUME ReliableBus, TypeOK, NoOld, INT2_read, twi = "on"
    PROVE  /\ hio'.pend = hio.pend \union down
           /\ isr /\ ~isr' /\ UNCHANGED <<pc, op, reg, down, int2>>
  BY DEF ReliableBus, TypeOK, NoOld, INT2_read, ServeButtons, HIO, locals

(* The press that is being taken was owed until HandleButtonPress read the *)
(* byte.  As long as the ISR has not raced, the copy that is written back  *)
(* lacks no press the byte has, and the byte has all that is owed.         *)
LostInv ==
    ~raced /\ twi = "on" =>
              /\ owed \subseteq hio.pend
              /\ Taking \intersect owed = {}
              /\ pc = "store" => reg.pend = hio.pend

(* What HandleButtonPress takes, and that nothing else in the main loop    *)
(* begins with a load of a PEND bit.                                       *)
LEMMA TopSteps ==
    ASSUME TypeOK, MainLoop, pc # "load", pc # "store"
    PROVE  /\ UNCHANGED <<hio, reg>> /\ pc' # "store"
           /\ Taking' = IF pc = "top" /\ pc' = "load" THEN {op'.n} ELSE {}
<1>. USE DEF panel, inputs, locals, At, Taking
<1>1. CASE RunCommand \/ TemperatureControllerTask \/ LED \/ BusCommand \/ TwiScan
  BY <1>1 DEF RunCommand, TemperatureControllerTask, LED, BusCommand, TwiScan, Resume
<1>2. CASE HandleButtonPress
  BY <1>2 DEF HandleButtonPress, Take, Resume
<1>3. CASE ModifyRead \/ ModifyWrite
  <2>1. CASE AfterModifyReg
    BY <1>3, <2>1, AfterModifyRegType DEF ModifyRead, ModifyWrite
  <2>2. CASE ~AfterModifyReg
    BY <1>3, <2>2 DEF ModifyRead, ModifyWrite
  <2>. QED
    BY <2>1, <2>2
<1>4. CASE LoadStatus \/ StoreStatus
  BY <1>4 DEF LoadStatus, StoreStatus
<1>. QED
  BY <1>1, <1>2, <1>3, <1>4 DEF MainLoop

(* The store takes the press away, and no other one.                       *)
LEMMA StoreTakes ==
    ASSUME TypeOK, NoOld, StoreStatus
    PROVE  hio'.pend = reg.pend \ Taking /\ Taking' = {} /\ pc' # "store"
<1>1. hio' = WithBit(reg, op) /\ pc = "store" /\ pc' \in {"top", "led"}
  BY DEF StoreStatus, Resume, At
<1>2. CASE op.field = "pend"
  <2>. QED
    BY <1>1, <1>2 DEF NoOld, Taking, WithBit, TypeOK, HIO, Put
<1>3. CASE op.field # "pend"
  BY <1>1, <1>3 DEF Taking, WithBit, TypeOK, HIO
<1>. QED
  BY <1>2, <1>3

LEMMA LostStep ==
    ASSUME ReliableBus, TypeOK, StoreLosesOnlyPresses, NoOld, LostInv, [HNext]_allVars
    PROVE  LostInv'
<1>. SUFFICES ASSUME twi' = "on" PROVE LostInv'
  BY DEF LostInv
<1>. USE DEF LostInv
<1>0. twi = "on" /\ [Next]_vars
  BY PressesFollow, TwiSteps
<1>1. CASE HMainLoop
  <2>1. CASE StoreStatus
    <3>1. owed' = owed /\ raced' = raced /\ pc = "store"
      BY <1>1, <2>1 DEF HMainLoop, StoreStatus, At
    <3>. QED
      BY <1>0, <2>1, <3>1, StoreTakes
  <2>2. CASE LoadStatus
    BY <1>0, <1>1, <2>2 DEF HMainLoop, LoadStatus, At, Taking, panel
  <2>3. CASE ~StoreStatus /\ ~LoadStatus
    <3>1. pc # "load" /\ pc # "store" /\ MainLoop
      BY <1>1, <2>3 DEF HMainLoop, MainLoop, RunCommand, HandleButtonPress,
                        TemperatureControllerTask, LED, ModifyRead, ModifyWrite, BusCommand,
                        TwiScan, At
    <3>. QED
      BY <1>0, <1>1, <3>1, TopSteps DEF HMainLoop
  <2>. QED
    BY <2>1, <2>2, <2>3
<1>2. CASE INT2_vect /\ UNCHANGED history
  BY <1>0, <1>2 DEF INT2_vect, history, panel, Taking
<1>3. CASE HINT2_read
  <2>1. /\ hio'.pend = hio.pend \union down /\ UNCHANGED <<pc, op, reg>>
        /\ owed' = owed \union (fresh \intersect down)
        /\ raced' = (raced \/ InUpdate)
    BY <1>0, <1>3, ReliableRead DEF HINT2_read
  <2>2. ~InUpdate => pc # "store" /\ Taking = {}
    BY DEF InUpdate, Taking
  <2>3. Taking' = Taking
    BY <2>1 DEF Taking
  <2>. QED
    BY <1>0, <2>1, <2>2, <2>3
<1>4. ASSUME NEW b \in Buttons, HToggle(b) PROVE LostInv'
  BY <1>0, <1>4 DEF HToggle, Toggle, panel, locals, Taking
<1>5. CASE UNCHANGED allVars
  BY <1>0, <1>5 DEF allVars, vars, panel, locals, history, Taking
<1>. QED
  BY <1>1, <1>2, <1>3, <1>4, <1>5 DEF HNext

(* On a bus without errors a press the ISR saw is lost only if the ISR ran *)
(* inside an update of the byte, however long the program runs.            *)
THEOREM LostCorrect ==
    ASSUME ReliableBus PROVE HSpec => []LostOnlyByRace
<1>1. HInit => NoOld /\ LostInv
  BY NoOldInit DEF HInit, Init, LostInv, Taking
<1>2. TypeOK /\ StoreLosesOnlyPresses /\ NoOld /\ LostInv /\ [HNext]_allVars
         => NoOld' /\ LostInv'
  BY ReliableBus, PressesFollow, NoOldStep, LostStep
<1>3. LostInv => LostOnlyByRace
  BY DEF LostInv, LostOnlyByRace, NoLostPress
<1>. QED
  BY <1>1, <1>2, <1>3, PressesAlways, PTL DEF HSpec

(* While every move of a button is seen before the next, what the ISR will *)
(* find down has gone down since it last looked.                           *)
PhantomInv ==
    ~mixed /\ twi = "on" =>
              /\ hio.pend \subseteq owed \union Taking
              /\ Cardinality(down) <= 1
              /\ int2 \/ isr => down \subseteq fresh
              /\ ~(int2 /\ isr)

(* With at most one button down at a time, a release leaves none.          *)
LEMMA OneButton ==
    ASSUME NEW D \in SUBSET (1..2), Cardinality(D) <= 1
    PROVE  D \in {{}, {1}, {2}}
<1>1. Cardinality({1, 2}) = 2
  <2>1. Cardinality({1}) = 1 /\ IsFiniteSet({1})
    BY FS_Singleton
  <2>2. Cardinality({1} \union {2}) = 2
    BY <2>1, FS_AddElement
  <2>. QED
    BY <2>2
<1>2. D # {1, 2}
  BY <1>1
<1>3. \A x \in D : x = 1 \/ x = 2
  OBVIOUS
<1>4. CASE 1 \in D /\ 2 \in D
  <2>1. D = {1, 2}
    BY <1>3, <1>4, Zenon
  <2>. QED
    BY <1>2, <2>1
<1>5. CASE 1 \notin D
  <2>1. D = {} \/ D = {2}
    BY <1>3, <1>5, Zenon
  <2>. QED
    BY <2>1
<1>6. CASE 2 \notin D
  <2>1. D = {} \/ D = {1}
    BY <1>3, <1>6, Zenon
  <2>. QED
    BY <2>1
<1>. QED
  BY <1>4, <1>5, <1>6

LEMMA ButtonsDown ==
    ASSUME NEW D \in SUBSET Buttons
    PROVE  D \in SUBSET (1..2) /\ Cardinality(D) \in Nat
<1>1. D \subseteq 1..2
  BY PanelAssumption
<1>2. IsFiniteSet(1..2)
  BY FS_Interval, 1 \in Int, 2 \in Int, Zenon
<1>. QED
  BY <1>1, <1>2, FS_Subset, FS_CardinalityType, Zenon

LEMMA PhantomStep ==
    ASSUME ReliableBus, TypeOK, StoreLosesOnlyPresses, NoOld, PhantomInv, [HNext]_allVars
    PROVE  PhantomInv'
<1>. SUFFICES ASSUME twi' = "on" PROVE PhantomInv'
  BY DEF PhantomInv
<1>. USE DEF PhantomInv
<1>0. twi = "on" /\ [Next]_vars
  BY PressesFollow, TwiSteps
<1>1. CASE HMainLoop
  <2>0. UNCHANGED <<fresh, mixed, down, int2, isr>>
    BY <1>0, <1>1, TwiSteps
    DEF HMainLoop, MainLoop, RunCommand, HandleButtonPress,
                TemperatureControllerTask, LED, ModifyRead, ModifyWrite, BusCommand,
                LoadStatus, StoreStatus, inputs
  <2>1. CASE StoreStatus
    <3>1. owed' = owed /\ reg.pend \subseteq hio.pend
      BY <1>1, <2>1 DEF HMainLoop, StoreStatus, At, StoreLosesOnlyPresses
    <3>. QED
      BY <1>0, <2>0, <2>1, <3>1, StoreTakes
  <2>2. CASE LoadStatus
    BY <1>0, <1>1, <2>0, <2>2 DEF HMainLoop, LoadStatus, At, Taking, panel
  <2>3. CASE ~StoreStatus /\ ~LoadStatus
    <3>1. pc # "load" /\ pc # "store" /\ MainLoop
      BY <1>1, <2>3 DEF HMainLoop, MainLoop, RunCommand, HandleButtonPress,
                        TemperatureControllerTask, LED, ModifyRead, ModifyWrite, BusCommand,
                        TwiScan, At
    <3>2. Taking = {}
      BY <3>1 DEF Taking
    <3>. QED
      BY <1>0, <1>1, <2>0, <3>1, <3>2, TopSteps DEF HMainLoop
  <2>. QED
    BY <2>1, <2>2, <2>3
<1>2. CASE INT2_vect /\ UNCHANGED history
  BY <1>0, <1>2 DEF INT2_vect, history, panel, Taking
<1>3. CASE HINT2_read
  <2>1. /\ hio'.pend = hio.pend \union down /\ isr /\ UNCHANGED <<pc, op, down>>
        /\ owed' = owed \union (fresh \intersect down)
        /\ mixed' = mixed
    BY <1>0, <1>3, ReliableRead DEF HINT2_read
  <2>2. ~isr' /\ int2' = int2
    BY <1>0, <1>3, ReliableRead DEF HINT2_read
  <2>3. Taking' = Taking
    BY <2>1 DEF Taking
  <2>. QED
    BY <1>0, <2>1, <2>2, <2>3
<1>4. ASSUME NEW b \in Buttons, HToggle(b) PROVE PhantomInv'
  <2>. SUFFICES ASSUME ~mixed' PROVE PhantomInv'
    OBVIOUS
  <2>1. /\ down' = IF b \in down THEN down \ {b} ELSE down \union {b}
        /\ fresh' = fresh \union (down' \ down)
        /\ UNCHANGED <<hio, owed, isr, pc, op>>
    BY <1>0, <1>4 DEF HToggle, Toggle, panel, locals
  <2>0. ~mixed /\ ~int2 /\ ~isr /\ ~(Cardinality(down') > 1)
    BY <1>4, Zenon DEF HToggle
  <2>2. down \in {{}, {1}, {2}} /\ down' \in {{}, {1}, {2}} /\ Cardinality(down') <= 1
    <3>1. down \in SUBSET Buttons /\ down' \in SUBSET Buttons
      BY <2>1 DEF TypeOK
    <3>2. /\ down \in SUBSET (1..2) /\ Cardinality(down) \in Nat
          /\ down' \in SUBSET (1..2) /\ Cardinality(down') \in Nat
      BY <3>1, ButtonsDown
    <3>3. Cardinality(down') <= 1 /\ Cardinality(down) <= 1
      BY <1>0, <2>0, <3>2
    <3>. QED
      BY <3>2, <3>3, OneButton
  <2>3. b \in 1..2
    BY PanelAssumption
  <2>4. down' \subseteq fresh'
    BY <2>1, <2>2, <2>3
  <2>5. Taking' = Taking
    BY <2>1 DEF Taking
  <2>. QED
    BY <1>0, <2>0, <2>1, <2>2, <2>4, <2>5
<1>5. CASE UNCHANGED allVars
  BY <1>0, <1>5 DEF allVars, vars, panel, inputs, locals, history, Taking
<1>. QED
  BY <1>1, <1>2, <1>3, <1>4, <1>5 DEF HNext

(* On a bus without errors, and while each move of one button is seen      *)
(* before the next, there is no press that nobody made.                    *)
THEOREM PhantomCorrect ==
    ASSUME ReliableBus PROVE HSpec => []PhantomOnlyIfMixed
<1>1. HInit => NoOld /\ PhantomInv
  <2>. SUFFICES ASSUME HInit PROVE NoOld /\ PhantomInv
    OBVIOUS
  <2>1. NoOld /\ hio.pend = {} /\ ~isr /\ fresh = down
    BY NoOldInit DEF HInit, Init, NoByte
  <2>2. ~mixed => Cardinality(down) <= 1
    <3>1. Cardinality(down) \in Nat
      BY ButtonsDown DEF HInit, Init
    <3>2. ~mixed => ~(Cardinality(down) > 1)
      BY Zenon DEF HInit
    <3>. QED
      BY <3>1, <3>2
  <2>. QED
    BY <2>1, <2>2 DEF PhantomInv
<1>2. TypeOK /\ StoreLosesOnlyPresses /\ NoOld /\ PhantomInv /\ [HNext]_allVars
         => NoOld' /\ PhantomInv'
  BY ReliableBus, PressesFollow, NoOldStep, PhantomStep
<1>3. PhantomInv => PhantomOnlyIfMixed
  BY DEF PhantomInv, PhantomOnlyIfMixed, NoPhantomPress
<1>. QED
  BY <1>1, <1>2, <1>3, PressesAlways, PTL DEF HSpec
=============================================================================
