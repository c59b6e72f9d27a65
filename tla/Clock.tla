-------------------------------- MODULE Clock -------------------------------
(***************************************************************************)
(* The real-time clock and its driver (Board/ds3232m.c): the registers     *)
(* with the time, in BCD; the control register; and the flag that the      *)
(* oscillator has stopped.  The clock keeps all of them, and the time, on  *)
(* its battery while the power is off.                                     *)
(*                                                                         *)
(* The driver's transactions may fail, and do when twiscan has turned the  *)
(* bus off.  Most of its code does not look.                               *)
(***************************************************************************)
EXTENDS Integers

CONSTANTS
    Settings,    \* pairs of an hour and a minute given to the command settime
    Found,       \* registers of hour and minute that an earlier program left
    Stack,       \* times the stack of gettime may look like
    MAXTICKS     \* bound: minutes that are watched from one settime to the next

ASSUME ClockAssumption ==
    /\ Settings \subseteq (0..255) \X (0..255) /\ Stack \subseteq (0..255) \X (0..255)
    /\ Found \subseteq (0..127) \X (0..255)
    /\ MAXTICKS \in Nat

VARIABLES
    hour, min,   \* registers of the clock
    control,     \* "zero", as DS3232M_Init writes it, or "junk": other bits
    osf,         \* the oscillator stop flag
    bus,         \* the processor's two-wire interface is on
    pc,          \* where DS3232M_Init is; "off" without power
    received,    \* its local RecieveData, that of DS3232M_DisableAlarm
    osfSeen,     \* and its own
    hw,          \* BH_STATUS_HW_DS3232M
    shown,       \* the time gettime has just printed, <<>> behind the next step
    error,       \* and whether it printed "I2C Error" in front of it
    truth,       \* history: the time it is, if the clock has been told
    trouble,     \* history: the last settime printed "I2C Error"
    ticks,       \* minutes that were watched since a settime without trouble
    stopped,     \* history: the oscillator has stopped some day
    wiped,       \* history: its flag was cleared by a byte that had not been read
    unread,      \* history: the byte in RecieveData has not been read
    misread      \* history: in this start such a byte went to the control register

timeVars  == <<hour, min, truth, trouble, ticks>>
chipVars  == <<control, osf, stopped, wiped>>
initVars  == <<pc, received, osfSeen, hw, unread, misread>>
askVars   == <<shown, error>>
clockVars == <<timeVars, chipVars, bus, initVars, askVars>>

(* The clock may have been set up by another program, in 12-hour mode too, *)
(* and its flag have been cleared.                                         *)
ClockInit ==
    /\ \E f \in Found : hour = f[1] /\ min = f[2]
    /\ truth = <<>> /\ trouble = FALSE /\ ticks = 0
    /\ control = "junk" /\ osf \in BOOLEAN /\ stopped = osf /\ wiped = FALSE
    /\ bus = FALSE
    /\ pc = "off" /\ received = "junk" /\ osfSeen = FALSE /\ hw = FALSE
    /\ unread = FALSE /\ misread = FALSE
    /\ shown = <<>> /\ error = FALSE

-----------------------------------------------------------------------------
(* The time.                                                               *)

BCDWide(n) == (n \div 10) * 16 + (n % 10)  \* mutant: not cut off at a byte
BCD(n) == ((n \div 10) * 16 + (n % 10)) % 256

(* The hour is masked, which leaves the clock in 24-hour mode.             *)
HourUnmasked(n) == BCD(n)                  \* mutant: no mask
HourRegister(n) == BCD(n) % 64

(* DS3232M_GetTime.  The test for 12-hour mode compares bit 6 with bit 2.  *)
Minutes(r) == (r % 16) + ((r \div 16) % 8) * 10
Bit(r, b)  == ((r \div b) % 2) * b
HoursTens1(r) == (r % 16) + ((r \div 16) % 2) * 10    \* mutant: one bit of tens
Hours(r) ==
    IF Bit(r, 64) = 4
    THEN (r % 16) + ((r \div 16) % 2) * 10 + IF Bit(r, 32) = 32 THEN 12 ELSE 0
    ELSE (r % 16) + ((r \div 16) % 4) * 10

Time == <<Hours(hour), Minutes(min)>>

Sensible(t) == t[1] < 24 /\ t[2] < 60

(* DS3232M_SetTime, called by settime with whatever was typed.  A failing  *)
(* transaction may have written the first registers, minutes before hours; *)
(* it prints "I2C Error".                                                  *)
SetTime(t) ==
    /\ pc = "done"
    /\ \/ /\ bus
          /\ hour' = HourRegister(t[1]) /\ min' = BCD(t[2])
          /\ trouble' = FALSE /\ ticks' = 0
       \/ /\ \/ bus /\ hour' \in {hour, HourRegister(t[1])} /\ min' = BCD(t[2])
             \/ UNCHANGED <<hour, min>>
          /\ trouble' = TRUE /\ UNCHANGED ticks
    /\ truth' = IF Sensible(t) THEN t ELSE <<>>
    /\ UNCHANGED <<chipVars, bus, initVars>>

(* Mutant: DS3232M_GetTime does not look at the result of its transaction. *)
GetTimeQuiet ==
    /\ pc = "done"
    /\ (bus /\ shown' = Time) \/ shown' \in Stack
    /\ error' = FALSE
    /\ UNCHANGED <<timeVars, chipVars, bus, initVars>>

(* The command gettime.  If the transaction fails, "I2C Error" is printed  *)
(* and the time stays what the stack held; gettime prints it all the same. *)
GetTime ==
    /\ pc = "done"
    /\ \/ bus /\ shown' = Time /\ error' = FALSE
       \/ shown' \in Stack /\ error' = TRUE
    /\ UNCHANGED <<timeVars, chipVars, bus, initVars>>

Quiet == shown' = <<>> /\ error' = FALSE

(* The clock counts on, on its battery as well, in the mode it is in.      *)
(* What it does with registers that are no time is not defined, but the    *)
(* mode is not part of what it counts.                                     *)
Later(t) ==
    IF t[2] < 59 THEN <<t[1], t[2] + 1>> ELSE <<(t[1] + 1) % 24, 0>>

Hour24(h) == BCD(h)
Hour12(h) == 64 + 32 * (h \div 12) + BCD(IF h % 12 = 0 THEN 12 ELSE h % 12)

HoursOf   == [r \in 0..255 |-> {h \in 0..23 : r \in {Hour24(h), Hour12(h)}}]
MinutesOf == [r \in 0..255 |-> {m \in 0..59 : r = BCD(m)}]

Minute ==
    /\ ticks < MAXTICKS
    /\ ticks' = ticks + 1
    /\ IF HoursOf[hour] = {} \/ MinutesOf[min] = {}
       THEN min' \in {min, 0} /\ hour' \in {hour, Bit(hour, 64)}
       ELSE \E h \in HoursOf[hour], m \in MinutesOf[min] :
              LET t == Later(<<h, m>>)
              IN  /\ min' = BCD(t[2])
                  /\ hour' = IF hour = Hour24(h) THEN Hour24(t[1]) ELSE Hour12(t[1])
    /\ truth' = IF truth = <<>> THEN <<>> ELSE Later(truth)
    /\ UNCHANGED <<trouble, chipVars, bus, initVars>>

-----------------------------------------------------------------------------
(* HardwareInit with DS3232M_Init, one step for each transaction.          *)

Labels == {"off", "read_status", "write_control", "done"} \union
              {"read_1", "write_1", "flags_1", "clear_1",
               "read_2", "write_2", "flags_2", "clear_2"}

(* Only the two transactions of DS3232M_Init itself are looked at.         *)
PowerOn ==
    /\ pc = "off"
    /\ pc' = "read_status"
    /\ bus' = TRUE
    /\ UNCHANGED <<timeVars, chipVars, received, osfSeen, hw, unread, misread>>

ReadStatus ==
    /\ pc = "read_status"
    /\ \/ osfSeen' = osf /\ pc' = "write_control"
       \/ pc' = "done" /\ UNCHANGED osfSeen
    /\ UNCHANGED <<timeVars, chipVars, bus, received, hw, unread, misread>>

WriteControl ==
    /\ pc = "write_control"
    /\ \/ control' = "zero" /\ pc' = "read_1" /\ UNCHANGED osfSeen
       \/ pc' = "done" /\ osfSeen' = FALSE /\ UNCHANGED control
    /\ UNCHANGED <<timeVars, osf, stopped, wiped, bus, received, hw, unread, misread>>

(* DS3232M_DisableAlarm: read, change, and write back two registers.  What *)
(* was not read is whatever the stack holds, or the last byte received.    *)
ReadControl(from, to) ==
    /\ pc = from /\ pc' = to
    /\ \/ received' = control /\ unread' = FALSE
       \/ received' \in {"zero", "junk"} /\ unread' = TRUE
    /\ UNCHANGED <<timeVars, chipVars, bus, osfSeen, hw, misread>>

WriteBack(from, to) ==
    /\ pc = from /\ pc' = to
    /\ control' \in {received, control}
    /\ misread' = (misread \/ unread)
    /\ UNCHANGED <<timeVars, osf, stopped, wiped, bus, received, osfSeen, hw, unread>>

(* Of the status register only the flag matters here.                      *)
ReadFlags(from, to) ==
    /\ pc = from /\ pc' = to
    /\ \/ received' = (IF osf THEN "junk" ELSE "zero") /\ unread' = FALSE
       \/ received' \in {"zero", "junk"} /\ unread' = TRUE
    /\ UNCHANGED <<timeVars, chipVars, bus, osfSeen, hw, misread>>

(* Mutant: the register is cleared, and the flag with it.                  *)
FlagCleared == FALSE

(* A one that is written to the flag leaves it, a zero clears it.          *)
FlagAfter == osf /\ received = "junk"

ClearFlags(from, to) ==
    /\ pc = from /\ pc' = to
    /\ osf' \in {FlagAfter, osf}
    /\ wiped' = (wiped \/ (osf /\ ~osf' /\ unread))
    /\ unread' = FALSE
    /\ IF to = "done" THEN /\ hw' = ~osfSeen
                           /\ received' = "junk" /\ osfSeen' = FALSE   \* they are dead
                      ELSE UNCHANGED <<hw, received, osfSeen>>
    /\ UNCHANGED <<timeVars, control, stopped, bus, misread>>

HardwareInit ==
    \/ PowerOn
    \/ ReadStatus \/ WriteControl
    \/ ReadControl("read_1", "write_1") \/ WriteBack("write_1", "flags_1")
    \/ ReadFlags("flags_1", "clear_1")  \/ ClearFlags("clear_1", "read_2")
    \/ ReadControl("read_2", "write_2") \/ WriteBack("write_2", "flags_2")
    \/ ReadFlags("flags_2", "clear_2")  \/ ClearFlags("clear_2", "done")

-----------------------------------------------------------------------------
(* The command twiscan turns the bus on, scans it, and turns it off.       *)
TwiScan ==
    /\ pc = "done"
    /\ bus' = FALSE
    /\ UNCHANGED <<timeVars, chipVars, initVars>>

ClockPowerFail ==
    /\ pc' = "off" /\ bus' = FALSE
    /\ received' = "junk" /\ osfSeen' = FALSE /\ hw' = FALSE
    /\ unread' = FALSE /\ misread' = FALSE /\ Quiet
    /\ UNCHANGED <<timeVars, chipVars>>

(* The battery fails as well: the clock is as delivered.                   *)
BatteryOut ==
    /\ pc = "off"
    /\ hour' = 0 /\ min' = 0 /\ truth' = <<>> /\ trouble' = FALSE /\ ticks' = 0
    /\ control' = "junk" /\ osf' = TRUE /\ stopped' = TRUE /\ wiped' = FALSE
    /\ UNCHANGED <<bus, initVars>>

Unasked ==
    \/ \E t \in Settings : SetTime(t)
    \/ Minute
    \/ HardwareInit
    \/ TwiScan
    \/ BatteryOut

ClockNext == GetTime \/ (Unasked /\ Quiet)

-----------------------------------------------------------------------------
ClockTypeOK ==
    /\ hour \in 0..255 /\ min \in 0..255
    /\ control \in {"zero", "junk"} /\ received \in {"zero", "junk"}
    /\ osf \in BOOLEAN /\ osfSeen \in BOOLEAN /\ stopped \in BOOLEAN /\ wiped \in BOOLEAN
    /\ bus \in BOOLEAN /\ hw \in BOOLEAN /\ unread \in BOOLEAN /\ misread \in BOOLEAN
    /\ error \in BOOLEAN /\ trouble \in BOOLEAN
    /\ pc \in Labels
    /\ truth = <<>> \/ (truth[1] \in 0..23 /\ truth[2] \in 0..59)
    /\ shown = <<>> \/ (shown[1] \in 0..255 /\ shown[2] \in 0..255)
    /\ ticks \in 0..MAXTICKS

(* What gettime prints without an error is the time of the day, gone on    *)
(* through losses of power since a settime that printed no error either:   *)
(* half a transaction, a bus that twiscan left off and the content of the  *)
(* stack never show as the time without "I2C Error" having been printed.   *)
ReadsTrue ==
    shown # <<>> /\ ~error /\ truth # <<>> /\ ~trouble => shown = truth

(* The test for 12-hour mode in DS3232M_GetTime can never be true.  No     *)
(* step puts a clock that is in 24-hour mode into 12-hour mode, whatever   *)
(* was typed for an hour and wherever a transaction broke off; a clock     *)
(* that is found in 12-hour mode is read wrongly until it is set.          *)
NeverTwelveHour == [][Bit(hour, 64) = 0 => Bit(hour', 64) = 0]_clockVars

(* Behind a start that reports the clock good, its control register is     *)
(* what DS3232M_Init wrote, unless DisableAlarm in this start wrote back   *)
(* what it could not read.  And a clock that stopped once is never         *)
(* reported good again, since no code means to clear the flag: only a      *)
(* status that could not be read and was written back can clear it.        *)
ReportedSound ==
    hw => (control = "zero" \/ misread) /\ (~stopped \/ wiped)
=============================================================================
