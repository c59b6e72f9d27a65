-------------------------- MODULE PowerCycleProofs --------------------------
(***************************************************************************)
(* Proofs about the clock and the zero of the heater's current, for all    *)
(* readings, all hours and minutes that may be typed, and any number of    *)
(* losses of power.                                                        *)
(***************************************************************************)
EXTENDS PowerCycle, TLAPS

-----------------------------------------------------------------------------
(* Arithmetic.                                                             *)

LEMMA Division ==
    ASSUME NEW v \in Nat, NEW d \in Nat \ {0}
    PROVE  /\ v \div d \in Nat /\ v % d \in 0..(d - 1)
           /\ v = d * (v \div d) + (v % d)
OBVIOUS

LEMMA LessMultiple ==
    ASSUME NEW d \in Nat \ {0}, NEW x \in Int, NEW y \in Int, d * x < d * y
    PROVE  x < y
<1>1. SUFFICES ASSUME x >= y PROVE FALSE
  OBVIOUS
<1>2. PICK z \in Nat : x = y + z
  <2>1. x - y \in Nat /\ x = y + (x - y)
    BY <1>1
  <2>. QED BY <2>1
<1>3. d * (y + z) = d * y + d * z /\ d * z >= 0 /\ d * y \in Int
  OBVIOUS
<1>. QED BY <1>2, <1>3

(* The quotient is the only number whose multiple is that close.           *)
LEMMA Quotient ==
    ASSUME NEW a \in Nat, NEW d \in Nat \ {0}, NEW q \in Int,
           d * q <= a, a < d * q + d
    PROVE  a \div d = q
<1>. DEFINE p == a \div d
<1>1. p \in Nat /\ d * p <= a /\ a < d * p + d
  BY Division
<1>2. d * (p + 1) = d * p + d /\ d * (q + 1) = d * q + d
  BY <1>1
<1>3. d * p \in Int /\ d * q \in Int /\ d * (p + 1) \in Int /\ d * (q + 1) \in Int
  BY <1>1
<1>4. d * p < d * (q + 1) /\ d * q < d * (p + 1)
  BY <1>1, <1>2, <1>3
<1>. HIDE DEF p
<1>5. p < q + 1
  BY <1>1, <1>4, LessMultiple
<1>6. q < p + 1
  BY <1>1, <1>4, LessMultiple
<1>7. p = q
  BY <1>1, <1>5, <1>6
<1>. QED BY <1>7 DEF p

(* A number below BYTE ^ 3 is the sum of its three bytes.                  *)
LEMMA Bytes ==
    ASSUME NEW v \in 0..(BYTE * WORD - 1)
    PROVE  LET e0 == (v \div WORD) % BYTE
               e1 == (v \div BYTE) % BYTE
               e2 == v % BYTE
           IN  /\ e0 \in 0..(BYTE - 1) /\ e1 \in 0..(BYTE - 1) /\ e2 \in 0..(BYTE - 1)
               /\ v = e0 * WORD + e1 * BYTE + e2
<1>1. BYTE \in Nat \ {0} /\ WORD \in Nat \ {0} /\ v \in Nat /\ BYTE * WORD \in Nat
  BY HeaterAssumption DEF WORD
<1>. DEFINE q == v \div BYTE  r == v % BYTE  p == q \div BYTE  s == q % BYTE
<1>2. q \in Nat /\ r \in 0..(BYTE - 1) /\ v = BYTE * q + r
  BY <1>1, Division
<1>3. p \in Nat /\ s \in 0..(BYTE - 1) /\ q = BYTE * p + s
  BY <1>1, <1>2, Division
<1>. HIDE DEF q, r, p, s
<1>4. v = WORD * p + BYTE * s + r
  <2>1. BYTE * (BYTE * p + s) = (BYTE * BYTE) * p + BYTE * s
    BY <1>1, <1>3
  <2>. QED BY <1>2, <1>3, <2>1 DEF WORD
<1>5. BYTE * s + r \in 0..(WORD - 1)
  <2>1. BYTE * s <= BYTE * (BYTE - 1)
    BY <1>1, <1>3
  <2>2. BYTE * (BYTE - 1) = WORD - BYTE /\ BYTE * s \in Nat
    BY <1>1, <1>3 DEF WORD
  <2>. QED BY <1>1, <1>2, <2>1, <2>2
<1>6. v \div WORD = p
  <2>1. WORD * p \in Int /\ WORD * p <= v /\ v < WORD * p + WORD
    BY <1>1, <1>2, <1>3, <1>4, <1>5
  <2>. QED BY <1>1, <1>3, <2>1, Quotient
<1>7. p < BYTE
  <2>1. WORD * p < WORD * BYTE
    BY <1>1, <1>2, <1>3, <1>4, <1>5
  <2>. QED BY <1>1, <1>3, <2>1, LessMultiple
<1>8. p % BYTE = p
  BY <1>1, <1>3, <1>7
<1>9. /\ (v \div WORD) % BYTE = p /\ (v \div BYTE) % BYTE = s /\ v % BYTE = r
  BY <1>6, <1>8 DEF q, r, s
<1>10. v = p * WORD + s * BYTE + r
  BY <1>1, <1>3, <1>4
<1>. QED BY <1>1, <1>2, <1>3, <1>7, <1>9, <1>10

-----------------------------------------------------------------------------
(* What both parts may do in a step.                                       *)

HeaterSteps == HeaterNext \/ HeaterPowerFail \/ UNCHANGED heaterVars
Elsewhere   == Quiet /\ UNCHANGED <<timeVars, chipVars, bus, initVars>>
ClockSteps  == ClockNext \/ ClockPowerFail \/ Elsewhere \/ UNCHANGED clockVars

LEMMA StepsOfBoth ==
    [Next]_vars => HeaterSteps /\ ClockSteps
<1>1. CASE HeaterNext /\ Elsewhere
  BY <1>1 DEF HeaterSteps, ClockSteps
<1>2. CASE ClockNext /\ (todo = {} \/ Minute) /\ UNCHANGED heaterVars
  BY <1>2 DEF HeaterSteps, ClockSteps
<1>3. CASE PowerFail
  BY <1>3 DEF HeaterSteps, ClockSteps, PowerFail
<1>4. CASE UNCHANGED vars
  BY <1>4 DEF HeaterSteps, ClockSteps, vars
<1>. QED BY <1>1, <1>2, <1>3, <1>4 DEF Next, Elsewhere

-----------------------------------------------------------------------------
(* The zero of the heater's current.                                       *)

(* What three bytes can hold.                                              *)
Zeros == 0..(BYTE * WORD - 1)

LEMMA Ranges ==
    /\ BYTE \in Nat \ {0} /\ WORD \in Nat \ {0} /\ BYTE * WORD \in Nat \ {0}
    /\ BYTE - 1 \in 0..(BYTE - 1) /\ 0 \in Zeros
<1>1. BYTE \in Nat \ {0} /\ WORD \in Nat \ {0}
  BY HeaterAssumption DEF WORD
<1>2. BYTE * WORD \in Nat \ {0}
  BY <1>1
<1>. QED BY <1>1, <1>2 DEF Zeros

LEMMA AveragesInRange == Averages \subseteq Zeros
<1>. SUFFICES ASSUME NEW f \in [1..5 -> Readings]
              PROVE  (f[1] + f[2] + f[3] + f[4] + f[5]) \div 5 \in Zeros
  BY DEF Averages
<1>. DEFINE R == BYTE * WORD
<1>1. R \in Nat \ {0}
  BY Ranges
<1>2. Readings \subseteq 0..(R - 1)
  BY HeaterAssumption
<1>. HIDE DEF R
<1>3. f[1] \in Readings /\ f[2] \in Readings /\ f[3] \in Readings /\ f[4] \in Readings /\ f[5] \in Readings
  <2>1. \A i \in 1..5 : f[i] \in Readings
    OBVIOUS
  <2>2. 1 \in 1..5 /\ 2 \in 1..5 /\ 3 \in 1..5 /\ 4 \in 1..5 /\ 5 \in 1..5
    OBVIOUS
  <2>. QED BY <2>1, <2>2, Zenon
<1>4. (f[1] + f[2] + f[3] + f[4] + f[5]) \div 5 \in 0..(R - 1)
  <2>1. \A a, b, c, d, e \in 0..(R - 1) : (a + b + c + d + e) \div 5 \in 0..(R - 1)
    BY <1>1
  <2>. QED BY <1>2, <1>3, <2>1
<1>. QED BY <1>4 DEF R, Zeros

LEMMA CalStringInRange ==
    ASSUME NEW v \in Zeros
    PROVE  /\ CalString(v) \in [Addresses -> 0..(BYTE - 1)]
           /\ CalString(v)[0] = (v \div WORD) % BYTE
           /\ CalString(v)[1] = (v \div BYTE) % BYTE
           /\ CalString(v)[2] = v % BYTE
<1>1. v \in Nat /\ v \div 1 = v
  BY Ranges DEF Zeros
<1>2. Weight(0) = WORD /\ Weight(1) = BYTE /\ Weight(2) = 1
  BY DEF Weight
<1>3. /\ (v \div WORD) % BYTE \in 0..(BYTE - 1)
      /\ (v \div BYTE) % BYTE \in 0..(BYTE - 1)
      /\ v % BYTE \in 0..(BYTE - 1)
  BY Bytes DEF Zeros
<1>4. \A i \in Addresses : i = 0 \/ i = 1 \/ i = 2
  BY DEF Addresses
<1>5. 0 \in Addresses /\ 1 \in Addresses /\ 2 \in Addresses
  BY DEF Addresses
<1>6. \A i \in Addresses : (v \div Weight(i)) % BYTE \in 0..(BYTE - 1)
  BY <1>1, <1>2, <1>3, <1>4
<1>. QED BY <1>1, <1>2, <1>5, <1>6 DEF CalString

(* A zero in the EEPROM is whole; while one is being stored, the bytes     *)
(* that are not on the list have been written.                             *)
StoredInv ==
    /\ HeaterTypeOK
    /\ todo = {} /\ ~torn =>
          eeprom = IF zero = NONE THEN [i \in Addresses |-> BYTE - 1] ELSE CalString(zero)
    /\ \A i \in Addresses : todo # {} /\ i \notin todo => eeprom[i] = CalString(CalValue)[i]

LEMMA StoredInit == HeaterInit => StoredInv
BY Ranges DEF HeaterInit, StoredInv, HeaterTypeOK, NONE, Zeros

LEMMA StoredStep == StoredInv /\ HeaterSteps => StoredInv'
<1>. SUFFICES ASSUME StoredInv, HeaterSteps PROVE StoredInv'
  OBVIOUS
<1>. USE DEF StoredInv, HeaterTypeOK, NONE
<1>1. CASE Measure
  BY <1>1, AveragesInRange DEF Measure, Zeros
<1>2. ASSUME NEW i \in Addresses, StoreByte(i) PROVE StoredInv'
  <2>1. CalValue \in Zeros
    BY DEF Zeros
  <2>2. CalString(CalValue) \in [Addresses -> 0..(BYTE - 1)]
    BY <2>1, CalStringInRange
  <2>3. eeprom' \in [Addresses -> 0..(BYTE - 1)]
    BY <1>2, <2>2 DEF StoreByte
  <2>4. \A j \in Addresses : j \notin todo' => eeprom'[j] = CalString(CalValue)[j]
    BY <1>2 DEF StoreByte
  <2>5. CASE todo' = {}
    <3>1. zero' = CalValue /\ CalValue' = 0 /\ zero' # -1
      BY <1>2, <2>1, <2>5, Ranges DEF StoreByte, Zeros
    <3>2. \A j \in Addresses : eeprom'[j] = CalString(CalValue)[j]
      BY <2>4, <2>5
    <3>3. CalString(CalValue) = [j \in Addresses |-> CalString(CalValue)[j]]
      BY <2>2
    <3>4. eeprom' = [j \in Addresses |-> eeprom'[j]]
      BY <2>3
    <3>5. eeprom' = CalString(CalValue)
      BY <3>2, <3>3, <3>4
    <3>6. HeaterTypeOK'
      BY <1>2, <2>1, <2>3, <2>5, <3>1, Ranges DEF StoreByte, Zeros
    <3>. QED BY <2>5, <3>1, <3>5, <3>6
  <2>6. CASE todo' # {}
    BY <1>2, <2>3, <2>4, <2>6 DEF StoreByte
  <2>. QED BY <2>5, <2>6
<1>3. CASE HeaterPowerFail
  BY <1>3, Ranges DEF HeaterPowerFail, Zeros
<1>4. CASE UNCHANGED heaterVars
  BY <1>4 DEF heaterVars
<1>. QED BY <1>1, <1>2, <1>3, <1>4 DEF HeaterSteps, HeaterNext

(* What the bytes of a zero are taken for.                                 *)
LEMMA ReadBack ==
    ASSUME NEW v \in Zeros, eeprom = CalString(v), v % BYTE # BYTE - 1
    PROVE  ZeroUsed = IF (v \div BYTE) % BYTE >= BYTE \div 2 THEN v - WORD ELSE v
<1>. DEFINE e0 == (v \div WORD) % BYTE  e1 == (v \div BYTE) % BYTE  e2 == v % BYTE
            h  == BYTE \div 2
<1>1. /\ e0 \in 0..(BYTE - 1) /\ e1 \in 0..(BYTE - 1) /\ e2 \in 0..(BYTE - 1)
      /\ v = e0 * WORD + e1 * BYTE + e2
  BY Bytes DEF Zeros
<1>2. eeprom[0] = e0 /\ eeprom[1] = e1 /\ eeprom[2] = e2
  BY CalStringInRange
<1>3. BYTE \in Nat \ {0} /\ WORD \in Nat \ {0}
  BY Ranges
<1>4. h \in Nat /\ BYTE = 2 * h
  BY <1>3, HeaterAssumption
<1>. HIDE DEF e0, e1, e2, h
<1>5. WORD \div 2 = h * BYTE
  <2>1. WORD = 2 * (h * BYTE) /\ h * BYTE \in Nat
    BY <1>3, <1>4 DEF WORD
  <2>. QED BY <2>1
<1>6. e1 * BYTE >= h * BYTE <=> e1 >= h
  <2>1. CASE e1 >= h
    <3>1. e1 - h \in Nat /\ e1 = h + (e1 - h)
      BY <1>1, <1>3, <1>4, <2>1
    <3>2. (h + (e1 - h)) * BYTE = h * BYTE + (e1 - h) * BYTE /\ (e1 - h) * BYTE \in Nat
      BY <1>3, <1>4, <3>1
    <3>. QED BY <1>3, <1>4, <2>1, <3>1, <3>2
  <2>2. CASE e1 < h
    <3>1. h - e1 \in Nat \ {0} /\ h = e1 + (h - e1)
      BY <1>1, <1>3, <1>4, <2>2
    <3>2. /\ (e1 + (h - e1)) * BYTE = e1 * BYTE + (h - e1) * BYTE
          /\ (h - e1) * BYTE \in Nat \ {0} /\ e1 * BYTE \in Nat
      BY <1>1, <1>3, <3>1
    <3>. QED BY <2>2, <3>1, <3>2, <1>1, <1>3, <1>4
  <2>. QED BY <1>1, <1>3, <1>4, <2>1, <2>2
<1>7. Signed(e1 * BYTE) = IF e1 >= h THEN e1 * BYTE - WORD ELSE e1 * BYTE
  BY <1>5, <1>6 DEF Signed
<1>8. ZeroUsed = e2 + Signed(e1 * BYTE) + e0 * WORD
  BY <1>2 DEF ZeroUsed, e2
<1>9. e0 * WORD \in Int /\ e1 * BYTE \in Int /\ e2 \in Int /\ WORD \in Int
  BY <1>1, <1>3
<1>10. ZeroUsed = IF e1 >= h THEN v - WORD ELSE v
  BY <1>1, <1>7, <1>8, <1>9
<1>. QED BY <1>10 DEF e1, h

(* What ConvertHeaterCurrent makes of the zeros that are not plain.        *)
Misread ==
    (todo = {} /\ ~torn /\ zero # NONE) =>
        /\ zero % BYTE = BYTE - 1 => ZeroUsed = (BYTE \div 2) * WORD
        /\ zero % BYTE # BYTE - 1 /\ ~Plain(zero) => ZeroUsed = zero - WORD

LEMMA StoredKept == StoredInv => ZeroKept /\ Misread
<1>. SUFFICES ASSUME StoredInv, todo = {}, ~torn PROVE ZeroKept /\ Misread
  BY DEF ZeroKept, Misread
<1>1. CASE zero = NONE
  <2>. DEFINE middle == (BYTE \div 2) * WORD
  <2>1. middle \in Int
    BY Ranges
  <2>2. ZeroUsed = middle
    BY <1>1 DEF StoredInv, ZeroUsed, Addresses
  <2>. HIDE DEF middle
  <2>3. CountsFromZero(middle) = 0
    BY <2>1, <2>2 DEF CountsFromZero
  <2>. QED BY <1>1, <2>3 DEF ZeroKept, Misread, middle
<1>2. CASE zero # NONE
  <2>1. zero \in Zeros /\ eeprom = CalString(zero)
    BY <1>2 DEF StoredInv, HeaterTypeOK, Zeros
  <2>2. eeprom[2] = zero % BYTE
    BY <2>1, CalStringInRange
  <2>3. zero % BYTE = BYTE - 1 => ZeroUsed = (BYTE \div 2) * WORD
    BY <2>2 DEF ZeroUsed
  <2>4. zero \in Nat /\ BYTE \div 2 \in Int /\ (zero \div BYTE) % BYTE \in Int
    BY <2>1, Ranges, Bytes DEF Zeros
  <2>5. zero % BYTE # BYTE - 1 /\ ~Plain(zero) => ZeroUsed = zero - WORD
    BY <2>1, <2>4, ReadBack DEF Plain
  <2>6. Plain(zero) => ZeroUsed = zero
    BY <2>1, <2>4, ReadBack DEF Plain
  <2>7. Plain(zero) => CountsFromZero(zero) = 0
    BY <2>4, <2>6 DEF CountsFromZero
  <2>. QED BY <1>2, <2>3, <2>5, <2>7 DEF ZeroKept, Misread
<1>. QED BY <1>1, <1>2

LEMMA StoredAlways == Spec => []StoredInv
<1>1. Init => StoredInv
  BY StoredInit DEF Init
<1>2. StoredInv /\ [Next]_vars => StoredInv'
  BY StoredStep, StepsOfBoth
<1>. QED BY <1>1, <1>2, PTL DEF Spec

(* For every size of a byte that is even and all readings of the sensor: a *)
(* plain zero that was stored is the one ConvertHeaterCurrent uses.        *)
THEOREM ZeroCorrect == Spec => []ZeroKept
BY StoredAlways, StoredKept, PTL

(* And every other zero is never used as it was measured: if its low byte  *)
(* is that of an erased EEPROM, the program goes on without a calibration  *)
(* though there is one, against the comment at Hardware.c:748; otherwise   *)
(* the highest bit of its middle byte makes it a word less.                *)
THEOREM ZeroMisread == Spec => []Misread
BY StoredAlways, StoredKept, PTL

-----------------------------------------------------------------------------
(* The time.                                                               *)

(* The two digits can be told from their byte.                             *)
LEMMA Digits ==
    ASSUME NEW n \in 0..99
    PROVE  /\ BCD(n) \in 0..255
           /\ BCD(n) = (n \div 10) * 16 + (n % 10)
           /\ BCD(n) % 16 = n % 10 /\ BCD(n) \div 16 = n \div 10
BY DEF BCD

LEMMA MinuteRead ==
    ASSUME NEW m \in 0..59
    PROVE  BCD(m) \in 0..255 /\ Minutes(BCD(m)) = m
BY Digits DEF Minutes

LEMMA HourRead ==
    ASSUME NEW h \in 0..23
    PROVE  BCD(h) \in 0..63 /\ HourRegister(h) = BCD(h) /\ Hours(BCD(h)) = h
BY Digits DEF Hours, Bit, HourRegister

(* The clock's hour in 12-hour mode, and what DS3232M_GetTime makes of it, *)
(* whose comment says it handles "hours in 12 or 24 hour mode": from one   *)
(* to twelve in the afternoon it reads 21 to 32.                           *)
LEMMA TwelveRange ==
    ASSUME NEW h \in 0..23
    PROVE  Hour12(h) \in 64..127
<1>1. h % 12 \in 0..11 /\ h \div 12 \in 0..1
  OBVIOUS
<1>. DEFINE n == IF h % 12 = 0 THEN 12 ELSE h % 12
<1>2. n \in 0..12
  BY <1>1
<1>. HIDE DEF n
<1>3. BCD(n) \in 0..18
  BY <1>2 DEF BCD
<1>4. Hour12(h) = 64 + 32 * (h \div 12) + BCD(n)
  BY DEF Hour12, n
<1>. QED BY <1>1, <1>3, <1>4

(* A clock found in 12-hour mode in the afternoon is read as an hour of    *)
(* its twelve and twenty more, not twelve, and never as the hour it is.    *)
THEOREM TwelveHourRead ==
    \A h \in 12..23 :
        /\ Hours(Hour12(h)) = (IF h = 12 THEN 12 ELSE h - 12) + 20
        /\ Hours(Hour12(h)) # h
<1>. SUFFICES ASSUME NEW h \in 12..23
              PROVE  Hours(Hour12(h)) = (IF h = 12 THEN 12 ELSE h - 12) + 20
  OBVIOUS
<1>. DEFINE n == IF h = 12 THEN 12 ELSE h - 12
<1>1. n \in 1..12 /\ h \div 12 = 1 /\ (IF h % 12 = 0 THEN 12 ELSE h % 12) = n
  OBVIOUS
<1>2. Hour12(h) = 96 + BCD(n)
  <2>1. BCD(n) \in Int
    BY <1>1 DEF BCD
  <2>. QED BY <1>1, <2>1 DEF Hour12
<1>. HIDE DEF n
<1>3. \A k \in 1..12 : Hours(96 + BCD(k)) = k + 20
  BY DEF Hours, Bit, BCD
<1>4. Hours(Hour12(h)) = n + 20
  BY <1>1, <1>2, <1>3
<1>. QED BY <1>4 DEF n

(* Named, so that the provers need not list their members.                *)
Hour     == 0..23
Minute60 == 0..59
Register == 0..127
Byte     == 0..255

LEMMA TimeRange ==
    /\ \A h \in Hour : /\ BCD(h) \in Register /\ HourRegister(h) = BCD(h)
                        /\ Hours(BCD(h)) = h /\ Bit(BCD(h), 64) = 0
    /\ \A m \in Minute60 : BCD(m) \in Byte /\ Minutes(BCD(m)) = m
<1>1. \A h \in 0..23 : BCD(h) \in 0..63 /\ HourRegister(h) = BCD(h) /\ Hours(BCD(h)) = h
  BY HourRead
<1>2. \A r \in 0..63 : r \in 0..127 /\ Bit(r, 64) = 0
  BY DEF Bit
<1>. QED BY <1>1, <1>2, MinuteRead DEF Hour, Minute60, Register, Byte

LEMMA HourRange ==
    /\ \A n \in Byte : HourRegister(n) \in Register /\ Bit(HourRegister(n), 64) = 0
    /\ \A r \in Register : /\ Bit(r, 64) \in Register /\ Bit(Bit(r, 64), 64) = Bit(r, 64)
                            /\ Hours(r) \in Byte
    /\ \A n \in Byte : BCD(n) \in Byte /\ Minutes(n) \in Byte
    /\ 0 \in Byte /\ 0 \in Register
<1>1. \A n \in 0..255 : HourRegister(n) \in 0..63 /\ BCD(n) \in 0..255
  BY DEF HourRegister, BCD
<1>2. \A r \in 0..63 : r \in 0..127 /\ Bit(r, 64) = 0
  BY DEF Bit
<1>3. \A r \in 0..127 : Bit(r, 64) \in 0..127 /\ Bit(Bit(r, 64), 64) = Bit(r, 64)
  BY DEF Bit
<1>4. \A r \in 0..127 : Hours(r) \in 0..255
  BY DEF Hours, Bit
<1>5. \A n \in 0..255 : Minutes(n) \in 0..255
  BY DEF Minutes
<1>6. \A n \in Byte : HourRegister(n) \in Register /\ Bit(HourRegister(n), 64) = 0
  BY <1>1, <1>2 DEF Register, Byte
<1>7. \A r \in Register : /\ Bit(r, 64) \in Register /\ Bit(Bit(r, 64), 64) = Bit(r, 64)
                          /\ Hours(r) \in Byte
  BY <1>3, <1>4 DEF Register, Byte
<1>8. \A n \in Byte : BCD(n) \in Byte /\ Minutes(n) \in Byte
  BY <1>1, <1>5 DEF Byte
<1>9. 0 \in Byte /\ 0 \in Register
  BY DEF Register, Byte
<1>. QED BY <1>6, <1>7, <1>8, <1>9

(* A time is the only one its registers stand for.                         *)
LEMMA TimeOf ==
    /\ \A h \in Hour : HoursOf[BCD(h)] = {h}
    /\ \A m \in Minute60 : MinutesOf[BCD(m)] = {m}
    /\ \A r \in Register : \A h \in HoursOf[r] :
          /\ h \in Hour /\ r \in {Hour24(h), Hour12(h)}
          /\ Hour12(h) \in Register /\ Bit(Hour12(h), 64) # 0
    /\ \A r \in Byte : \A m \in MinutesOf[r] : m \in Minute60
<1>1. \A h \in Hour : Hour12(h) \in Register /\ Bit(Hour12(h), 64) # 0
  <2>1. \A r \in 64..127 : r \in 0..127 /\ Bit(r, 64) # 0
    BY DEF Bit
  <2>. QED BY <2>1, TwelveRange DEF Hour, Register
<1>2. /\ \A r \in Byte : HoursOf[r] = {h \in Hour : r \in {Hour24(h), Hour12(h)}}
      /\ \A r \in Byte : MinutesOf[r] = {m \in Minute60 : r = BCD(m)}
  BY DEF HoursOf, MinutesOf, Byte, Hour, Minute60
<1>3. \A r \in Register : r \in Byte
  BY DEF Register, Byte
<1>4. \A h \in Hour : HoursOf[BCD(h)] = {h}
  <2>. SUFFICES ASSUME NEW h \in Hour, NEW k \in Hour, BCD(h) \in {Hour24(k), Hour12(k)}
                PROVE  k = h
    BY <1>2, <1>3, TimeRange DEF Hour24
  <2>1. BCD(h) # Hour12(k)
    BY <1>1, TimeRange
  <2>2. BCD(h) = BCD(k)
    BY <2>1 DEF Hour24
  <2>. QED BY <2>2, TimeRange
<1>5. \A m \in Minute60 : MinutesOf[BCD(m)] = {m}
  <2>. SUFFICES ASSUME NEW m \in Minute60, NEW k \in Minute60, BCD(m) = BCD(k)
                PROVE  k = m
    BY <1>2, TimeRange
  <2>. QED BY TimeRange
<1>. QED BY <1>1, <1>2, <1>3, <1>4, <1>5

LEMMA LaterRange ==
    ASSUME NEW h \in Hour, NEW m \in Minute60
    PROVE  \E k \in Hour, l \in Minute60 : Later(<<h, m>>) = <<k, l>>
<1>1. CASE m < 59
  <2>1. Later(<<h, m>>) = <<h, m + 1>> /\ m + 1 \in Minute60
    BY <1>1 DEF Later, Minute60
  <2>. QED BY <2>1
<1>2. CASE m = 59
  <2>1. Later(<<h, m>>) = <<(h + 1) % 24, 0>> /\ (h + 1) % 24 \in Hour /\ 0 \in Minute60
    BY <1>2 DEF Later, Hour, Minute60
  <2>. QED BY <2>1
<1>. QED BY <1>1, <1>2 DEF Minute60

(* Unless a settime had trouble, the registers hold the time it is.        *)
TimeInv ==
    /\ hour \in Register /\ min \in Byte
    /\ shown = <<>> \/ (shown[1] \in Byte /\ shown[2] \in Byte)
    /\ truth = <<>> \/ \E h \in Hour, m \in Minute60 :
          truth = <<h, m>> /\ (trouble \/ (hour = BCD(h) /\ min = BCD(m)))
    /\ ReadsTrue

(* What a minute does to registers that are in range.                      *)
LEMMA MinuteStep ==
    ASSUME hour \in Register, min \in Byte, Minute
    PROVE  /\ hour' \in Register /\ min' \in Byte
           /\ Bit(hour, 64) = 0 => Bit(hour', 64) = 0
<1>1. CASE HoursOf[hour] = {} \/ MinutesOf[min] = {}
  <2>1. min' \in {min, 0} /\ hour' \in {hour, Bit(hour, 64)}
    BY <1>1 DEF Minute
  <2>. QED BY <2>1, HourRange
<1>2. CASE ~(HoursOf[hour] = {} \/ MinutesOf[min] = {})
  <2>1. PICK h \in HoursOf[hour], m \in MinutesOf[min] :
           /\ min' = BCD(Later(<<h, m>>)[2])
           /\ hour' = IF hour = Hour24(h) THEN Hour24(Later(<<h, m>>)[1])
                                          ELSE Hour12(Later(<<h, m>>)[1])
    BY <1>2 DEF Minute
  <2>2. h \in Hour /\ m \in Minute60 /\ hour \in {Hour24(h), Hour12(h)} /\ Bit(Hour12(h), 64) # 0
    BY TimeOf
  <2>3. PICK k \in Hour, l \in Minute60 : Later(<<h, m>>) = <<k, l>>
    BY <2>2, LaterRange
  <2>4. BCD(l) \in Byte /\ BCD(k) \in Register /\ Bit(BCD(k), 64) = 0
    BY TimeRange
  <2>5. Hour12(k) \in Register
    <3>1. k \in HoursOf[BCD(k)] /\ BCD(k) \in Register
      BY TimeOf, TimeRange
    <3>. QED BY <3>1, TimeOf
  <2>6. min' = BCD(l) /\ hour' = IF hour = Hour24(h) THEN BCD(k) ELSE Hour12(k)
    BY <2>1, <2>3 DEF Hour24
  <2>. QED BY <2>2, <2>4, <2>5, <2>6
<1>. QED BY <1>1, <1>2

LEMMA TimeInit == ClockInit => TimeInv
<1>. SUFFICES ASSUME ClockInit PROVE TimeInv
  OBVIOUS
<1>1. PICK f \in Found : hour = f[1] /\ min = f[2]
  BY DEF ClockInit
<1>2. f \in Register \X Byte
  BY ClockAssumption DEF Register, Byte
<1>3. hour \in Register /\ min \in Byte
  BY <1>1, <1>2
<1>. QED BY <1>3 DEF ClockInit, TimeInv, ReadsTrue

LEMMA SetStep ==
    ASSUME TimeInv, NEW t \in Settings, SetTime(t)
    PROVE  /\ hour' \in Register /\ min' \in Byte
           /\ Bit(hour, 64) = 0 => Bit(hour', 64) = 0
           /\ truth' = <<>> \/ \E h \in Hour, m \in Minute60 :
                 truth' = <<h, m>> /\ (trouble' \/ (hour' = BCD(h) /\ min' = BCD(m)))
<1>a. t \in Byte \X Byte
  BY ClockAssumption DEF Byte
<1>. PICK a \in Byte, b \in Byte : t = <<a, b>>
  <2>1. t = <<t[1], t[2]>> /\ t[1] \in Byte /\ t[2] \in Byte
    BY <1>a
  <2>. QED BY <2>1
<1>b. t[1] = a /\ t[2] = b
  OBVIOUS
<1>1. /\ hour' \in {hour, HourRegister(a)} /\ min' \in {min, BCD(b)}
      /\ trouble' \/ (hour' = HourRegister(a) /\ min' = BCD(b))
      /\ truth' = IF Sensible(t) THEN t ELSE <<>>
  BY <1>b DEF SetTime
<1>2. hour' \in Register /\ min' \in Byte /\ (Bit(hour, 64) = 0 => Bit(hour', 64) = 0)
  BY <1>1, HourRange DEF TimeInv
<1>3. CASE Sensible(t)
  <2>1. a \in Hour /\ b \in Minute60
    BY <1>b, <1>3 DEF Sensible, Hour, Minute60, Byte
  <2>2. truth' = <<a, b>> /\ HourRegister(a) = BCD(a)
    BY <1>1, <1>3, <2>1, TimeRange
  <2>. QED BY <1>1, <1>2, <2>1, <2>2
<1>. QED BY <1>1, <1>2, <1>3

LEMMA TimeStep == TimeInv /\ ClockSteps => TimeInv' /\ (Bit(hour, 64) = 0 => Bit(hour', 64) = 0)
<1>. SUFFICES ASSUME TimeInv, ClockSteps
              PROVE  TimeInv' /\ (Bit(hour, 64) = 0 => Bit(hour', 64) = 0)
  OBVIOUS
<1>1. CASE UNCHANGED <<hour, min, truth, trouble>> /\ (Quiet \/ UNCHANGED askVars)
  BY <1>1 DEF TimeInv, ReadsTrue, Quiet, askVars
<1>2. ASSUME NEW t \in Settings, SetTime(t), Quiet
      PROVE  TimeInv' /\ (Bit(hour, 64) = 0 => Bit(hour', 64) = 0)
  BY <1>2, SetStep DEF TimeInv, ReadsTrue, Quiet
<1>3. CASE Minute /\ Quiet
  <2>1. /\ hour' \in Register /\ min' \in Byte
        /\ Bit(hour, 64) = 0 => Bit(hour', 64) = 0
    BY <1>3, MinuteStep DEF TimeInv
  <2>2. CASE truth # <<>>
    <3>1. PICK h \in Hour, m \in Minute60 :
             truth = <<h, m>> /\ (trouble \/ (hour = BCD(h) /\ min = BCD(m)))
      BY <2>2 DEF TimeInv
    <3>2. PICK k \in Hour, l \in Minute60 : Later(<<h, m>>) = <<k, l>>
      BY LaterRange
    <3>3. truth' = <<k, l>> /\ trouble' = trouble
      BY <1>3, <2>2, <3>1, <3>2 DEF Minute
    <3>4. CASE ~trouble
      <4>1. hour = BCD(h) /\ min = BCD(m)
        BY <3>1, <3>4
      <4>2. HoursOf[hour] = {h} /\ MinutesOf[min] = {m} /\ hour = Hour24(h)
        BY <4>1, TimeOf DEF Hour24
      <4>3. min' = BCD(Later(<<h, m>>)[2]) /\ hour' = Hour24(Later(<<h, m>>)[1])
        BY <1>3, <4>2 DEF Minute
      <4>4. hour' = BCD(k) /\ min' = BCD(l)
        BY <3>2, <4>3 DEF Hour24
      <4>. QED BY <1>3, <2>1, <3>3, <4>4 DEF TimeInv, ReadsTrue, Quiet
    <3>. QED BY <1>3, <2>1, <3>3, <3>4 DEF TimeInv, ReadsTrue, Quiet
  <2>3. CASE truth = <<>>
    <3>1. truth' = <<>>
      BY <1>3, <2>3 DEF Minute
    <3>. QED BY <1>3, <2>1, <3>1 DEF TimeInv, ReadsTrue, Quiet
  <2>. QED BY <2>2, <2>3
<1>4. CASE HardwareInit /\ Quiet
  <2>1. UNCHANGED timeVars
    BY <1>4 DEF HardwareInit, PowerOn, ReadStatus, WriteControl, ReadControl, WriteBack,
                ReadFlags, ClearFlags
  <2>. QED BY <1>1, <1>4, <2>1 DEF timeVars
<1>5. CASE TwiScan /\ Quiet
  BY <1>1, <1>5 DEF TwiScan, timeVars
<1>6. CASE BatteryOut /\ Quiet
  <2>1. Bit(0, 64) = 0
    BY DEF Bit
  <2>. QED BY <1>6, <2>1, HourRange DEF BatteryOut, TimeInv, ReadsTrue, Quiet
<1>7. CASE GetTime
  <2>1. UNCHANGED <<hour, min, truth, trouble>>
    BY <1>7 DEF GetTime, timeVars
  <2>2. CASE shown' = Time /\ error' = FALSE
    <3>1. Time = <<Hours(hour), Minutes(min)>> /\ Hours(hour) \in Byte /\ Minutes(min) \in Byte
      BY HourRange DEF Time, TimeInv
    <3>2. ASSUME truth # <<>>, ~trouble PROVE Time = truth
      <4>1. PICK h \in Hour, m \in Minute60 :
               truth = <<h, m>> /\ hour = BCD(h) /\ min = BCD(m)
        BY <3>2 DEF TimeInv
      <4>. QED BY <4>1, TimeRange DEF Time
    <3>. QED BY <2>1, <2>2, <3>1, <3>2 DEF TimeInv, ReadsTrue
  <2>3. CASE shown' \in Stack /\ error' = TRUE
    <3>1. shown' \in Byte \X Byte
      BY <2>3, ClockAssumption DEF Byte
    <3>2. shown'[1] \in Byte /\ shown'[2] \in Byte
      BY <3>1
    <3>. QED BY <2>1, <2>3, <3>2 DEF TimeInv, ReadsTrue
  <2>. QED BY <1>7, <2>2, <2>3 DEF GetTime
<1>8. CASE ClockPowerFail
  BY <1>1, <1>8 DEF ClockPowerFail, timeVars
<1>9. CASE Elsewhere
  BY <1>1, <1>9 DEF Elsewhere, timeVars
<1>10. CASE UNCHANGED clockVars
  BY <1>1, <1>10 DEF clockVars, timeVars
<1>. QED BY <1>2, <1>3, <1>4, <1>5, <1>6, <1>7, <1>8, <1>9, <1>10
            DEF ClockSteps, ClockNext, Unasked

LEMMA TimeAlways == Spec => []TimeInv
<1>1. Init => TimeInv
  BY TimeInit DEF Init
<1>2. TimeInv /\ [Next]_vars => TimeInv'
  BY TimeStep, StepsOfBoth
<1>. QED BY <1>1, <1>2, PTL DEF Spec

(* For all hours and minutes that may be typed, all registers the clock    *)
(* was found with, and however long it goes on: what gettime prints is the *)
(* time it is, unless it or the last settime printed "I2C Error".          *)
THEOREM TimeCorrect == Spec => []ReadsTrue
<1>1. TimeInv => ReadsTrue
  BY DEF TimeInv
<1>. QED BY <1>1, TimeAlways, PTL

(* For all hours that may be typed, and wherever a transaction breaks off, *)
(* a clock in 24-hour mode stays in it.                                    *)
THEOREM ModeCorrect == Spec => NeverTwelveHour
<1>1. TimeInv /\ [Next]_vars => [Bit(hour, 64) = 0 => Bit(hour', 64) = 0]_clockVars
  BY TimeStep, StepsOfBoth
<1>. QED BY <1>1, TimeAlways, PTL DEF Spec, NeverTwelveHour

-----------------------------------------------------------------------------
(* The start of the hardware.                                              *)

Written == {"read_1", "write_1", "flags_1", "clear_1",
            "read_2", "write_2", "flags_2", "clear_2"}

(* What DS3232M_Init knows of the chip, as long as it has read what it     *)
(* writes back.                                                            *)
SoundInv ==
    /\ hw => pc = "done"
    /\ misread \/ /\ pc \in Written => control = "zero"
                  /\ pc \in {"write_1", "write_2"} => unread \/ received = "zero"
                  /\ hw => control = "zero"
    /\ wiped \/ /\ stopped => osf
                /\ pc \in Written \union {"write_control"} /\ stopped => osfSeen
                /\ pc \in {"clear_1", "clear_2"} /\ osf => unread \/ received = "junk"
                /\ hw => ~stopped

LEMMA SoundInit == ClockInit => SoundInv
BY DEF ClockInit, SoundInv, Written

LEMMA SoundStep == SoundInv /\ ClockSteps => SoundInv'
<1>. SUFFICES ASSUME SoundInv, ClockSteps PROVE SoundInv'
  OBVIOUS
<1>. USE DEF SoundInv, Written
<1>1. CASE UNCHANGED <<chipVars, initVars>>
  BY <1>1 DEF chipVars, initVars
<1>2. ASSUME NEW t \in Settings, SetTime(t) PROVE SoundInv'
  BY <1>1, <1>2 DEF SetTime
<1>3. CASE Minute \/ GetTime
  BY <1>1, <1>3 DEF Minute, GetTime
<1>4. CASE HardwareInit
  <2>1. CASE PowerOn
    BY <2>1 DEF PowerOn, chipVars
  <2>2. CASE ReadStatus
    BY <2>2 DEF ReadStatus, chipVars
  <2>3. CASE WriteControl
    BY <2>3 DEF WriteControl
  <2>4. CASE ReadControl("read_1", "write_1") \/ ReadControl("read_2", "write_2")
    BY <2>4 DEF ReadControl, chipVars
  <2>5. CASE WriteBack("write_1", "flags_1") \/ WriteBack("write_2", "flags_2")
    <3>1. misread' <=> misread \/ unread
      BY <2>5 DEF WriteBack
    <3>. QED BY <2>5, <3>1 DEF WriteBack
  <2>6. CASE ReadFlags("flags_1", "clear_1") \/ ReadFlags("flags_2", "clear_2")
    BY <2>6 DEF ReadFlags, chipVars
  <2>7. CASE ClearFlags("clear_1", "read_2")
    BY <2>7 DEF ClearFlags, FlagAfter
  <2>8. CASE ClearFlags("clear_2", "done")
    BY <2>8 DEF ClearFlags, FlagAfter
  <2>. QED BY <1>4, <2>1, <2>2, <2>3, <2>4, <2>5, <2>6, <2>7, <2>8 DEF HardwareInit
<1>5. CASE TwiScan
  BY <1>1, <1>5 DEF TwiScan
<1>6. CASE BatteryOut
  BY <1>6 DEF BatteryOut, initVars
<1>7. CASE ClockPowerFail
  BY <1>7 DEF ClockPowerFail, chipVars
<1>8. CASE Elsewhere \/ UNCHANGED clockVars
  BY <1>1, <1>8 DEF Elsewhere, clockVars
<1>. QED BY <1>2, <1>3, <1>4, <1>5, <1>6, <1>7, <1>8 DEF ClockSteps, ClockNext, Unasked

(* However often power and battery fail, and whatever transactions do: a   *)
(* clock that is reported good has the control register DS3232M_Init wrote *)
(* and has never stopped, unless this start wrote back a control register, *)
(* or some start a status, that it could not read.                         *)
THEOREM SoundCorrect == Spec => []ReportedSound
<1>1. Init => SoundInv
  BY SoundInit DEF Init
<1>2. SoundInv /\ [Next]_vars => SoundInv'
  BY SoundStep, StepsOfBoth
<1>3. SoundInv => ReportedSound
  BY DEF SoundInv, ReportedSound
<1>. QED BY <1>1, <1>2, <1>3, PTL DEF Spec

-----------------------------------------------------------------------------
(* Types.                                                                  *)

Flags ==
    /\ control \in {"zero", "junk"} /\ received \in {"zero", "junk"}
    /\ osf \in BOOLEAN /\ osfSeen \in BOOLEAN /\ stopped \in BOOLEAN /\ wiped \in BOOLEAN
    /\ bus \in BOOLEAN /\ hw \in BOOLEAN /\ unread \in BOOLEAN /\ misread \in BOOLEAN
    /\ error \in BOOLEAN /\ trouble \in BOOLEAN
    /\ pc \in Labels
    /\ ticks \in 0..MAXTICKS

LEMMA FlagsInit == ClockInit => Flags
<1>1. 0 \in 0..MAXTICKS
  BY ClockAssumption
<1>. QED BY <1>1 DEF ClockInit, Flags, Labels

LEMMA FlagsStep == Flags /\ ClockSteps => Flags'
<1>. SUFFICES ASSUME Flags, ClockSteps PROVE Flags'
  OBVIOUS
<1>. USE DEF Flags, chipVars, initVars, timeVars, askVars, Quiet
<1>1. ASSUME NEW t \in Settings, SetTime(t), Quiet PROVE Flags'
  <2>1. ticks' \in 0..MAXTICKS
    BY <1>1, ClockAssumption DEF SetTime
  <2>2. trouble' \in BOOLEAN
    BY <1>1 DEF SetTime
  <2>. QED BY <1>1, <2>1, <2>2 DEF SetTime
<1>2. CASE Minute /\ Quiet
  <2>1. ticks' \in 0..MAXTICKS
    BY <1>2, ClockAssumption DEF Minute
  <2>. QED BY <1>2, <2>1 DEF Minute
<1>3. CASE HardwareInit /\ Quiet
  <2>. USE DEF Labels
  <2>1. CASE PowerOn \/ ReadStatus \/ WriteControl
    <3>1. CASE PowerOn
      BY <1>3, <3>1 DEF PowerOn
    <3>2. CASE ReadStatus
      BY <1>3, <3>2 DEF ReadStatus
    <3>3. CASE WriteControl
      BY <1>3, <3>3 DEF WriteControl
    <3>. QED BY <2>1, <3>1, <3>2, <3>3
  <2>2. CASE ReadControl("read_1", "write_1") \/ ReadControl("read_2", "write_2")
    BY <1>3, <2>2 DEF ReadControl
  <2>3. CASE WriteBack("write_1", "flags_1") \/ WriteBack("write_2", "flags_2")
    <3>1. misread' \in BOOLEAN
      BY <2>3 DEF WriteBack
    <3>2. UNCHANGED <<timeVars, osf, stopped, wiped, bus, received, osfSeen, hw, unread>>
      BY <2>3 DEF WriteBack
    <3>3. control' \in {"zero", "junk"} /\ pc' \in Labels
      BY <2>3 DEF WriteBack
    <3>. QED BY <1>3, <3>1, <3>2, <3>3
  <2>4. CASE ReadFlags("flags_1", "clear_1") \/ ReadFlags("flags_2", "clear_2")
    BY <1>3, <2>4 DEF ReadFlags
  <2>5. CASE ClearFlags("clear_1", "read_2") \/ ClearFlags("clear_2", "done")
    BY <1>3, <2>5 DEF ClearFlags, FlagAfter
  <2>. QED BY <1>3, <2>1, <2>2, <2>3, <2>4, <2>5 DEF HardwareInit
<1>4. CASE TwiScan /\ Quiet
  BY <1>4 DEF TwiScan
<1>5. CASE BatteryOut /\ Quiet
  <2>1. ticks' \in 0..MAXTICKS
    BY <1>5, ClockAssumption DEF BatteryOut
  <2>. QED BY <1>5, <2>1 DEF BatteryOut
<1>6. CASE ClockPowerFail
  BY <1>6 DEF ClockPowerFail, Labels
<1>7. CASE Elsewhere \/ UNCHANGED clockVars
  <2>1. CASE Elsewhere
    BY <2>1 DEF Elsewhere
  <2>2. CASE UNCHANGED clockVars
    BY <2>2 DEF clockVars
  <2>. QED BY <1>7, <2>1, <2>2
<1>8. CASE GetTime
  BY <1>8 DEF GetTime
<1>. QED BY <1>1, <1>2, <1>3, <1>4, <1>5, <1>6, <1>7, <1>8 DEF ClockSteps, ClockNext, Unasked

(* For all constants the registers are bytes, the zero and its three bytes *)
(* keep their widths, and the time that is shown is a time.                *)
THEOREM TypeCorrect == Spec => []TypeOK
<1>1. Init => StoredInv /\ TimeInv /\ Flags
  BY StoredInit, TimeInit, FlagsInit DEF Init
<1>2. StoredInv /\ TimeInv /\ Flags /\ [Next]_vars => (StoredInv /\ TimeInv /\ Flags)'
  BY StoredStep, TimeStep, FlagsStep, StepsOfBoth
<1>3. StoredInv /\ TimeInv /\ Flags => TypeOK
  <2>. SUFFICES ASSUME StoredInv, TimeInv, Flags PROVE TypeOK
    OBVIOUS
  <2>1. HeaterTypeOK
    BY DEF StoredInv
  <2>2. hour \in 0..255 /\ min \in 0..255
    BY DEF TimeInv, Register, Byte
  <2>3. truth = <<>> \/ (truth[1] \in 0..23 /\ truth[2] \in 0..59)
    BY DEF TimeInv, Hour, Minute60
  <2>4. shown = <<>> \/ (shown[1] \in 0..255 /\ shown[2] \in 0..255)
    BY DEF TimeInv, Byte
  <2>. QED BY <2>1, <2>2, <2>3, <2>4 DEF TypeOK, ClockTypeOK, Flags
<1>. QED BY <1>1, <1>2, <1>3, PTL DEF Spec
=============================================================================
