------------------------ MODULE LoggerScheduleProofs ------------------------
(***************************************************************************)
(* Proofs about the schedule of the data logger, for all periods and all   *)
(* times on the stack, and about what its average rounds, for all values.  *)
(***************************************************************************)
EXTENDS LoggerSchedule, TLAPS

-----------------------------------------------------------------------------
(* Arithmetic.                                                             *)

LEMMA LessMultiple ==
    ASSUME NEW d \in Nat \ {0}, NEW x \in Int, NEW y \in Int, d * x < d * y
    PROVE  x < y
<1>. SUFFICES ASSUME x >= y PROVE FALSE
  OBVIOUS
<1>1. x - y \in Nat /\ x = y + (x - y)
  OBVIOUS
<1>2. PICK z \in Nat : x = y + z
  BY <1>1
<1>3. d * (y + z) = d * y + d * z /\ d * z >= 0 /\ d * y \in Int
  OBVIOUS
<1>. QED BY <1>2, <1>3

(* A number that lies within less than d of k * d, and is a multiple of d, *)
(* is k * d.                                                               *)
LEMMA OneMultiple ==
    ASSUME NEW d \in Nat \ {0}, NEW k \in Int, NEW x \in Int,
           d * k - d < d * x, d * x < d * k + d
    PROVE  x = k
<1>1. d * (k - 1) = d * k - d /\ d * (k + 1) = d * k + d
  OBVIOUS
<1>2. d * (k - 1) < d * x /\ d * x < d * (k + 1)
  BY <1>1
<1>3. k - 1 < x
  BY <1>2, LessMultiple
<1>4. x < k + 1
  BY <1>2, LessMultiple
<1>. QED BY <1>3, <1>4

LEMMA Division ==
    ASSUME NEW a \in Nat, NEW d \in Nat \ {0}
    PROVE  a \div d \in Nat /\ d * (a \div d) <= a /\ a < d * (a \div d) + d
OBVIOUS

(* Rounding the half of a quotient is rounding the quotient.               *)
LEMMA HalfOfQuotient ==
    ASSUME NEW delta \in Nat, NEW k \in Nat \ {0}
    PROVE  (((2 * delta) \div k) + 1) \div 2 = (2 * delta + k) \div (2 * k)
<1>. DEFINE q == (2 * delta) \div k
            r == (q + 1) \div 2
            s == (2 * delta + k) \div (2 * k)
<1>1. q \in Nat /\ k * q <= 2 * delta /\ 2 * delta < k * q + k
  BY Division
<1>2. r \in Nat /\ (q = 2 * r \/ q + 1 = 2 * r)
  BY <1>1
<1>3. s \in Nat /\ (2 * k) * s <= 2 * delta + k /\ 2 * delta + k < (2 * k) * s + 2 * k
  <2>1. 2 * k \in Nat \ {0} /\ 2 * delta + k \in Nat
    OBVIOUS
  <2>. QED BY <2>1, Division
<1>. HIDE DEF q, r, s
<1>4. (2 * k) * r <= 2 * delta + k /\ 2 * delta + k < (2 * k) * r + 2 * k
  <2>1. CASE q = 2 * r
    <3>1. k * q = (2 * k) * r /\ (2 * k) * r \in Int
      BY <1>2, <2>1
    <3>. QED BY <1>1, <3>1
  <2>2. CASE q + 1 = 2 * r
    <3>1. k * q + k = (2 * k) * r /\ (2 * k) * r \in Int /\ k * q \in Int
      <4>1. k * (q + 1) = k * q + k /\ k * (2 * r) = (2 * k) * r
        BY <1>1, <1>2
      <4>. QED BY <1>1, <1>2, <2>2, <4>1
    <3>. QED BY <1>1, <3>1
  <2>. QED BY <1>2, <2>1, <2>2
<1>5. /\ 2 * k \in Nat \ {0} /\ (2 * k) * r \in Int /\ (2 * k) * s \in Int
      /\ (2 * k) * s - 2 * k < (2 * k) * r /\ (2 * k) * r < (2 * k) * s + 2 * k
  <2>1. 2 * k \in Nat \ {0}
    OBVIOUS
  <2>2. (2 * k) * r \in Int /\ (2 * k) * s \in Int
    BY <1>2, <1>3, <2>1
  <2>. QED BY <1>3, <1>4, <2>1, <2>2
<1>6. r = s
  BY <1>2, <1>3, <1>5, OneMultiple
<1>. QED BY <1>6 DEF q, r, s

-----------------------------------------------------------------------------
(* The average.                                                            *)

(* For all values and any number of samples, Datalogger_AddDataSetToAverage *)
(* rounds what rises half away from zero, and what falls the same or one   *)
(* lower.                                                                  *)
THEOREM AverageRounds ==
    ASSUME NEW old \in Nat, NEW new \in Nat, NEW n \in Nat
    PROVE  /\ new >= old => Average(old, new, n) = Rounded(old, new, n)
           /\ Average(old, new, n) - Rounded(old, new, n) \in {-1, 0}
<1>. DEFINE k == n + 1
<1>1. k \in Nat \ {0} /\ n + 1 = k
  OBVIOUS
<1>. HIDE DEF k
<1>2. CASE new >= old
  <2>1. new - old \in Nat /\ new - old >= 0
    BY <1>2
  <2>2. (((2 * (new - old)) \div k) + 1) \div 2 = (2 * (new - old) + k) \div (2 * k)
    BY <1>1, <2>1, HalfOfQuotient
  <2>3. 2 * (new - old) + n + 1 = 2 * (new - old) + k
    BY <1>1
  <2>4. Average(old, new, n) = old + (((2 * (new - old)) \div k) + 1) \div 2
    BY <1>1, <2>1 DEF Average
  <2>5. Rounded(old, new, n) = old + (2 * (new - old) + k) \div (2 * k)
    BY <1>1, <2>1, <2>3 DEF Rounded
  <2>6. (((2 * (new - old)) \div k) + 1) \div 2 \in Int
    <3>1. (2 * (new - old)) \div k \in Int
      BY <1>1, <2>1
    <3>. QED BY <3>1
  <2>. QED BY <2>2, <2>4, <2>5, <2>6
<1>3. CASE new < old
  <2>1. old - new \in Nat /\ ~(new - old >= 0)
    BY <1>3
  <2>. DEFINE q == (2 * (old - new)) \div k
  <2>2. q \in Nat
    BY <1>1, <2>1
  <2>3. (q + 1) \div 2 = (2 * (old - new) + k) \div (2 * k)
    BY <1>1, <2>1, HalfOfQuotient
  <2>4. 2 * (old - new) + n + 1 = 2 * (old - new) + k
    BY <1>1
  <2>5. Average(old, new, n) = old + ((-q) - 1) \div 2
    BY <1>1, <2>1 DEF Average
  <2>6. Rounded(old, new, n) = old - (q + 1) \div 2
    BY <1>1, <2>1, <2>3, <2>4 DEF Rounded
  <2>. HIDE DEF q
  <2>7. ((-q) - 1) \div 2 + (q + 1) \div 2 \in {-1, 0}
    BY <2>2
  <2>. QED BY <1>3, <2>2, <2>5, <2>6, <2>7
<1>. QED BY <1>2, <1>3

(* The comment of Datalogger_AddDataSetToAverage says "rounding (half away *)
(* from zero)"; the last word of its own test comes out one too low: the   *)
(* average of 4113, which stands for two values, and 2568 is 3598, and     *)
(* 3597 is stored.                                                         *)
THEOREM AverageRoundsDown ==
    /\ Rounded(16 * 256 + 17, 10 * 256 + 8, 2) = 3598
    /\ Average(16 * 256 + 17, 10 * 256 + 8, 2) = 3597
<1>1. 16 * 256 + 17 = 4113 /\ 10 * 256 + 8 = 2568
  OBVIOUS
<1>2. Rounded(4113, 2568, 2) = 3598
  <2>1. (2 * (4113 - 2568) + 2 + 1) \div (2 * (2 + 1)) = 515
    OBVIOUS
  <2>. QED BY <2>1 DEF Rounded
<1>3. Average(4113, 2568, 2) = 3597
  <2>1. (2 * (4113 - 2568)) \div (2 + 1) = 1030
    OBVIOUS
  <2>. DEFINE q == (2 * (4113 - 2568)) \div (2 + 1)
  <2>2. Average(4113, 2568, 2) = 4113 + ((-q) - 1) \div 2
    <3>1. ~(2568 - 4113 >= 0)
      OBVIOUS
    <3>. QED BY <3>1 DEF Average
  <2>3. q = 1030
    BY <2>1
  <2>. HIDE DEF q
  <2>. DEFINE r == ((-q) - 1) \div 2
  <2>4. r \in Int /\ 2 * r <= (-q) - 1 /\ (-q) - 1 < 2 * r + 2
    <3>1. \A x \in Int : /\ x \div 2 \in Int
                        /\ 2 * (x \div 2) <= x /\ x < 2 * (x \div 2) + 2
      OBVIOUS
    <3>2. (-q) - 1 \in Int
      BY <2>3
    <3>. QED BY <3>1, <3>2
  <2>. HIDE DEF r
  <2>5. 4113 + r = 3597
    BY <2>3, <2>4
  <2>. QED BY <2>2, <2>5 DEF r
<1>. QED BY <1>1, <1>2, <1>3

-----------------------------------------------------------------------------
(* The minutes waited for.                                                 *)

Minutes == 0..(HOUR - 1)

(* The minutes from m until t.                                             *)
Until(m, t) == IF t >= m THEN t - m ELSE t - m + HOUR

LEMMA UntilRange ==
    ASSUME NEW m \in Minutes, NEW t \in Minutes
    PROVE  Until(m, t) \in Minutes /\ (Until(m, t) = 0 <=> m = t)
BY ScheduleAssumption DEF Minutes, Until

LEMMA UntilNext ==
    ASSUME NEW m \in Minutes, NEW t \in Minutes
    PROVE  /\ (m + 1) % HOUR \in Minutes
           /\ Until((m + 1) % HOUR, t) =
                  IF Until(m, t) = 0 THEN HOUR - 1 ELSE Until(m, t) - 1
<1>1. HOUR \in Nat /\ 1 < HOUR /\ m \in 0..(HOUR - 1) /\ t \in 0..(HOUR - 1)
  BY ScheduleAssumption DEF Minutes
<1>2. (m + 1) % HOUR = IF m = HOUR - 1 THEN 0 ELSE m + 1
  BY <1>1
<1>. QED BY <1>1, <1>2 DEF Minutes, Until

LEMMA UntilLater ==
    ASSUME NEW m \in Minutes, NEW p \in 1..(HOUR - 1)
    PROVE  Later(m, p) \in Minutes /\ Until(m, Later(m, p)) = p
BY ScheduleAssumption DEF Minutes, Until, Later

LEMMA FirstTimeRange ==
    ASSUME NEW m \in Nat, NEW p \in 1..(HOUR - 1)
    PROVE  FirstTime(m, p) \in Minutes
<1>. DEFINE t == ((m \div p + 1) * p) % BYTE
<1>1. BYTE \in Nat \ {0} /\ HOUR \in Nat /\ 0 < HOUR
  BY ScheduleAssumption
<1>2. (m \div p + 1) * p \in Nat
  <2>1. m \div p \in Nat /\ p \in Nat
    BY Division
  <2>. QED BY <2>1
<1>3. t \in Nat
  <2>. DEFINE u == (m \div p + 1) * p
  <2>. HIDE DEF u
  <2>1. u \in Nat => u % BYTE \in Nat
    BY <1>1
  <2>. QED BY <1>2, <2>1 DEF u
<1>. HIDE DEF t
<1>4. (IF t > HOUR - 1 THEN 0 ELSE t) \in Minutes
  BY <1>1, <1>3 DEF Minutes
<1>. QED BY <1>4 DEF FirstTime, t

LEMMA Constants ==
    /\ SKIP \in 1..(HOUR - 1) /\ RATE \in 1..(HOUR - 1) /\ 0 \in Minutes
    /\ HOUR \in Nat /\ SKIP \in Nat /\ RATE \in Nat
BY ScheduleAssumption DEF Minutes

ToSample == Until(minute, MinToWaitFor)
ToSave   == Until(minute, NextTimeToSaveData)

TimesInv == minute \in Minutes /\ MinToWaitFor \in Minutes /\ NextTimeToSaveData \in Minutes

LEMMA WorkTimes ==
    ASSUME NEW m, TimesInv, Work(m)
    PROVE  /\ MinToWaitFor' \in Minutes /\ NextTimeToSaveData' \in Minutes
BY Constants, UntilLater DEF Work, TimesInv

LEMMA TimesStep == TimesInv /\ [Next]_vars => TimesInv'
<1>. SUFFICES ASSUME TimesInv, [Next]_vars PROVE TimesInv'
  OBVIOUS
<1>. USE DEF TimesInv
<1>1. ASSUME NEW ok \in BOOLEAN, Datalogger_Init(ok) PROVE TimesInv'
  BY <1>1 DEF Datalogger_Init
<1>2. ASSUME NEW m \in Garbage, Datalogger_Start(m) PROVE TimesInv'
  <2>1. m \in Nat
    BY ScheduleAssumption
  <2>. QED BY <1>2, <2>1, Constants, FirstTimeRange DEF Datalogger_Start
<1>3. CASE Datalogger_Process
  BY <1>3, WorkTimes DEF Datalogger_Process
<1>4. ASSUME NEW m, ProcessUnread(m) PROVE TimesInv'
  BY <1>4, WorkTimes DEF ProcessUnread
<1>5. CASE Minute
  BY <1>5, UntilNext DEF Minute, logger
<1>6. ASSUME NEW m \in Garbage \intersect 0..(HOUR - 1), SetTime(m) PROVE TimesInv'
  BY <1>6 DEF SetTime, logger, Minutes
<1>7. CASE Reset
  BY <1>7, Constants DEF Reset
<1>8. CASE UNCHANGED vars
  BY <1>8 DEF vars, logger
<1>. QED BY <1>1, <1>2, <1>3, <1>4, <1>5, <1>6, <1>7, <1>8 DEF Next

-----------------------------------------------------------------------------
(* The histories: sinceSample and the minutes to the next sample make a    *)
(* period, and so do sinceSave and the minutes to the next data set.  The  *)
(* samples since a data set are as many as fit into the minutes since.     *)

HistoryTypes ==
    /\ looked \in BOOLEAN /\ sampled \in BOOLEAN /\ saved \in BOOLEAN
    /\ samples \in Nat /\ sinceSample \in Nat /\ sinceSave \in Nat

SampleInv ==
    IF sampled THEN /\ looked => ToSample >= 1
                    /\ sinceSample + ToSample <= SKIP
               ELSE /\ looked /\ ToSample = 0 => sinceSample = 0
                    /\ sinceSample + ToSample <= HOUR

SaveInv ==
    IF saved THEN /\ looked => ToSave >= 1
                  /\ sinceSave + ToSave = RATE
             ELSE /\ looked /\ ToSave = 0 => sinceSave = 0
                  /\ sinceSave + ToSave <= HOUR

SamplesInv ==
    saved => /\ sampled
             /\ RATE - ToSave + ToSample - SKIP * samples \in 1..SKIP

HistoryInv == TimesInv /\ HistoryTypes /\ SampleInv /\ SaveInv /\ SamplesInv

LEMMA ToRange ==
    ASSUME TimesInv
    PROVE  /\ ToSample \in 0..(HOUR - 1) /\ (ToSample = 0 <=> Sampling(minute))
           /\ ToSave \in 0..(HOUR - 1) /\ (ToSave = 0 <=> Saving(minute))
BY UntilRange DEF TimesInv, ToSample, ToSave, Sampling, Saving, Minutes

(* Behind StartWatching everything holds.                                  *)
LEMMA WatchStarted ==
    ASSUME TimesInv', StartWatching, looked' \in BOOLEAN
    PROVE  HistoryInv'
<1>1. ToSample' \in 0..(HOUR - 1) /\ ToSave' \in 0..(HOUR - 1)
  <2>1. minute' \in Minutes /\ MinToWaitFor' \in Minutes /\ NextTimeToSaveData' \in Minutes
    BY DEF TimesInv
  <2>. QED BY <2>1, UntilRange DEF ToSample, ToSave, Minutes
<1>2. HistoryTypes'
  BY DEF HistoryTypes, StartWatching
<1>3. sampled' = FALSE /\ saved' = FALSE /\ sinceSample' = 0 /\ sinceSave' = 0
  BY DEF StartWatching
<1>4. SampleInv' /\ SaveInv' /\ SamplesInv'
  <2>1. \A a \in 0..(HOUR - 1) : 0 + a <= HOUR
    BY Constants
  <2>2. sinceSample' + ToSample' <= HOUR /\ sinceSave' + ToSave' <= HOUR
    BY <1>1, <1>3, <2>1
  <2>. QED BY <1>3, <2>2 DEF SampleInv, SaveInv, SamplesInv
<1>. QED BY <1>2, <1>4 DEF HistoryInv

LEMMA HistoryInit == Init => HistoryInv
<1>. SUFFICES ASSUME Init PROVE HistoryInv
  OBVIOUS
<1>1. TimesInv
  BY Constants DEF Init, TimesInv, Minutes
<1>2. HistoryTypes
  BY DEF Init, HistoryTypes
<1>3. sinceSample + ToSample <= HOUR /\ sinceSave + ToSave <= HOUR
  BY <1>1, ToRange, Constants DEF Init
<1>4. SampleInv /\ SaveInv /\ SamplesInv
  BY <1>3 DEF Init, SampleInv, SaveInv, SamplesInv
<1>. QED BY <1>1, <1>2, <1>4 DEF HistoryInv

LEMMA MinuteHistory ==
    ASSUME HistoryInv, Minute, DataLoggerStarted, looked
    PROVE  HistoryInv'
<1>. DEFINE d == ToSample  e == ToSave
<1>1. TimesInv /\ TimesInv'
  BY TimesStep DEF HistoryInv, Next
<1>2. /\ d \in 0..(HOUR - 1) /\ e \in 0..(HOUR - 1)
      /\ ToSample' = (IF d = 0 THEN HOUR - 1 ELSE d - 1)
      /\ ToSave' = (IF e = 0 THEN HOUR - 1 ELSE e - 1)
  BY <1>1, ToRange, UntilNext DEF TimesInv, Minute, logger, ToSample, ToSave
<1>3. /\ looked' = FALSE /\ sampled' = sampled /\ saved' = saved /\ samples' = samples
      /\ sinceSample' = sinceSample + 1 /\ sinceSave' = sinceSave + 1
  BY DEF Minute
<1>4. HistoryTypes /\ HistoryTypes'
  <2>1. HistoryTypes
    BY DEF HistoryInv
  <2>2. sinceSample + 1 \in Nat /\ sinceSave + 1 \in Nat
    BY <2>1 DEF HistoryTypes
  <2>. QED BY <1>3, <2>1, <2>2 DEF HistoryTypes
<1>5. sampled => d >= 1 /\ sinceSample + d <= SKIP
  BY DEF HistoryInv, SampleInv
<1>6. saved => e >= 1 /\ sinceSave + e = RATE /\ sampled
  BY DEF HistoryInv, SaveInv, SamplesInv
<1>7. /\ ~sampled => (d = 0 => sinceSample = 0) /\ sinceSample + d <= HOUR
      /\ ~saved => (e = 0 => sinceSave = 0) /\ sinceSave + e <= HOUR
  BY DEF HistoryInv, SampleInv, SaveInv
<1>8. /\ HOUR \in Nat /\ SKIP \in Nat /\ RATE \in Nat
      /\ samples \in Nat /\ sinceSample \in Nat /\ sinceSave \in Nat
  BY <1>4, Constants DEF HistoryTypes
<1>. HIDE DEF d, e
<1>9. SampleInv'
  <2>1. CASE sampled
    <3>1. sinceSample' + ToSample' <= SKIP
      BY <1>2, <1>3, <1>5, <1>8, <2>1
    <3>. QED BY <1>3, <2>1, <3>1 DEF SampleInv
  <2>2. CASE ~sampled
    <3>1. sinceSample' + ToSample' <= HOUR
      BY <1>2, <1>3, <1>7, <1>8, <2>2
    <3>. QED BY <1>3, <2>2, <3>1 DEF SampleInv
  <2>. QED BY <2>1, <2>2
<1>10. SaveInv'
  <2>1. CASE saved
    <3>1. sinceSave' + ToSave' = RATE
      BY <1>2, <1>3, <1>6, <1>8, <2>1
    <3>. QED BY <1>3, <2>1, <3>1 DEF SaveInv
  <2>2. CASE ~saved
    <3>1. sinceSave' + ToSave' <= HOUR
      BY <1>2, <1>3, <1>7, <1>8, <2>2
    <3>. QED BY <1>3, <2>2, <3>1 DEF SaveInv
  <2>. QED BY <2>1, <2>2
<1>11. SamplesInv'
  <2>. SUFFICES ASSUME saved
                PROVE  sampled /\ RATE - ToSave' + ToSample' - SKIP * samples \in 1..SKIP
    BY <1>3 DEF SamplesInv
  <2>1. RATE - e + d - SKIP * samples \in 1..SKIP
    BY DEF HistoryInv, SamplesInv, d, e
  <2>2. sampled /\ ToSave' = e - 1 /\ ToSample' = d - 1
    BY <1>2, <1>5, <1>6
  <2>3. SKIP * samples \in Int
    BY <1>8
  <2>. QED BY <1>2, <1>8, <2>1, <2>2, <2>3
<1>. QED BY <1>1, <1>4, <1>9, <1>10, <1>11 DEF HistoryInv

LEMMA ProcessHistory ==
    ASSUME HistoryInv, Datalogger_Process
    PROVE  HistoryInv'
<1>. DEFINE d == ToSample  e == ToSave
<1>1. TimesInv /\ TimesInv'
  BY TimesStep DEF HistoryInv, Next
<1>2. /\ d \in 0..(HOUR - 1) /\ e \in 0..(HOUR - 1)
      /\ (d = 0 <=> Sampling(minute)) /\ (e = 0 <=> Saving(minute))
  BY <1>1, ToRange
<1>3. ToSample' = IF d = 0 THEN SKIP ELSE d
  <2>1. CASE Sampling(minute)
    BY <1>1, <1>2, <2>1, UntilLater, Constants
       DEF Datalogger_Process, Work, Sampling, TimesInv, ToSample
  <2>2. CASE ~Sampling(minute)
    BY <1>2, <2>2 DEF Datalogger_Process, Work, ToSample
  <2>. QED BY <2>1, <2>2
<1>4. ToSave' = IF e = 0 THEN RATE ELSE e
  <2>1. CASE Saving(minute)
    BY <1>1, <1>2, <2>1, UntilLater, Constants
       DEF Datalogger_Process, Work, Saving, TimesInv, ToSave
  <2>2. CASE ~Saving(minute)
    BY <1>2, <2>2 DEF Datalogger_Process, Work, ToSave
  <2>. QED BY <2>1, <2>2
<1>5. /\ looked' = TRUE
      /\ sampled' = (sampled \/ d = 0)
      /\ saved' = (saved \/ (sampled' /\ e = 0))
      /\ samples' = IF e = 0 THEN 0 ELSE IF d = 0 THEN samples + 1 ELSE samples
      /\ sinceSample' = IF d = 0 THEN 0 ELSE sinceSample
      /\ sinceSave' = IF e = 0 THEN 0 ELSE sinceSave
  BY <1>2 DEF Datalogger_Process, Watch
<1>6. /\ HOUR \in Nat /\ SKIP \in 1..(HOUR - 1) /\ RATE \in 1..(HOUR - 1)
      /\ samples \in Nat /\ sinceSample \in Nat /\ sinceSave \in Nat
  BY Constants DEF HistoryInv, HistoryTypes
<1>7. HistoryTypes'
  BY <1>5, <1>6 DEF HistoryInv, HistoryTypes
<1>8. /\ sampled  => sinceSample + d <= SKIP
      /\ ~sampled => sinceSample + d <= HOUR
      /\ saved    => sinceSave + e = RATE
      /\ ~saved   => sinceSave + e <= HOUR
      /\ saved    => sampled
  BY DEF HistoryInv, SampleInv, SaveInv, SamplesInv
<1>. HIDE DEF d, e
<1>9. ToSample' \in 1..(HOUR - 1) /\ ToSave' \in 1..(HOUR - 1)
  BY <1>2, <1>3, <1>4, <1>6
<1>10. SampleInv'
  <2>1. CASE d = 0
    <3>1. sinceSample' + ToSample' <= SKIP
      BY <1>3, <1>5, <1>6, <2>1
    <3>2. sampled' = TRUE
      BY <1>5, <2>1
    <3>3. ToSample' >= 1
      BY <1>9
    <3>. QED BY <3>1, <3>2, <3>3 DEF SampleInv
  <2>2. CASE d # 0
    <3>1. sampled' = sampled /\ sinceSample' = sinceSample /\ ToSample' = d
      BY <1>3, <1>5, <2>2 DEF HistoryInv, HistoryTypes
    <3>2. ~(ToSample' = 0) /\ ToSample' >= 1
      BY <1>9
    <3>. QED BY <1>8, <3>1, <3>2 DEF SampleInv
  <2>. QED BY <2>1, <2>2
<1>11. SaveInv'
  <2>0. ~(ToSave' = 0) /\ ToSave' >= 1
    BY <1>9
  <2>1. CASE e = 0
    <3>1. sinceSave' + ToSave' = RATE /\ RATE <= HOUR
      BY <1>4, <1>5, <1>6, <2>1
    <3>. QED BY <2>0, <3>1 DEF SaveInv
  <2>2. CASE e # 0
    <3>1. saved' = saved /\ sinceSave' = sinceSave /\ ToSave' = e
      BY <1>4, <1>5, <2>2 DEF HistoryInv, HistoryTypes
    <3>. QED BY <1>8, <2>0, <3>1 DEF SaveInv
  <2>. QED BY <2>1, <2>2
<1>12. SamplesInv'
  <2>. SUFFICES ASSUME saved'
                PROVE  sampled' /\ RATE - ToSave' + ToSample' - SKIP * samples' \in 1..SKIP
    BY DEF SamplesInv
  <2>1. sampled'
    BY <1>5, <1>8
  <2>2. ToSample' \in 1..SKIP
    <3>1. CASE d = 0
      BY <1>3, <1>6, <3>1
    <3>2. CASE d # 0
      <4>1. sampled
        BY <1>5, <2>1, <3>2
      <4>2. sinceSample + d <= SKIP
        BY <1>8, <4>1
      <4>. QED BY <1>2, <1>3, <1>6, <3>2, <4>2
    <3>. QED BY <3>1, <3>2
  <2>3. CASE e = 0
    <3>1. samples' = 0 /\ ToSave' = RATE /\ SKIP * 0 = 0
      BY <1>4, <1>5, <1>6, <2>3
    <3>2. RATE - RATE + ToSample' - 0 \in 1..SKIP
      <4>1. \A r \in Int, t \in Int : r - r + t - 0 = t
        OBVIOUS
      <4>2. RATE \in Int /\ ToSample' \in Int
        BY <1>6, <1>9
      <4>3. RATE - RATE + ToSample' - 0 = ToSample'
        BY <4>1, <4>2
      <4>. QED BY <2>2, <4>3
    <3>. QED BY <2>1, <3>1, <3>2
  <2>4. CASE e # 0
    <3>1. saved
      BY <1>5, <2>4
    <3>2. RATE - e + d - SKIP * samples \in 1..SKIP
      BY <3>1 DEF HistoryInv, SamplesInv, d, e
    <3>3. CASE d # 0
      BY <1>3, <1>4, <1>5, <2>1, <2>4, <3>2, <3>3
    <3>4. CASE d = 0
      <4>1. samples' = samples + 1 /\ ToSample' = SKIP /\ ToSave' = e
        BY <1>3, <1>4, <1>5, <2>4, <3>4
      <4>2. SKIP * (samples + 1) = SKIP * samples + SKIP /\ SKIP * samples \in Int
        BY <1>6
      <4>3. RATE - e + SKIP - SKIP * (samples + 1) \in 1..SKIP
        BY <1>2, <1>6, <3>2, <3>4, <4>2
      <4>. QED BY <2>1, <4>1, <4>3
    <3>. QED BY <3>3, <3>4
  <2>. QED BY <2>3, <2>4
<1>. QED BY <1>1, <1>7, <1>10, <1>11, <1>12 DEF HistoryInv

LEMMA HistoryStep == HistoryInv /\ [Next]_vars => HistoryInv'
<1>. SUFFICES ASSUME HistoryInv, [Next]_vars PROVE HistoryInv'
  OBVIOUS
<1>a. TimesInv' /\ looked \in BOOLEAN
  BY TimesStep DEF HistoryInv, HistoryTypes
<1>b. ASSUME UNCHANGED <<minute, MinToWaitFor, NextTimeToSaveData, history>> PROVE HistoryInv'
  BY <1>b DEF history, HistoryInv, TimesInv, HistoryTypes, SampleInv, SaveInv, SamplesInv,
              ToSample, ToSave
<1>1. ASSUME NEW ok \in BOOLEAN, Datalogger_Init(ok) PROVE HistoryInv'
  BY <1>b, <1>1 DEF Datalogger_Init
<1>2. ASSUME NEW m \in Garbage, Datalogger_Start(m) PROVE HistoryInv'
  BY <1>a, <1>2, WatchStarted DEF Datalogger_Start
<1>3. CASE Datalogger_Process
  BY <1>3, ProcessHistory
<1>4. ASSUME NEW m, ProcessUnread(m) PROVE HistoryInv'
  BY <1>a, <1>4, WatchStarted DEF ProcessUnread
<1>5. CASE Minute
  <2>1. CASE DataLoggerStarted /\ looked
    BY <1>5, <2>1, MinuteHistory
  <2>2. CASE ~(DataLoggerStarted /\ looked)
    BY <1>a, <1>5, <2>2, WatchStarted DEF Minute
  <2>. QED BY <2>1, <2>2
<1>6. ASSUME NEW m, SetTime(m) PROVE HistoryInv'
  BY <1>a, <1>6, WatchStarted DEF SetTime
<1>7. CASE Reset
  BY <1>a, <1>7, WatchStarted DEF Reset
<1>8. CASE UNCHANGED vars
  BY <1>b, <1>8 DEF vars, logger
<1>. QED BY <1>1, <1>2, <1>3, <1>4, <1>5, <1>6, <1>7, <1>8 DEF Next

LEMMA HistoryAlways == Spec => []HistoryInv
BY HistoryInit, HistoryStep, PTL DEF Spec

(* For all periods shorter than an hour and every time on the stack: the   *)
(* first sample and the first data set come within the hour, the others    *)
(* within their periods.                                                   *)
THEOREM OnTimeCorrect == Spec => []OnTime
<1>1. HistoryInv => OnTime
  <2>. SUFFICES ASSUME HistoryInv PROVE OnTime
    OBVIOUS
  <2>1. ToSample \in Nat /\ ToSave \in Nat
    BY ToRange DEF HistoryInv
  <2>2. /\ sinceSample \in Nat /\ sinceSave \in Nat
        /\ HOUR \in Nat /\ SKIP \in Nat /\ RATE \in Nat
    BY Constants DEF HistoryInv, HistoryTypes
  <2>3. sinceSample <= IF sampled THEN SKIP ELSE HOUR
    <3>1. CASE sampled
      <4>1. sinceSample + ToSample <= SKIP
        BY <3>1 DEF HistoryInv, SampleInv
      <4>2. sinceSample <= SKIP
        BY <2>1, <2>2, <4>1
      <4>. QED BY <3>1, <4>2
    <3>2. CASE ~sampled
      <4>1. sinceSample + ToSample <= HOUR
        BY <3>2 DEF HistoryInv, SampleInv
      <4>2. sinceSample <= HOUR
        BY <2>1, <2>2, <4>1
      <4>. QED BY <3>2, <4>2
    <3>. QED BY <3>1, <3>2
  <2>4. sinceSave <= IF saved THEN RATE ELSE HOUR
    <3>1. CASE saved
      <4>1. sinceSave + ToSave = RATE
        BY <3>1 DEF HistoryInv, SaveInv
      <4>2. sinceSave <= RATE
        BY <2>1, <2>2, <4>1
      <4>. QED BY <3>1, <4>2
    <3>2. CASE ~saved
      <4>1. sinceSave + ToSave <= HOUR
        BY <3>2 DEF HistoryInv, SaveInv
      <4>2. sinceSave <= HOUR
        BY <2>1, <2>2, <4>1
      <4>. QED BY <3>2, <4>2
    <3>. QED BY <3>1, <3>2
  <2>. QED BY <2>3, <2>4 DEF OnTime
<1>. QED BY <1>1, HistoryAlways, PTL

-----------------------------------------------------------------------------
(* The samples of a data set.                                              *)

LEMMA SamplesOfSet ==
    ASSUME RATE % SKIP = 0, HistoryInv, saved, Saving(minute)
    PROVE  /\ sinceSave = RATE
           /\ samples + (IF Sampling(minute) THEN 1 ELSE 0) = RATE \div SKIP
<1>. DEFINE d == ToSample  x == RATE - ToSave + d - SKIP * samples  K == RATE \div SKIP
<1>1. /\ d \in 0..(HOUR - 1) /\ (d = 0 <=> Sampling(minute)) /\ ToSave = 0
  BY ToRange DEF HistoryInv
<1>2. /\ SKIP \in Nat \ {0} /\ RATE \in Nat /\ HOUR \in Nat
      /\ samples \in Nat /\ sinceSave \in Nat
  BY Constants DEF HistoryInv, HistoryTypes
<1>3. sinceSave + ToSave = RATE
  BY DEF HistoryInv, SaveInv
<1>4. sinceSave = RATE
  BY <1>1, <1>2, <1>3
<1>5. sampled /\ x \in 1..SKIP
  BY DEF HistoryInv, SamplesInv
<1>6. d <= SKIP
  <2>1. sinceSample + d <= SKIP /\ sinceSample \in Nat
    BY <1>5 DEF HistoryInv, SampleInv, HistoryTypes
  <2>. QED BY <1>1, <1>2, <2>1
<1>7. K \in Nat /\ SKIP * K = RATE
  BY <1>2
<1>8. SKIP * samples \in Nat /\ x = RATE + d - SKIP * samples
  BY <1>1, <1>2
<1>. HIDE DEF d, x, K
<1>9. CASE d = 0
  <2>1. SKIP * (samples + 1) = SKIP * samples + SKIP
    BY <1>2
  <2>2. SKIP * K - SKIP < SKIP * (samples + 1) /\ SKIP * (samples + 1) < SKIP * K + SKIP
    BY <1>2, <1>5, <1>7, <1>8, <1>9, <2>1
  <2>3. samples + 1 = K
    BY <1>2, <1>7, <2>2, OneMultiple
  <2>. QED BY <1>1, <1>4, <1>9, <2>3 DEF K
<1>10. CASE d # 0
  <2>1. SKIP * K - SKIP < SKIP * samples /\ SKIP * samples < SKIP * K + SKIP
    BY <1>1, <1>2, <1>5, <1>6, <1>7, <1>8, <1>10
  <2>2. samples = K
    BY <1>2, <1>7, <2>1, OneMultiple
  <2>3. samples + 0 = K
    BY <1>2, <2>2
  <2>. QED BY <1>1, <1>4, <1>10, <2>3 DEF K
<1>. QED BY <1>9, <1>10

(* For all periods of which one divides the other, as 5 divides 30: the    *)
(* data sets behind the first come a saving period apart, with as many     *)
(* samples taken for each as fit into it.                                  *)
THEOREM SamplesCorrect ==
    ASSUME RATE % SKIP = 0
    PROVE  Spec => SamplesPerDataSet
<1>1. HistoryInv /\ [Next]_vars =>
        [Datalogger_Process /\ saved /\ Saving(minute) =>
            /\ sinceSave = RATE
            /\ samples + (IF Sampling(minute) THEN 1 ELSE 0) = RATE \div SKIP]_vars
  BY SamplesOfSet
<1>. QED BY <1>1, HistoryAlways, PTL DEF Spec, SamplesPerDataSet

-----------------------------------------------------------------------------
(* Types.                                                                  *)

Started ==
    /\ DataLoggerStarted \in BOOLEAN /\ DataloggerInitalized \in BOOLEAN
    /\ DataSetNumber \in {0, 1, 3}

LEMMA StartedStep == Started /\ [Next]_vars => Started'
BY DEF Started, Next, Datalogger_Init, Datalogger_Start, Datalogger_Process, ProcessUnread,
       Work, Minute, SetTime, Reset, vars, logger

(* For all constants: the minutes waited for are minutes of the hour,      *)
(* whatever the stack held.                                                *)
THEOREM TypeCorrect == Spec => []TypeOK
<1>1. Init => Started
  BY DEF Init, Started
<1>2. HistoryInv /\ Started => TypeOK
  BY DEF TypeOK, HistoryInv, HistoryTypes, TimesInv, Minutes, Started
<1>. QED BY <1>1, <1>2, HistoryAlways, StartedStep, PTL DEF Spec
=============================================================================
