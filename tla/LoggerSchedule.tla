--------------------------- MODULE LoggerSchedule ---------------------------
(***************************************************************************)
(* The data logger's schedule (Board/Datalogger.c): Datalogger_Start finds *)
(* the minutes of the hour at which the next sample and the next data set  *)
(* are due; Datalogger_Process, to be called again and again, reads the    *)
(* clock, takes a sample into the running average when the one minute has  *)
(* come, and saves the average when the other one has.  Only the minute of *)
(* the hour is compared, and only for equality.                            *)
(*                                                                         *)
(* Datalogger_Start does not read the clock: it computes from whatever the *)
(* stack holds.  The same happens to Datalogger_Process if the bus fails.  *)
(***************************************************************************)
EXTENDS Integers

CONSTANTS
    BYTE,      \* the number of values of a byte, 256 in the program
    HOUR,      \* 60
    SKIP,      \* DATALOGGER_MIN_TO_SKIP, 5
    RATE,      \* DATALOGGER_DATA_SAVE_RATE, 30
    Garbage    \* the minutes a stack may hold, all bytes in the program; the
               \* clock is set to those that are minutes

ASSUME ScheduleAssumption ==
    /\ BYTE \in Nat /\ HOUR \in Nat /\ SKIP \in Nat /\ RATE \in Nat
    /\ 0 < SKIP /\ SKIP < HOUR
    /\ 0 < RATE /\ RATE < HOUR
    /\ Garbage \subseteq 0..(BYTE - 1)
    /\ 2 * HOUR <= BYTE

VARIABLES
    minute,                \* the clock's
    DataLoggerStarted,
    DataloggerInitalized,
    MinToWaitFor,          \* the minute of the next sample
    NextTimeToSaveData,    \* the minute of the next data set
    DataSetNumber,         \* the number of samples in the average
    looked,      \* history: the clock was read in this minute
    sampled,     \* histories of the time since when it was read in every
    saved,       \* minute, and the clock was not set: that a sample was taken,
    samples,     \* and after that a data set saved, the samples since a save,
    sinceSample, \* and the minutes since the last sample
    sinceSave    \* and the last data set

logger  == <<DataLoggerStarted, DataloggerInitalized, MinToWaitFor, NextTimeToSaveData,
             DataSetNumber>>
history == <<looked, sampled, saved, samples, sinceSample, sinceSave>>
vars    == <<minute, logger, history>>

(* The histories begin anew.                                               *)
StartWatching ==
    /\ sampled' = FALSE /\ saved' = FALSE /\ samples' = 0
    /\ sinceSample' = 0 /\ sinceSave' = 0

Init ==
    /\ minute \in 0..(HOUR - 1)
    /\ DataLoggerStarted = FALSE /\ DataloggerInitalized = FALSE
    /\ MinToWaitFor = 0 /\ NextTimeToSaveData = 0
    /\ DataSetNumber = 0
    /\ looked = FALSE /\ sampled = FALSE /\ saved = FALSE
    /\ samples = 0 /\ sinceSample = 0 /\ sinceSave = 0

-----------------------------------------------------------------------------
(* Datalogger_Start.                                                       *)

(* Mutant: the hour has a minute more.                                     *)
FirstTimeLong(m, period) ==
    LET t == ((m \div period + 1) * period) % BYTE IN IF t > HOUR THEN 0 ELSE t

(* The next multiple of a period behind a minute, in a byte.               *)
FirstTime(m, period) ==
    LET t == ((m \div period + 1) * period) % BYTE IN IF t > HOUR - 1 THEN 0 ELSE t

(* The logger is started even if Datalogger_Init has not set it up; the    *)
(* times are then those it had.                                            *)
Datalogger_Start(m) ==
    /\ IF DataloggerInitalized
       THEN /\ MinToWaitFor' = FirstTime(m, SKIP)
            /\ NextTimeToSaveData' = FirstTime(m, RATE)
            /\ DataSetNumber' = 1
       ELSE UNCHANGED <<MinToWaitFor, NextTimeToSaveData, DataSetNumber>>
    /\ DataLoggerStarted' = TRUE
    /\ StartWatching
    /\ UNCHANGED <<minute, DataloggerInitalized, looked>>

-----------------------------------------------------------------------------
(* Datalogger_AddDataSetToAverage.                                         *)

(* The average of n values is old; a value is added.  The division rounds  *)
(* towards 0, the shift of a negative number down.                         *)
Average(old, new, n) ==
    LET delta == new - old
    IN  IF delta >= 0 THEN old + (((2 * delta) \div (n + 1)) + 1) \div 2
                      ELSE old + (-((2 * (old - new)) \div (n + 1)) - 1) \div 2

(* What the comment "rounding (half away from zero)" asks for.              *)
Rounded(old, new, n) ==
    LET delta == new - old
    IN  IF delta >= 0 THEN old + (2 * delta + n + 1) \div (2 * (n + 1))
                      ELSE old - (2 * (old - new) + n + 1) \div (2 * (n + 1))

-----------------------------------------------------------------------------
(* Datalogger_Process.                                                     *)

(* Mutant: the hour is not taken off.                                      *)
LaterNoWrap(t, period) == t + period

(* Mutant: both times are moved by the same period.                        *)
LaterBySkip(t, period) == IF t + SKIP > HOUR - 1 THEN t + SKIP - HOUR ELSE t + SKIP

Later(t, period) == IF t + period > HOUR - 1 THEN t + period - HOUR ELSE t + period

Sampling(m) == m = MinToWaitFor
Saving(m)   == m = NextTimeToSaveData

(* What a call does that finds the minute to be m: a sample, if it is due, *)
(* comes before the data set that is due.  Datalogger_AddDataSetToAverage  *)
(* puts a test in place of the measurement: it overwrites the average so   *)
(* far, and its DataSetNumber with 2, and averages constants.              *)
Work(m) ==
    /\ MinToWaitFor' = IF Sampling(m) THEN Later(MinToWaitFor, SKIP) ELSE MinToWaitFor
    /\ NextTimeToSaveData' =
           IF Saving(m) THEN Later(NextTimeToSaveData, RATE) ELSE NextTimeToSaveData
    /\ DataSetNumber' = IF Saving(m) THEN 0
                        ELSE IF Sampling(m) THEN 3 ELSE DataSetNumber

Watch ==
    /\ looked' = TRUE
    /\ sampled' = (sampled \/ Sampling(minute))
    /\ saved' = (saved \/ (sampled' /\ Saving(minute)))
    /\ samples' = IF Saving(minute) THEN 0
                  ELSE IF Sampling(minute) THEN samples + 1 ELSE samples
    /\ sinceSample' = IF Sampling(minute) THEN 0 ELSE sinceSample
    /\ sinceSave' = IF Saving(minute) THEN 0 ELSE sinceSave

Datalogger_Process ==
    /\ DataLoggerStarted
    /\ Work(minute) /\ Watch
    /\ UNCHANGED <<minute, DataLoggerStarted, DataloggerInitalized>>

(* The bus fails, and the time is what the stack held.                     *)
ProcessUnread(m) ==
    /\ DataLoggerStarted
    /\ Work(m) /\ StartWatching
    /\ UNCHANGED <<minute, looked, DataLoggerStarted, DataloggerInitalized>>

-----------------------------------------------------------------------------
(* Datalogger_Init, for what the schedule sees of it.                      *)
Datalogger_Init(ok) ==
    /\ DataloggerInitalized' = ok
    /\ UNCHANGED <<minute, DataLoggerStarted, MinToWaitFor, NextTimeToSaveData,
                   DataSetNumber, history>>

(* The clock goes on; it is set.                                           *)
Minute ==
    /\ minute' = (minute + 1) % HOUR
    /\ looked' = FALSE
    /\ IF DataLoggerStarted /\ looked
       THEN /\ sinceSample' = sinceSample + 1 /\ sinceSave' = sinceSave + 1
            /\ UNCHANGED <<sampled, saved, samples>>
       ELSE StartWatching
    /\ UNCHANGED logger

SetTime(m) ==
    /\ minute' = m
    /\ StartWatching /\ looked' = FALSE
    /\ UNCHANGED logger

Reset ==
    /\ DataLoggerStarted' = FALSE /\ DataloggerInitalized' = FALSE
    /\ MinToWaitFor' = 0 /\ NextTimeToSaveData' = 0
    /\ DataSetNumber' = 0
    /\ StartWatching /\ looked' = FALSE
    /\ UNCHANGED minute

Next ==
    \/ \E ok \in BOOLEAN : Datalogger_Init(ok)
    \/ \E m \in Garbage : Datalogger_Start(m)
    \/ Datalogger_Process
    \/ \E m \in Garbage \union {MinToWaitFor, NextTimeToSaveData} : ProcessUnread(m)
    \/ Minute
    \/ \E m \in Garbage \intersect 0..(HOUR - 1) : SetTime(m)
    \/ Reset

Spec == Init /\ [][Next]_vars

-----------------------------------------------------------------------------
(* Types; the minutes waited for are minutes, whatever the stack held.     *)
TypeOK ==
    /\ minute \in 0..(HOUR - 1)
    /\ DataLoggerStarted \in BOOLEAN /\ DataloggerInitalized \in BOOLEAN
    /\ MinToWaitFor \in 0..(HOUR - 1)
    /\ NextTimeToSaveData \in 0..(HOUR - 1)
    /\ DataSetNumber \in {0, 1, 3}
    /\ looked \in BOOLEAN /\ sampled \in BOOLEAN /\ saved \in BOOLEAN
    /\ samples \in Nat /\ sinceSample \in Nat /\ sinceSave \in Nat

(* Started from any time on the stack, after any failure of the bus and    *)
(* any setting of the clock, a logger that looks at the clock every minute *)
(* takes its first sample and saves its first data set within the hour,    *)
(* and the following ones within their periods.                            *)
OnTime ==
    /\ sinceSample <= IF sampled THEN SKIP ELSE HOUR
    /\ sinceSave   <= IF saved   THEN RATE ELSE HOUR

(* The two minutes waited for move independently, and still every data set *)
(* behind the first with a sample is saved a whole saving period after the *)
(* one before, and Datalogger_AddDataSetToAverage was called for each of   *)
(* the samples that fit into that period, no one too few or too many.      *)
(* What is saved is another matter: with the test in it that function      *)
(* keeps nothing of the calls before the last one.                         *)
SamplesPerDataSet ==
    [][Datalogger_Process /\ saved /\ Saving(minute) =>
            /\ sinceSave = RATE
            /\ samples + (IF Sampling(minute) THEN 1 ELSE 0) = RATE \div SKIP]_vars
=============================================================================
