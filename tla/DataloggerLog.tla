--------------------------- MODULE DataloggerLog ----------------------------
(***************************************************************************)
(* The data logger, and the log somebody reads back from it.  The log is   *)
(* what Datalogger_ReadBackData prints: the data sets of the pages in      *)
(* turn, up to the first page that does not look full.                     *)
(*                                                                         *)
(* The code keeps the log whole except in the cases this module names, and *)
(* the history variable "spoiled" records that one of them has happened.   *)
(***************************************************************************)
EXTENDS Datalogger, Sequences, SequencesExt

VARIABLE spoiled

hvars == <<vars, spoiled>>

HInit == Init /\ spoiled = FALSE

-----------------------------------------------------------------------------
AnyDataSet == \E p \in DOMAIN flash : DataSetsOf(flash[p]) # {}

(* Behind the data sets of this page the buffer holds older ones.          *)
StaleBehind == \E k \in Slots : k >= DataSetAddress /\ ~NoDataSet(buffer[BufferInUse], k)

HNext ==
    \* The log is started anew on purpose, or because the device is full:
    \* reported as full, or, unreported, with the page behind the last one.
    \/ InitOverwrite /\ spoiled' = (spoiled \/ AnyDataSet)
    \/ \E restartIfFull \in BOOLEAN :
        /\ InitAppend(restartIfFull)
        /\ spoiled' = \/ spoiled
                      \/ PageToLook = PAGES
                      \/ ReportsFull /\ restartIfFull
                      \/ copying # {}       \* page 0 was not what the scan saw
    \* The last page was written and the log goes on in the first; the copy
    \* was ignored by a busy chip; the bytes at the end of the full page give
    \* the size 0 and pass for room.
    \/ /\ AddDataSet
       /\ LET copies == DataSetAddress + 1 >= PER IN
          spoiled' = \/ spoiled
                     \/ copies /\ DataPageAddress + 1 >= PAGES
                     \/ copies /\ copying # {}
                     \/ copies /\ buffer[BufferInUse].tail = zero
    \/ SaveDataToFlash /\ spoiled' = (spoiled \/ StaleBehind)
    \/ ReadBackData /\ UNCHANGED spoiled
    \/ CopyDone /\ UNCHANGED <<loggerVars, added, spoiled>>
    \/ Reset /\ UNCHANGED spoiled
    \/ PowerFail /\ spoiled' = (spoiled \/ copying # {})

HSpec == HInit /\ [][HNext]_hvars

-----------------------------------------------------------------------------
(* Up to its first slot without a header, the data sets of a page.         *)
Run(page) == [k \in 1..Headers(page) |-> page.slot[k - 1]]

(* What is read back when no copy is on its way.                           *)
LastPage == Min({p \in DOMAIN flash : ~LooksFull(flash[p])} \union {PAGES - 1})
Log      == FlattenSeq([i \in 1..(LastPage + 1) |-> Run(flash[i - 1])])

(* The log is in the order in which the data sets were added, none twice:  *)
(* neither the two buffers taken in turn, nor a scan that reuses one of    *)
(* them, nor a restart of the processor brings an older data set back.     *)
LogOrdered ==
    ~spoiled => LET log == Log
                IN  \A i, j \in DOMAIN log : i < j => log[i] < log[j]

(* Every data set that reached the flash is read back: no page behind one  *)
(* with room, and no data set behind a gap.  The logger may skip the rest  *)
(* of a page that looks full without being it, the reader skips it too.    *)
NothingHidden ==
    ~spoiled => UNION {DataSetsOf(flash[p]) : p \in DOMAIN flash} = ToSet(Log)

(* The data sets in the buffer, up to the next slot, behind those that the *)
(* page in flash holds as well.                                            *)
Unsaved ==
    IF ~DataloggerInitalized THEN <<>>
    ELSE LET saved == Headers(flash[Physical(DataPageAddress)])
         IN  [k \in 1..(DataSetAddress - saved) |->
                 buffer[BufferInUse].slot[saved + k - 1]]

(* The logger keeps the promise of RecordLog: through restarts, losses of  *)
(* power, scans that reuse a buffer and pages copied again with more data  *)
(* sets, the log only grows at its end, by exactly the data sets added     *)
(* since, and what StartTemperatureController (which runs Datalogger_Init  *)
(* again), a reset or a loss of power made it forget does not come back.   *)
Record == INSTANCE RecordLog WITH
              log <- Log, unsaved <- Unsaved, added <- added, intact <- ~spoiled
ImplementsRecordLog == Record!Spec
=============================================================================
