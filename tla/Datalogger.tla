----------------------------- MODULE Datalogger -----------------------------
(***************************************************************************)
(* The data logger (Board/Datalogger.c): data sets are collected in one of *)
(* the buffers of the data flash, and the buffer is copied to a page when  *)
(* it is full or when SaveDataToFlash is called.  Nothing but the headers  *)
(* of the data sets in flash tells where the log ends: Datalogger_Init     *)
(* looks for that place.                                                   *)
(*                                                                         *)
(* The logger's functions run one after the other in the main loop; what   *)
(* interleaves with them is the chip, which copies a page in the           *)
(* background, a reset of the processor, which leaves the chip alone, and  *)
(* a loss of power.                                                        *)
(***************************************************************************)
EXTENDS Dataflash

CONSTANTS
    ROOM,      \* data sets in a page up to which the erased bytes behind them
               \* leave room: (528 - 255) / 20 = 13 in the program
    MAXSETS    \* bound: data sets ever added

ASSUME DataloggerAssumption == ROOM \in 0..(PER - 1) /\ MAXSETS \in Nat

VARIABLES
    DataloggerInitalized,
    DataPageAddress,     \* the page the buffer will be copied to
    DataSetAddress,      \* the slot of the next data set
    BufferInUse,         \* 0 before the first Datalogger_Init
    added                \* the data sets added so far: it names the next one

loggerVars == <<DataloggerInitalized, DataPageAddress, DataSetAddress, BufferInUse>>
vars       == <<flashVars, loggerVars, added>>

Init ==
    /\ FlashInit
    /\ DataloggerInitalized = FALSE
    /\ DataPageAddress = 0 /\ DataSetAddress = 0
    /\ BufferInUse = 0
    /\ added = 0

-----------------------------------------------------------------------------
(* Datalogger_FindLastDataSet.                                             *)

(* Where the headers of a page end.                                        *)
Headers(page) == Min({k \in Slots : NoDataSet(page, k)} \union {PER})

(* Mutant: the bytes at the end of the page are taken for room.            *)
LooksFullNoTail(page) ==
    LET k == Headers(page) IN k < PER /\ page.slot[k] = erased /\ k > ROOM

(* A page counts as full if the size read at that place leads out of it:   *)
(* the place is not a header, and the size is what the bytes there give.   *)
LooksFull(page) ==
    LET k == Headers(page) IN
    IF k = PER THEN page.tail # zero
               ELSE page.slot[k] = erased /\ k > ROOM

(* Mutant: the buffer that is not in use, and not the one used next.       *)
TempBufferOther == IF BufferInUse = 2 THEN 1 ELSE 2

TempBuffer == IF BufferInUse = 1 THEN 2 ELSE 1

(* What the scan sees of page p.  While the chip copies a page it ignores  *)
(* the first transfer, and the scan takes the old content of the buffer    *)
(* for page 0.                                                             *)
View(p) == IF p = 0 /\ copying # {} THEN buffer[TempBuffer] ELSE flash[p]

PageToLook == Min({p \in 0..(PAGES - 1) : ~LooksFull(View(p))} \union {PAGES})

(* Mutant: the buffer keeps the first page of the scan.                    *)
FirstViewed == View(0)

(* The page the scan leaves in the temporary buffer.                       *)
LastViewed == View(Min({PageToLook, PAGES - 1}))

(* The scan reports a full device when it stops in the last page; past the *)
(* last page it reports the page after it.                                 *)
ReportsFull == PageToLook = PAGES - 1
FoundSlot   == IF PageToLook = PAGES THEN 0 ELSE Headers(View(PageToLook))

-----------------------------------------------------------------------------
(* The functions of the logger.                                            *)

LogAt(page, slot) ==
    /\ DataPageAddress' = page
    /\ DataSetAddress' = slot
    /\ BufferInUse' = 1
    /\ DataloggerInitalized' = TRUE

(* Datalogger_Init without the option APPEND: start at the first page.     *)
InitOverwrite == LogAt(0, 0) /\ UNCHANGED <<flashVars, added>>

(* Datalogger_Init with the option APPEND.                                 *)
InitAppend(restartIfFull) ==
    /\ buffer' = [buffer EXCEPT ![TempBuffer] = LastViewed]
    /\ copying' = {}
    /\ CASE ~ReportsFull -> LogAt(PageToLook, FoundSlot)
         [] ReportsFull /\ restartIfFull -> LogAt(0, 0)
         [] OTHER -> /\ DataloggerInitalized' = FALSE
                     /\ UNCHANGED <<DataPageAddress, DataSetAddress, BufferInUse>>
    /\ UNCHANGED <<flash, added>>

(* Mutant: the buffers are counted on.                                     *)
OtherBufferNext(b) == b + 1

OtherBuffer(b) == IF b = 1 THEN 2 ELSE 1

PageAfter(p) == IF p + 1 >= PAGES THEN 0 ELSE p + 1

(* Datalogger_AddDataSet: the page is copied when no further data set fits *)
(* into it, and the other buffer is used from then on, as it is.           *)
AddDataSet ==
    /\ DataloggerInitalized
    /\ added < MAXSETS
    /\ added' = added + 1
    /\ LET page == BufferWrite(buffer[BufferInUse], DataSetAddress, added') IN
        /\ buffer' = [buffer EXCEPT ![BufferInUse] = page]
        /\ IF DataSetAddress + 1 >= PER
           THEN /\ CopyBufferToPage(page, DataPageAddress)
                /\ BufferInUse' = OtherBuffer(BufferInUse)
                /\ DataPageAddress' = PageAfter(DataPageAddress)
                /\ DataSetAddress' = 0
           ELSE /\ DataSetAddress' = DataSetAddress + 1
                /\ UNCHANGED <<flash, copying, BufferInUse, DataPageAddress>>
    /\ UNCHANGED DataloggerInitalized

(* Datalogger_SaveDataToFlash: the buffer is copied as it is, and the      *)
(* function waits for the chip.                                            *)
SaveDataToFlash ==
    /\ DataloggerInitalized
    /\ flash' = IF copying = {}
                THEN [flash EXCEPT ![Physical(DataPageAddress)] = buffer[BufferInUse]]
                ELSE flash
    /\ copying' = {}
    /\ UNCHANGED <<buffer, loggerVars, added>>

(* Datalogger_ReadBackData scans like FindLastDataSet, printing the data   *)
(* sets it finds; asked for n of them it may stop in any page.             *)
ReadBackData ==
    /\ \E p \in 0..Min({PageToLook, PAGES - 1}) :
        buffer' = [buffer EXCEPT ![TempBuffer] = View(p)]
    /\ copying' = {}
    /\ UNCHANGED <<flash, loggerVars, added>>

-----------------------------------------------------------------------------
ForgetPlace ==
    /\ DataloggerInitalized' = FALSE
    /\ DataPageAddress' = 0 /\ DataSetAddress' = 0
    /\ BufferInUse' = 0
    /\ UNCHANGED added

(* The processor is reset; the chip keeps its buffers and goes on copying. *)
Reset == ForgetPlace /\ UNCHANGED flashVars

PowerFail == ForgetPlace /\ FlashPowerFail

Next ==
    \/ InitOverwrite
    \/ \E restartIfFull \in BOOLEAN : InitAppend(restartIfFull)
    \/ AddDataSet
    \/ SaveDataToFlash
    \/ ReadBackData
    \/ CopyDone /\ UNCHANGED <<loggerVars, added>>
    \/ Reset
    \/ PowerFail

Spec == Init /\ [][Next]_vars

TypeOK ==
    /\ FlashTypeOK
    /\ DataloggerInitalized \in BOOLEAN
    /\ DataPageAddress \in 0..PAGES
    /\ DataSetAddress \in 0..PER
    /\ BufferInUse \in 0..2
    /\ DataloggerInitalized => BufferInUse # 0
    /\ added \in 0..MAXSETS

-----------------------------------------------------------------------------
(* What the header file says of two functions.                             *)

DataSetsOf(page) == {page.slot[k] : k \in {k \in Slots : ~NoDataSet(page, k)}}
DeviceFull == Cardinality(UNION {DataSetsOf(flash[p]) : p \in DOMAIN flash}) = PAGES * PER

(* "If the device is full, do not start collecting data" (datalogger.h,    *)
(* the option STOP_IF_FULL): when the flash is full of data sets,          *)
(* Datalogger_Init asked to append and to stop does not start the logger.  *)
StopsWhenFull ==
    [][DeviceFull /\ InitAppend(FALSE) => ~DataloggerInitalized']_vars

(* "Save a partial set of data to flash" (datalogger.h): behind the data   *)
(* sets of the page so far, Datalogger_SaveDataToFlash saves no data set   *)
(* that another page of the flash holds already.                           *)
SavesOnlyThePart ==
    [][SaveDataToFlash /\ copying = {}
            => LET page == Physical(DataPageAddress)
                   behind == {flash'[page].slot[k] : k \in DataSetAddress..(PER - 1)}
               IN  \A p \in DOMAIN flash \ {page} : behind \intersect DataSetsOf(flash[p]) = {}]_vars
=============================================================================
