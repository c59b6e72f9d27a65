-------------------------- MODULE DataloggerProofs --------------------------
(***************************************************************************)
(* The storage of the data logger: proofs of its type invariant, of what   *)
(* the log holds while nothing has spoiled it, and of the promise of       *)
(* RecordLog.                                                              *)
(***************************************************************************)
EXTENDS DataloggerLog, SequenceFacts

Pages == 0..(PAGES - 1)

LEMMA Sizes ==
    /\ PAGES \in Nat /\ PAGES > 1 /\ PAGES - 1 \in Nat
    /\ PER \in Nat /\ PER > 0 /\ PER - 1 \in Nat
    /\ ROOM \in Nat /\ ROOM < PER /\ MAXSETS \in Nat
BY DataflashAssumption, DataloggerAssumption

-----------------------------------------------------------------------------
(* The scans.                                                              *)

(* Looking for the first of the numbers below n that is in Q.              *)
LEMMA FirstOrNone ==
    ASSUME NEW n \in Nat, NEW Q \in SUBSET (0..(n - 1)),
           NEW m, m = Min(Q \union {n})
    PROVE  /\ m \in 0..n
           /\ \A k \in 0..(n - 1) : k < m => k \notin Q
           /\ m # n => m \in Q
<1>. DEFINE T == Q \union {n}
<1>1. T \in SUBSET Nat /\ T # {} /\ n \in T
  OBVIOUS
<1>2. m \in T /\ \A k \in T : m <= k
  <2>. HIDE DEF T
  <2>1. Min(T) \in T /\ \A k \in T : Min(T) <= k
    BY <1>1, LeastNumber
  <2>2. m = Min(T)
    BY DEF T
  <2>. QED
    BY <2>1, <2>2, Zenon
<1>3. m \in Nat /\ m <= n /\ (m # n => m \in Q)
  BY <1>1, <1>2
<1>4. \A k \in Q : m <= k
  BY <1>2
<1>. QED
  BY <1>3, <1>4

(* The headers of a page end at the first slot without one.                *)
LEMMA HeadersEnd ==
    ASSUME NEW page
    PROVE  /\ Headers(page) \in 0..PER
           /\ \A k \in Slots : k < Headers(page) => ~NoDataSet(page, k)
           /\ Headers(page) # PER =>
                Headers(page) \in Slots /\ NoDataSet(page, Headers(page))
<1>. DEFINE Q == {k \in Slots : NoDataSet(page, k)}
<1>1. Q \in SUBSET (0..(PER - 1))
  BY DEF Slots
<1>2. Headers(page) = Min(Q \union {PER})
  BY DEF Headers
<1>. HIDE DEF Q
<1>3. /\ Headers(page) \in 0..PER
      /\ \A k \in 0..(PER - 1) : k < Headers(page) => k \notin Q
      /\ Headers(page) # PER => Headers(page) \in Q
  <2>1. PER \in Nat
    BY Sizes
  <2>. QED
    BY <1>1, <1>2, <2>1, FirstOrNone, Zenon
<1>. QED
  BY <1>3 DEF Q, Slots

LEMMA HeadersAre ==
    ASSUME NEW page, NEW h \in 0..PER,
           \A k \in Slots : k < h => ~NoDataSet(page, k),
           h # PER => NoDataSet(page, h)
    PROVE  Headers(page) = h
<1>. PER \in Nat
  BY Sizes
<1>1. Headers(page) \in 0..PER
  BY HeadersEnd
<1>2. ~(Headers(page) < h)
  <2>. SUFFICES ASSUME Headers(page) < h PROVE FALSE
    OBVIOUS
  <2>1. Headers(page) # PER
    BY <1>1
  <2>. QED
    BY <2>1, HeadersEnd
<1>3. ~(h < Headers(page))
  <2>. SUFFICES ASSUME h < Headers(page) PROVE FALSE
    OBVIOUS
  <2>1. h # PER /\ h \in Slots
    BY <1>1 DEF Slots
  <2>. QED
    BY <2>1, HeadersEnd
<1>. QED
  BY <1>1, <1>2, <1>3

(* The scan stops at the first page that does not look full.               *)
LEMMA ScanStops ==
    /\ PageToLook \in 0..PAGES
    /\ \A p \in Pages : p < PageToLook => LooksFull(View(p))
    /\ PageToLook # PAGES => PageToLook \in Pages /\ ~LooksFull(View(PageToLook))
<1>. DEFINE Q == {p \in 0..(PAGES - 1) : ~LooksFull(View(p))}
<1>1. Q \in SUBSET (0..(PAGES - 1))
  OBVIOUS
<1>2. PageToLook = Min(Q \union {PAGES})
  BY DEF PageToLook
<1>. HIDE DEF Q
<1>3. /\ PageToLook \in 0..PAGES
      /\ \A k \in 0..(PAGES - 1) : k < PageToLook => k \notin Q
      /\ PageToLook # PAGES => PageToLook \in Q
  <2>1. PAGES \in Nat
    BY Sizes
  <2>. QED
    BY <1>1, <1>2, <2>1, FirstOrNone, Zenon
<1>. QED
  BY <1>3 DEF Q, Pages

LEMMA MinOfTwo ==
    ASSUME NEW a \in Nat, NEW b \in Nat
    PROVE  Min({a, b}) = IF a <= b THEN a ELSE b
<1>1. {a, b} \in SUBSET Nat /\ {a, b} # {}
  OBVIOUS
<1>2. Min({a, b}) \in {a, b} /\ \A k \in {a, b} : Min({a, b}) <= k
  BY <1>1, LeastNumber
<1>. QED
  BY <1>2

(* The page in the temporary buffer is one the scan looked at.             *)
LEMMA LastViewedPage ==
    LET p == Min({PageToLook, PAGES - 1})
    IN  p \in Pages /\ p <= PageToLook /\ (PageToLook # PAGES => p = PageToLook)
<1>1. PageToLook \in 0..PAGES /\ PAGES - 1 \in Nat
  BY ScanStops, Sizes
<1>2. Min({PageToLook, PAGES - 1}) = IF PageToLook <= PAGES - 1 THEN PageToLook ELSE PAGES - 1
  BY <1>1, MinOfTwo
<1>. QED
  BY <1>1, <1>2, Sizes DEF Pages

-----------------------------------------------------------------------------
(* Types.                                                                  *)

Buffers == 1..2

LEMMA BuffersAre == 1 \in Buffers /\ 2 \in Buffers /\ \A b \in Buffers : b = 1 \/ b = 2
BY DEF Buffers

(* The type invariant in terms of the named sets.                          *)
Typed ==
    /\ flash \in [Pages -> Page] /\ buffer \in [Buffers -> Page]
    /\ copying = {} \/ \E p \in Pages : copying = {p}
    /\ DataloggerInitalized \in BOOLEAN
    /\ DataPageAddress \in 0..PAGES /\ DataSetAddress \in 0..PER
    /\ BufferInUse = 0 \/ BufferInUse \in Buffers
    /\ DataloggerInitalized => BufferInUse \in Buffers
    /\ added \in 0..MAXSETS

LEMMA TypeParts == TypeOK <=> Typed
<1>1. copying \in {{}} \union {{p} : p \in 0..(PAGES - 1)}
        <=> copying = {} \/ \E p \in Pages : copying = {p}
  BY Zenon DEF Pages
<1>2. BufferInUse \in 0..2 <=> BufferInUse = 0 \/ BufferInUse \in Buffers
  BY DEF Buffers
<1>3. BufferInUse \in 0..2 => (BufferInUse # 0 <=> BufferInUse \in Buffers)
  BY DEF Buffers
<1>4. FlashTypeOK <=> /\ flash \in [Pages -> Page] /\ buffer \in [Buffers -> Page]
                      /\ copying = {} \/ \E p \in Pages : copying = {p}
  BY <1>1, Zenon DEF FlashTypeOK, Pages, Buffers
<1>. QED
  BY <1>2, <1>3, <1>4, Zenon DEF TypeOK, Typed

LEMMA BlankPage == \A j \in Junk : Blank(j) \in Page
BY DEF Blank, Page

LEMMA PowerUpPage ==
    ASSUME NEW b, b \in [1..2 -> {Blank(j) : j \in PowerUp}]
    PROVE  b \in [Buffers -> Page]
<1>1. {Blank(j) : j \in PowerUp} \subseteq Page
  BY BlankPage, DataflashAssumption, Zenon
<1>. QED
  BY <1>1, Zenon DEF Buffers

LEMMA WrittenPage ==
    ASSUME NEW page \in Page, NEW k \in 0..PER, NEW d \in DataSet
    PROVE  BufferWrite(page, k, d) \in Page
<1>1. CASE k < PER
  <2>1. k \in Slots
    BY <1>1, Sizes DEF Slots
  <2>2. BufferWrite(page, k, d) = [page EXCEPT !.slot[k] = d]
    BY <1>1 DEF BufferWrite
  <2>. QED
    BY <2>1, <2>2 DEF Page
<1>2. CASE ~(k < PER)
  <2>1. BufferWrite(page, k, d) = [page EXCEPT !.slot[0] = zero, !.tail = "header"]
    BY <1>2 DEF BufferWrite
  <2>. QED
    BY <2>1 DEF Page, Junk
<1>. QED
  BY <1>1, <1>2

LEMMA ViewType ==
    ASSUME Typed, NEW p \in Pages
    PROVE  View(p) \in Page
<1>1. TempBuffer \in Buffers
  BY BuffersAre DEF TempBuffer
<1>. QED
  BY <1>1 DEF View, Typed

LEMMA FoundType == FoundSlot \in 0..PER
BY HeadersEnd, Sizes DEF FoundSlot

LEMMA PageAfterType ==
    ASSUME NEW p \in 0..PAGES
    PROVE  PageAfter(p) \in Pages
BY Sizes DEF PageAfter, Pages

LEMMA PhysicalType ==
    ASSUME NEW p \in 0..PAGES
    PROVE  Physical(p) \in Pages /\ (p # PAGES => Physical(p) = p)
BY Sizes DEF Physical, Pages

-----------------------------------------------------------------------------
(* Type correctness, one lemma per action that does more than one thing.   *)

LEMMA Zeros == 0 \in 0..PAGES /\ 0 \in 0..PER /\ 0 \in 0..MAXSETS
BY Sizes

LEMMA TypeInit == Init => Typed
<1>. SUFFICES ASSUME Init PROVE Typed
  OBVIOUS
<1>1. Erased \in Page
  BY BlankPage DEF Erased, Junk
<1>2. flash \in [Pages -> Page]
  BY <1>1, Zenon DEF Init, FlashInit, Pages
<1>3. buffer \in [Buffers -> Page]
  BY PowerUpPage, Zenon DEF Init, FlashInit
<1>. QED
  BY <1>2, <1>3, Zeros, Zenon DEF Init, FlashInit, Typed

LEMMA TypeInitAppend ==
    ASSUME Typed, NEW restart \in BOOLEAN, InitAppend(restart)
    PROVE  Typed'
<1>1. LastViewed \in Page
  BY LastViewedPage, ViewType, Zenon DEF LastViewed
<1>2. TempBuffer \in Buffers
  BY BuffersAre DEF TempBuffer
<1>3. buffer' \in [Buffers -> Page]
  <2>1. buffer' = [buffer EXCEPT ![TempBuffer] = LastViewed] /\ buffer \in [Buffers -> Page]
    BY DEF InitAppend, Typed
  <2>. QED
    BY <1>1, <1>2, <2>1
<1>4. flash' = flash /\ copying' = {} /\ added' = added
  BY DEF InitAppend
<1>5. \/ LogAt(PageToLook, FoundSlot)
      \/ LogAt(0, 0)
      \/ /\ DataloggerInitalized' = FALSE
         /\ UNCHANGED <<DataPageAddress, DataSetAddress, BufferInUse>>
  BY Zenon DEF InitAppend
<1>6. PageToLook \in 0..PAGES /\ FoundSlot \in 0..PER /\ 0 \in 0..PAGES /\ 0 \in 0..PER
  BY ScanStops, FoundType, Sizes
<1>7. \/ /\ DataloggerInitalized' = TRUE /\ BufferInUse' = 1
         /\ DataPageAddress' \in 0..PAGES /\ DataSetAddress' \in 0..PER
      \/ /\ DataloggerInitalized' = FALSE
         /\ UNCHANGED <<DataPageAddress, DataSetAddress, BufferInUse>>
  BY <1>5, <1>6, Zenon DEF LogAt
<1>. QED
  BY <1>3, <1>4, <1>7, BuffersAre DEF Typed

LEMMA TypeAdd ==
    ASSUME Typed, AddDataSet
    PROVE  Typed'
<1>. DEFINE b == BufferInUse
            page == BufferWrite(buffer[b], DataSetAddress, added + 1)
<1>1. b \in Buffers /\ buffer[b] \in Page /\ added + 1 \in DataSet /\ added + 1 \in 0..MAXSETS
  BY Sizes DEF Typed, AddDataSet, DataSet
<1>2. page \in Page
  BY <1>1, WrittenPage, Zenon DEF Typed
<1>3. added' = added + 1 /\ DataloggerInitalized' = DataloggerInitalized
  BY DEF AddDataSet
<1>4. buffer' = [buffer EXCEPT ![b] = page]
  BY DEF AddDataSet
<1>5. buffer' \in [Buffers -> Page]
  <2>1. buffer \in [Buffers -> Page]
    BY DEF Typed
  <2>. HIDE DEF page
  <2>. QED
    BY <1>1, <1>2, <1>4, <2>1
<1>6. CASE DataSetAddress + 1 >= PER
  <2>1. /\ CopyBufferToPage(page, DataPageAddress)
        /\ BufferInUse' = OtherBuffer(b)
        /\ DataPageAddress' = PageAfter(DataPageAddress)
        /\ DataSetAddress' = 0
    BY <1>3, <1>6 DEF AddDataSet
  <2>. HIDE DEF page
  <2>2. Physical(DataPageAddress) \in Pages
    BY PhysicalType, Zenon DEF Typed
  <2>3. flash' \in [Pages -> Page] /\ (copying' = {} \/ \E p \in Pages : copying' = {p})
    <3>1. CASE copying = {}
      <4>1. /\ flash' = [flash EXCEPT ![Physical(DataPageAddress)] = page]
            /\ copying' = {Physical(DataPageAddress)}
        BY <2>1, <3>1 DEF CopyBufferToPage
      <4>2. flash' \in [Pages -> Page]
        BY <1>2, <2>2, <4>1 DEF Typed
      <4>. QED
        BY <2>2, <4>1, <4>2, Zenon
    <3>2. CASE copying # {}
      BY <2>1, <3>2 DEF CopyBufferToPage, Typed
    <3>. QED
      BY <3>1, <3>2
  <2>4. OtherBuffer(b) \in Buffers
    BY BuffersAre DEF OtherBuffer
  <2>5. PageAfter(DataPageAddress) \in 0..PAGES
    BY PageAfterType, Sizes DEF Pages, Typed
  <2>6. 0 \in 0..PER
    BY Sizes
  <2>. QED
    BY <1>1, <1>3, <1>5, <2>1, <2>3, <2>4, <2>5, <2>6, Zenon DEF Typed
<1>7. CASE ~(DataSetAddress + 1 >= PER)
  <2>1. /\ DataSetAddress' = DataSetAddress + 1
        /\ UNCHANGED <<flash, copying, BufferInUse, DataPageAddress>>
    BY <1>7 DEF AddDataSet
  <2>2. DataSetAddress + 1 \in 0..PER
    BY <1>7, Sizes DEF Typed
  <2>. HIDE DEF page
  <2>. QED
    BY <1>1, <1>3, <1>5, <2>1, <2>2, Zenon DEF Typed
<1>. QED
  BY <1>6, <1>7

LEMMA TypeSave ==
    ASSUME Typed, SaveDataToFlash
    PROVE  Typed'
<1>1. Physical(DataPageAddress) \in Pages /\ buffer[BufferInUse] \in Page
  BY PhysicalType DEF Typed, SaveDataToFlash
<1>2. flash' \in [Pages -> Page]
  BY <1>1 DEF Typed, SaveDataToFlash
<1>. QED
  BY <1>2 DEF Typed, SaveDataToFlash, loggerVars

LEMMA TypeRead ==
    ASSUME Typed, ReadBackData
    PROVE  Typed'
<1>. DEFINE last == Min({PageToLook, PAGES - 1})
<1>1. PICK p \in 0..last : buffer' = [buffer EXCEPT ![TempBuffer] = View(p)]
  BY DEF ReadBackData
<1>2. last \in Pages
  BY LastViewedPage, Zenon
<1>. HIDE DEF last
<1>3. p \in Pages
  BY <1>2, Sizes DEF Pages
<1>4. View(p) \in Page
  BY <1>3, ViewType, Zenon
<1>5. TempBuffer \in Buffers
  BY BuffersAre DEF TempBuffer
<1>6. buffer' \in [Buffers -> Page]
  BY <1>1, <1>4, <1>5 DEF Typed
<1>. QED
  BY <1>6 DEF Typed, ReadBackData, loggerVars

LEMMA TypePowerFail ==
    ASSUME Typed, PowerFail
    PROVE  Typed'
<1>1. Erased \in Page
  BY BlankPage DEF Erased, Junk
<1>2. flash' \in [Pages -> Page]
  BY <1>1 DEF Typed, PowerFail, FlashPowerFail
<1>3. buffer' \in [Buffers -> Page]
  BY PowerUpPage, Zenon DEF PowerFail, FlashPowerFail
<1>. QED
  BY <1>2, <1>3, Zeros, Zenon DEF Typed, PowerFail, FlashPowerFail, ForgetPlace

LEMMA TypeStep == Typed /\ [Next]_vars => Typed'
<1>. SUFFICES ASSUME Typed, [Next]_vars PROVE Typed'
  OBVIOUS
<1>1. CASE InitOverwrite
  BY <1>1, BuffersAre, Sizes DEF InitOverwrite, LogAt, Typed, flashVars
<1>2. CASE \E restartIfFull \in BOOLEAN : InitAppend(restartIfFull)
  BY <1>2, TypeInitAppend, Zenon
<1>3. CASE AddDataSet
  BY <1>3, TypeAdd, Zenon
<1>4. CASE SaveDataToFlash
  BY <1>4, TypeSave, Zenon
<1>5. CASE ReadBackData
  BY <1>5, TypeRead, Zenon
<1>6. CASE CopyDone /\ UNCHANGED <<loggerVars, added>>
  BY <1>6 DEF CopyDone, loggerVars, Typed
<1>7. CASE Reset
  BY <1>7, Zeros, Zenon DEF Reset, ForgetPlace, flashVars, Typed
<1>8. CASE PowerFail
  BY <1>8, TypePowerFail, Zenon
<1>9. CASE UNCHANGED vars
  BY <1>9 DEF vars, flashVars, loggerVars, Typed
<1>. QED
  BY <1>1, <1>2, <1>3, <1>4, <1>5, <1>6, <1>7, <1>8, <1>9, Zenon DEF Next

(* The type invariant of the logger and of the chip holds in every state:  *)
(* the scan, the writes at the end of a page and the lost copies leave the *)
(* page, the slot and the buffer in use in their ranges, for every number  *)
(* of pages and of data sets in a page.                                    *)
THEOREM TypeCorrect == Spec => []TypeOK
<1>1. Spec => []Typed
  BY TypeInit, TypeStep, PTL DEF Spec
<1>. QED
  BY <1>1, TypeParts, PTL

-----------------------------------------------------------------------------
(* While the log is not spoiled: what the pages hold, and how the place    *)
(* and the buffer the logger goes on with fit to them.                     *)

(* A page: data sets in order up to where its headers end, none behind,    *)
(* and a full page looks full.                                             *)
PageRight(page, n) ==
    /\ \A k \in Slots : k >= Headers(page) => NoDataSet(page, k)
    /\ Headers(page) = PER => page.tail # zero
    /\ \A k \in Slots : k < Headers(page) => page.slot[k] <= n
    /\ \A j, k \in Slots : j < k /\ k < Headers(page) => page.slot[j] < page.slot[k]

(* The data sets of a page are older than those in the first s slots of b. *)
Before(page, b, s) ==
    \A j, k \in Slots : j < Headers(page) /\ k < s => page.slot[j] < b.slot[k]

(* The pages: in order, and nothing behind a page with room.               *)
FlashRight(fl, n) ==
    /\ \A p \in Pages : PageRight(fl[p], n)
    /\ \A p, q \in Pages : p < q => Before(fl[p], fl[q], Headers(fl[q]))
    /\ \A p, q \in Pages : p < q /\ ~LooksFull(fl[p]) => Headers(fl[q]) = 0

(* The logger at slot s of page p, with the buffer b: the pages in front   *)
(* are full, those behind are empty, the buffer holds what is in the page  *)
(* and, up to the slot, newer data sets in order.                          *)
WriterRight(fl, p, s, b, n) ==
    /\ p \in Pages /\ s \in 0..PER
    /\ \A q \in Pages : q < p => LooksFull(fl[q]) /\ Before(fl[q], b, s)
    /\ \A q \in Pages : q > p => Headers(fl[q]) = 0
    /\ Headers(fl[p]) <= s
    /\ \A k \in Slots : k < Headers(fl[p]) => b.slot[k] = fl[p].slot[k]
    /\ \A k \in Slots : k < s => b.slot[k] \in DataSet /\ b.slot[k] <= n
    /\ \A j, k \in Slots : j < k /\ k < s => b.slot[j] < b.slot[k]

(* The logger found the device full and did not start.                     *)
StoppedRight ==
    copying = {} /\ \A p \in Pages : p # PAGES - 1 => LooksFull(flash[p])

LogRight ==
    /\ FlashRight(flash, added)
    /\ DataloggerInitalized =>
         /\ WriterRight(flash, DataPageAddress, DataSetAddress, buffer[BufferInUse], added)
         /\ DataSetAddress # PER
    /\ ~DataloggerInitalized /\ BufferInUse # 0 => StoppedRight

LogInv == Typed /\ (~spoiled => LogRight)

-----------------------------------------------------------------------------
(* Pages and buffers, without the rest of the state.                       *)

LEMMA SlotHolds ==
    ASSUME NEW page \in Page, NEW k \in Slots
    PROVE  NoDataSet(page, k) <=> page.slot[k] \notin DataSet
BY DataflashAssumption DEF Page, NoDataSet, DataSet

LEMMA HeaderSlots ==
    ASSUME NEW page \in Page, NEW k \in Slots, k < Headers(page)
    PROVE  page.slot[k] \in DataSet
BY SlotHolds, HeadersEnd

LEMMA EmptyLooksFull ==
    ASSUME NEW page, Headers(page) = 0
    PROVE  ~LooksFull(page)
BY Sizes DEF LooksFull

LEMMA FullLooksFull ==
    ASSUME NEW page, Headers(page) = PER, page.tail # zero
    PROVE  LooksFull(page)
BY DEF LooksFull

LEMMA WrittenSlots ==
    ASSUME NEW b \in Page, NEW s \in Slots, NEW d \in DataSet,
           NEW w, w = BufferWrite(b, s, d)
    PROVE  /\ w.slot[s] = d /\ w.tail = b.tail
           /\ \A k \in Slots : k # s => w.slot[k] = b.slot[k]
<1>1. s < PER
  BY Sizes DEF Slots
<1>. QED
  BY <1>1 DEF BufferWrite, Page

LEMMA FlashLater ==
    ASSUME NEW fl \in [Pages -> Page], NEW n \in Nat, FlashRight(fl, n)
    PROVE  FlashRight(fl, n + 1)
<1>1. ASSUME NEW p \in Pages PROVE PageRight(fl[p], n + 1)
  <2>1. PageRight(fl[p], n) /\ fl[p] \in Page
    BY DEF FlashRight
  <2>2. ASSUME NEW k \in Slots, k < Headers(fl[p]) PROVE fl[p].slot[k] <= n + 1
    <3>1. fl[p].slot[k] \in DataSet /\ fl[p].slot[k] <= n
      BY <2>1, <2>2, HeaderSlots DEF PageRight
    <3>. QED
      BY <3>1 DEF DataSet
  <2>. QED
    BY <2>1, <2>2 DEF PageRight
<1>. QED
  BY <1>1, Zenon DEF FlashRight

(* A data set is added to the buffer.                                      *)
LEMMA WriterAdds ==
    ASSUME NEW fl \in [Pages -> Page], NEW n \in Nat, NEW p, NEW s \in Slots,
           NEW b \in Page, WriterRight(fl, p, s, b, n), FlashRight(fl, n),
           NEW w, w = BufferWrite(b, s, n + 1)
    PROVE  WriterRight(fl, p, s + 1, w, n + 1)
<1>1. /\ w.slot[s] = n + 1
      /\ \A k \in Slots : k # s => w.slot[k] = b.slot[k]
  BY WrittenSlots DEF DataSet
<1>2. p \in Pages /\ s + 1 \in 0..PER /\ PER \in Nat /\ s \in Nat
  BY Sizes DEF WriterRight, Slots
<1>3. ASSUME NEW q \in Pages, q < p PROVE Before(fl[q], w, s + 1)
  <2>. SUFFICES ASSUME NEW j \in Slots, NEW k \in Slots, j < Headers(fl[q]), k < s + 1
                PROVE  fl[q].slot[j] < w.slot[k]
    BY Zenon DEF Before
  <2>1. fl[q].slot[j] \in DataSet
    BY HeaderSlots
  <2>2. CASE k = s
    <3>1. fl[q].slot[j] <= n
      BY DEF FlashRight, PageRight
    <3>. QED
      BY <1>1, <2>1, <2>2, <3>1 DEF DataSet
  <2>3. CASE k # s
    <3>1. k < s
      BY <2>3 DEF Slots
    <3>2. fl[q].slot[j] < b.slot[k]
      BY <1>3, <3>1, Zenon DEF WriterRight, Before
    <3>. QED
      BY <1>1, <2>3, <3>2
  <2>. QED
    BY <2>2, <2>3
<1>4. Headers(fl[p]) \in 0..PER /\ Headers(fl[p]) <= s
  BY HeadersEnd, Zenon DEF WriterRight
<1>5. ASSUME NEW k \in Slots, k < Headers(fl[p]) PROVE w.slot[k] = fl[p].slot[k]
  <2>1. k # s
    BY <1>4, <1>5 DEF Slots
  <2>. QED
    BY <1>1, <1>5, <2>1, Zenon DEF WriterRight
<1>6. ASSUME NEW k \in Slots, k < s + 1 PROVE w.slot[k] \in DataSet /\ w.slot[k] <= n + 1
  <2>1. CASE k = s
    BY <1>1, <2>1 DEF DataSet
  <2>2. CASE k # s
    <3>1. k < s
      BY <1>6, <2>2 DEF Slots
    <3>2. b.slot[k] \in DataSet /\ b.slot[k] <= n
      BY <3>1, Zenon DEF WriterRight
    <3>. QED
      BY <1>1, <2>2, <3>2 DEF DataSet
  <2>. QED
    BY <2>1, <2>2
<1>7. ASSUME NEW j \in Slots, NEW k \in Slots, j < k, k < s + 1
      PROVE  w.slot[j] < w.slot[k]
  <2>1. j < s /\ j # s
    BY <1>7 DEF Slots
  <2>2. b.slot[j] \in DataSet /\ b.slot[j] <= n
    BY <2>1, Zenon DEF WriterRight
  <2>3. CASE k = s
    BY <1>1, <2>1, <2>2, <2>3 DEF DataSet
  <2>4. CASE k # s
    <3>1. k < s
      BY <1>7, <2>4 DEF Slots
    <3>2. b.slot[j] < b.slot[k]
      BY <1>7, <3>1, Zenon DEF WriterRight
    <3>. QED
      BY <1>1, <2>1, <2>4, <3>2
  <2>. QED
    BY <2>3, <2>4
<1>8. Headers(fl[p]) <= s + 1
  BY <1>2, <1>4
<1>. QED
  BY <1>2, <1>3, <1>5, <1>6, <1>7, <1>8, Zenon DEF WriterRight

(* Of the buffer only the slots up to that of the next data set are copied *)
(* that matter: it is saved when no older data set is behind them.         *)
SavedRight(b, s) ==
    /\ \A k \in Slots : k >= s => NoDataSet(b, k)
    /\ s = PER => b.tail # zero

LEMMA SavedHeaders ==
    ASSUME NEW fl, NEW n, NEW p, NEW s, NEW b \in Page,
           WriterRight(fl, p, s, b, n), SavedRight(b, s)
    PROVE  Headers(b) = s
<1>1. s \in 0..PER /\ (s # PER => s \in Slots)
  BY Sizes DEF WriterRight, Slots
<1>2. \A k \in Slots : k < s => ~NoDataSet(b, k)
  BY SlotHolds DEF WriterRight
<1>3. s # PER => NoDataSet(b, s)
  BY <1>1 DEF SavedRight
<1>. QED
  BY <1>1, <1>2, <1>3, HeadersAre

(* The buffer is copied to its page.                                       *)
LEMMA PageSaved ==
    ASSUME NEW fl \in [Pages -> Page], NEW n \in Nat, NEW p, NEW s, NEW b \in Page,
           FlashRight(fl, n), WriterRight(fl, p, s, b, n), SavedRight(b, s),
           NEW gl, gl = [fl EXCEPT ![p] = b]
    PROVE  FlashRight(gl, n)
<1>1. /\ p \in Pages /\ gl[p] = b
      /\ \A q \in Pages : q # p => gl[q] = fl[q]
  BY DEF WriterRight
<1>2. Headers(b) = s /\ s \in Nat
  <2>1. Headers(b) = s
    BY SavedHeaders, Zenon
  <2>. QED
    BY <2>1, HeadersEnd, Sizes
<1>3. PageRight(b, n)
  BY <1>2 DEF WriterRight, SavedRight, PageRight
<1>4. ASSUME NEW q \in Pages PROVE PageRight(gl[q], n)
  BY <1>1, <1>3 DEF FlashRight
<1>5. ASSUME NEW q \in Pages, q > p PROVE Headers(gl[q]) = 0
  BY <1>1, <1>5 DEF WriterRight, Pages
<1>6. ASSUME NEW q \in Pages, NEW r \in Pages, q < r
      PROVE  Before(gl[q], gl[r], Headers(gl[r]))
  <2>1. CASE q = p \/ r > p
    <3>1. Headers(gl[r]) = 0
      BY <1>5, <1>6, <2>1
    <3>. QED
      BY <3>1 DEF Before, Slots
  <2>2. CASE r = p
    <3>1. gl[r] = b /\ gl[q] = fl[q]
      BY <1>1, <1>6, <2>2 DEF Pages
    <3>2. Before(fl[q], b, s)
      BY <1>6, <2>2, Zenon DEF WriterRight
    <3>. QED
      BY <1>2, <3>1, <3>2
  <2>3. CASE q # p /\ r # p
    <3>1. gl[q] = fl[q] /\ gl[r] = fl[r]
      BY <1>1, <2>3
    <3>. QED
      BY <1>6, <3>1, Zenon DEF FlashRight
  <2>. QED
    BY <2>1, <2>2, <2>3
<1>7. ASSUME NEW q \in Pages, NEW r \in Pages, q < r, ~LooksFull(gl[q])
      PROVE  Headers(gl[r]) = 0
  <2>1. CASE q < p
    <3>1. gl[q] = fl[q]
      BY <1>1, <2>1 DEF Pages
    <3>2. LooksFull(fl[q])
      BY <2>1, Zenon DEF WriterRight
    <3>. QED
      BY <1>7, <3>1, <3>2
  <2>2. CASE ~(q < p)
    BY <1>1, <1>5, <1>7, <2>2 DEF Pages
  <2>. QED
    BY <2>1, <2>2
<1>. QED
  BY <1>4, <1>6, <1>7, Zenon DEF FlashRight

(* After the copy of a page that is not full the logger stays in its place.*)
LEMMA WriterStays ==
    ASSUME NEW fl \in [Pages -> Page], NEW n \in Nat, NEW p, NEW s, NEW b \in Page,
           WriterRight(fl, p, s, b, n), SavedRight(b, s),
           NEW gl, gl = [fl EXCEPT ![p] = b]
    PROVE  WriterRight(gl, p, s, b, n)
<1>1. /\ p \in Pages /\ gl[p] = b
      /\ \A q \in Pages : q # p => gl[q] = fl[q]
  BY DEF WriterRight
<1>2. Headers(b) = s /\ s <= s
  <2>1. Headers(b) = s
    BY SavedHeaders, Zenon
  <2>. QED
    BY <2>1, HeadersEnd, Sizes
<1>3. \A q \in Pages : (q < p => q # p) /\ (q > p => q # p)
  BY <1>1 DEF Pages
<1>4. /\ \A q \in Pages : q < p => gl[q] = fl[q]
      /\ \A q \in Pages : q > p => gl[q] = fl[q]
  BY <1>1, <1>3
<1>5. /\ \A q \in Pages : q < p => LooksFull(gl[q]) /\ Before(gl[q], b, s)
      /\ \A q \in Pages : q > p => Headers(gl[q]) = 0
  BY <1>4, Zenon DEF WriterRight
<1>. QED
  BY <1>1, <1>2, <1>5, Zenon DEF WriterRight

(* After the copy of a full page it  starts the next one, with any buffer. *)
LEMMA WriterTurns ==
    ASSUME NEW fl \in [Pages -> Page], NEW n \in Nat, NEW p, NEW b \in Page,
           WriterRight(fl, p, PER, b, n), SavedRight(b, PER), p + 1 \in Pages,
           NEW gl, gl = [fl EXCEPT ![p] = b], NEW c
    PROVE  WriterRight(gl, p + 1, 0, c, n)
<1>1. /\ p \in Pages /\ gl[p] = b
      /\ \A q \in Pages : q # p => gl[q] = fl[q]
  BY DEF WriterRight
<1>2. LooksFull(b)
  BY SavedHeaders, FullLooksFull DEF SavedRight
<1>3. ASSUME NEW q \in Pages, q < p + 1 PROVE LooksFull(gl[q]) /\ Before(gl[q], c, 0)
  <2>1. CASE q = p
    BY <1>1, <1>2, <2>1 DEF Before, Slots
  <2>2. CASE q # p
    <3>1. q < p
      BY <1>1, <1>3, <2>2 DEF Pages
    <3>2. LooksFull(gl[q])
      BY <1>1, <2>2, <3>1 DEF WriterRight
    <3>. QED
      BY <3>2 DEF Before, Slots
  <2>. QED
    BY <2>1, <2>2
<1>4. ASSUME NEW q \in Pages, q >= p + 1 PROVE Headers(gl[q]) = 0
  <2>1. q # p /\ q > p
    BY <1>1, <1>4 DEF Pages
  <2>. QED
    BY <1>1, <2>1 DEF WriterRight
<1>5. /\ \A q \in Pages : q > p + 1 => Headers(gl[q]) = 0
      /\ Headers(gl[p + 1]) = 0
  BY <1>1, <1>4 DEF Pages
<1>. QED
  BY <1>3, <1>5, Sizes DEF WriterRight, Slots

(* The logger starts where a scan found the first page that does not look  *)
(* full.                                                                   *)
LEMMA WriterFinds ==
    ASSUME NEW fl \in [Pages -> Page], NEW n \in Nat, FlashRight(fl, n),
           NEW p \in Pages, ~LooksFull(fl[p]), \A q \in Pages : q < p => LooksFull(fl[q]),
           NEW b, \A k \in Slots : k < Headers(fl[p]) => b.slot[k] = fl[p].slot[k]
    PROVE  /\ WriterRight(fl, p, Headers(fl[p]), b, n)
           /\ Headers(fl[p]) # PER
<1>. DEFINE s == Headers(fl[p])
<1>1. s \in 0..PER /\ s <= s
  BY HeadersEnd, Sizes
<1>2. s # PER
  BY FullLooksFull DEF FlashRight, PageRight
<1>3. ASSUME NEW k \in Slots, k < s
      PROVE  /\ b.slot[k] = fl[p].slot[k]
             /\ b.slot[k] \in DataSet /\ b.slot[k] <= n
  BY <1>3, HeaderSlots DEF FlashRight, PageRight
<1>4. ASSUME NEW q \in Pages, q < p PROVE LooksFull(fl[q]) /\ Before(fl[q], b, s)
  <2>1. Before(fl[q], fl[p], s)
    BY <1>4, Zenon DEF FlashRight
  <2>. QED
    BY <1>3, <1>4, <2>1 DEF Before
<1>5. ASSUME NEW q \in Pages, q > p PROVE Headers(fl[q]) = 0
  BY <1>5 DEF FlashRight, Pages
<1>6. ASSUME NEW j \in Slots, NEW k \in Slots, j < k, k < s PROVE b.slot[j] < b.slot[k]
  <2>1. j < s
    BY <1>1, <1>6 DEF Slots
  <2>2. fl[p].slot[j] < fl[p].slot[k]
    BY <1>6 DEF FlashRight, PageRight
  <2>. QED
    BY <1>3, <1>6, <2>1, <2>2
<1>. HIDE DEF s
<1>7. WriterRight(fl, p, s, b, n)
  BY <1>1, <1>3, <1>4, <1>5, <1>6, Zenon DEF WriterRight, s
<1>. QED
  BY <1>2, <1>7 DEF s

-----------------------------------------------------------------------------
(* The log is right after every step that does not spoil it.               *)

LEMMA LogInit == HInit => LogInv
<1>. SUFFICES ASSUME HInit PROVE LogInv
  OBVIOUS
<1>1. Typed
  BY TypeInit DEF HInit
<1>2. \A k \in Slots : NoDataSet(Erased, k)
  BY DEF Erased, Blank, NoDataSet, Junk
<1>3. Headers(Erased) = 0
  BY <1>2, HeadersAre, Sizes DEF Slots
<1>4. \A p \in Pages : flash[p] = Erased
  BY DEF HInit, Init, FlashInit, Pages
<1>5. PageRight(Erased, added)
  BY <1>2, <1>3, Sizes DEF PageRight, Slots
<1>6. Before(Erased, Erased, 0)
  BY DEF Before, Slots
<1>7. FlashRight(flash, added)
  BY <1>3, <1>4, <1>5, <1>6 DEF FlashRight
<1>. QED
  BY <1>1, <1>7 DEF LogInv, LogRight, HInit, Init

LEMMA LogOverwrite ==
    ASSUME Typed, LogRight, InitOverwrite, ~AnyDataSet
    PROVE  LogRight'
<1>1. ASSUME NEW p \in Pages PROVE Headers(flash[p]) = 0
  <2>1. DataSetsOf(flash[p]) = {}
    BY DEF AnyDataSet, Typed
  <2>2. 0 \in Slots
    BY Sizes DEF Slots
  <2>3. NoDataSet(flash[p], 0)
    BY <2>1, <2>2 DEF DataSetsOf
  <2>. QED
    BY <2>2, <2>3, HeadersEnd, Sizes
<1>2. 0 \in Pages /\ \A q \in Pages : ~(q < 0)
  BY Sizes DEF Pages
<1>3. /\ flash \in [Pages -> Page] /\ added \in Nat /\ FlashRight(flash, added)
      /\ ~LooksFull(flash[0])
  BY <1>1, <1>2, EmptyLooksFull, Sizes DEF Typed, LogRight
<1>4. \A k \in Slots : ~(k < 0)
  BY DEF Slots
<1>. DEFINE b == buffer[1]
<1>5. WriterRight(flash, 0, Headers(flash[0]), b, added)
  <2>1. \A k \in Slots : k < Headers(flash[0]) => b.slot[k] = flash[0].slot[k]
    BY <1>1, <1>2, <1>4
  <2>. QED
    BY <1>2, <1>3, <2>1, WriterFinds
<1>6. WriterRight(flash, 0, 0, b, added)
  BY <1>1, <1>2, <1>5
<1>7. /\ flash' = flash /\ buffer' = buffer /\ added' = added
      /\ DataloggerInitalized' /\ DataPageAddress' = 0 /\ DataSetAddress' = 0
      /\ BufferInUse' = 1
  BY DEF InitOverwrite, LogAt, flashVars
<1>. QED
  BY <1>3, <1>6, <1>7, Sizes DEF LogRight

(* What a scan sees while no copy is on its way.                           *)
LEMMA ScanSees ==
    ASSUME copying = {}, PageToLook # PAGES
    PROVE  /\ PageToLook \in Pages /\ ~LooksFull(flash[PageToLook])
           /\ \A p \in Pages : p < PageToLook => LooksFull(flash[p])
           /\ LastViewed = flash[PageToLook]
           /\ FoundSlot = Headers(flash[PageToLook])
<1>1. \A p : View(p) = flash[p]
  BY DEF View
<1>2. Min({PageToLook, PAGES - 1}) = PageToLook
  BY LastViewedPage, Zenon
<1>. QED
  BY <1>1, <1>2, ScanStops DEF LastViewed, FoundSlot

(* A logger that runs finds its own page again, or the next one.           *)
LEMMA WriterFound ==
    ASSUME NEW fl, NEW n, NEW p, NEW s, NEW b, WriterRight(fl, p, s, b, n),
           NEW l \in Pages, ~LooksFull(fl[l]), \A q \in Pages : q < l => LooksFull(fl[q])
    PROVE  \A k \in Slots : k < Headers(fl[l]) => b.slot[k] = fl[l].slot[k]
<1>1. p \in Pages /\ l >= p
  BY DEF WriterRight, Pages
<1>2. CASE l = p
  BY <1>2, Zenon DEF WriterRight
<1>3. CASE l # p
  <2>1. l > p
    BY <1>1, <1>3 DEF Pages
  <2>2. Headers(fl[l]) = 0
    BY <2>1, Zenon DEF WriterRight
  <2>. QED
    BY <2>2 DEF Slots
<1>. QED
  BY <1>2, <1>3

LEMMA LogAppend ==
    ASSUME Typed, LogRight, NEW restart \in BOOLEAN, InitAppend(restart),
           PageToLook # PAGES, ~(ReportsFull /\ restart), copying = {}
    PROVE  LogRight'
<1>. DEFINE l == PageToLook
<1>1. /\ l \in Pages /\ ~LooksFull(flash[l])
      /\ \A p \in Pages : p < l => LooksFull(flash[p])
      /\ LastViewed = flash[l] /\ FoundSlot = Headers(flash[l])
  BY ScanSees
<1>2. /\ flash' = flash /\ added' = added /\ copying' = {}
      /\ buffer' = [buffer EXCEPT ![TempBuffer] = flash[l]]
  BY <1>1 DEF InitAppend
<1>3. FlashRight(flash, added) /\ flash \in [Pages -> Page] /\ added \in Nat
  BY Sizes DEF LogRight, Typed
<1>4. CASE ~ReportsFull
  <2>1. /\ DataloggerInitalized' /\ BufferInUse' = 1
        /\ DataPageAddress' = l /\ DataSetAddress' = Headers(flash[l])
    BY <1>1, <1>4 DEF InitAppend, LogAt
  <2>. DEFINE b == buffer'[1]
  <2>2. \A k \in Slots : k < Headers(flash[l]) => b.slot[k] = flash[l].slot[k]
    <3>1. CASE BufferInUse # 1
      <4>1. TempBuffer = 1
        BY <3>1 DEF TempBuffer
      <4>2. b = flash[l]
        BY <1>2, <4>1, BuffersAre DEF Typed
      <4>. QED
        BY <4>2
    <3>2. CASE BufferInUse = 1
      <4>1. TempBuffer = 2
        BY <3>2 DEF TempBuffer
      <4>2. b = buffer[1]
        BY <1>2, <4>1, BuffersAre DEF Typed
      <4>3. CASE DataloggerInitalized
        <5>1. WriterRight(flash, DataPageAddress, DataSetAddress, buffer[1], added)
          BY <3>2, <4>3 DEF LogRight
        <5>. QED
          BY <1>1, <4>2, <5>1, WriterFound
      <4>4. CASE ~DataloggerInitalized
        <5>1. StoppedRight
          BY <3>2, <4>4 DEF LogRight
        <5>2. l = PAGES - 1
          BY <1>1, <5>1 DEF StoppedRight
        <5>. QED
          BY <1>4, <5>2 DEF ReportsFull
      <4>. QED
        BY <4>3, <4>4
    <3>. QED
      BY <3>1, <3>2
  <2>. HIDE DEF b
  <2>3. WriterRight(flash, l, Headers(flash[l]), b, added) /\ Headers(flash[l]) # PER
    BY <1>1, <1>3, <2>2, WriterFinds
  <2>. QED
    BY <1>2, <1>3, <2>1, <2>3 DEF LogRight, b
<1>5. CASE ReportsFull
  <2>1. DataloggerInitalized' = FALSE
    BY <1>5 DEF InitAppend
  <2>2. \A p \in Pages : p # PAGES - 1 => LooksFull(flash[p])
    <3>1. l = PAGES - 1
      BY <1>5 DEF ReportsFull
    <3>2. \A p \in Pages : p # PAGES - 1 => p < PAGES - 1
      BY Sizes DEF Pages
    <3>. QED
      BY <1>1, <3>1, <3>2, Zenon
  <2>. QED
    BY <1>2, <1>3, <2>1, <2>2 DEF LogRight, StoppedRight
<1>. QED
  BY <1>4, <1>5

(* What AddDataSet makes of the buffer.                                    *)
LEMMA AddWrites ==
    ASSUME Typed, LogRight, AddDataSet,
           NEW w, w = BufferWrite(buffer[BufferInUse], DataSetAddress, added + 1)
    PROVE  /\ DataSetAddress \in Slots /\ BufferInUse \in Buffers
           /\ buffer[BufferInUse] \in Page
           /\ w \in Page /\ w.tail = buffer[BufferInUse].tail
           /\ WriterRight(flash, DataPageAddress, DataSetAddress, buffer[BufferInUse], added)
           /\ FlashRight(flash, added + 1)
           /\ WriterRight(flash, DataPageAddress, DataSetAddress + 1, w, added + 1)
           /\ added' = added + 1 /\ DataloggerInitalized' = TRUE
           /\ buffer' = [buffer EXCEPT ![BufferInUse] = w]
<1>. DEFINE p == DataPageAddress
            s == DataSetAddress
            b == buffer[BufferInUse]
<1>1. /\ flash \in [Pages -> Page] /\ added \in Nat /\ added + 1 \in DataSet
      /\ BufferInUse \in Buffers /\ b \in Page /\ s \in Slots /\ s \in 0..PER
      /\ FlashRight(flash, added) /\ WriterRight(flash, p, s, b, added)
  BY Sizes DEF Typed, LogRight, AddDataSet, DataSet, Slots
<1>2. w \in Page
  BY <1>1, WrittenPage
<1>3. w.tail = b.tail
  BY <1>1, WrittenSlots
<1>4. /\ added' = added + 1 /\ DataloggerInitalized' = TRUE
      /\ buffer' = [buffer EXCEPT ![BufferInUse] = w]
  BY DEF AddDataSet, Typed
<1>5. FlashRight(flash, added + 1) /\ WriterRight(flash, p, s + 1, w, added + 1)
  BY <1>1, FlashLater, WriterAdds
<1>. QED
  BY <1>1, <1>2, <1>3, <1>4, <1>5, Zenon

(* AddDataSet with the last data set of a page.                            *)
LEMMA AddFills ==
    ASSUME Typed, LogRight, AddDataSet,
           NEW w, w = BufferWrite(buffer[BufferInUse], DataSetAddress, added + 1),
           DataSetAddress + 1 >= PER,
           DataPageAddress + 1 < PAGES, copying = {}, buffer[BufferInUse].tail # zero
    PROVE  /\ DataSetAddress + 1 = PER /\ DataPageAddress + 1 \in Pages
           /\ flash' = [flash EXCEPT ![DataPageAddress] = w]
           /\ DataPageAddress' = DataPageAddress + 1 /\ DataSetAddress' = 0
           /\ SavedRight(w, PER)
           /\ WriterRight(flash, DataPageAddress, PER, w, added + 1)
<1>. DEFINE p == DataPageAddress
            s == DataSetAddress
<1>1. s \in Slots /\ w.tail # zero /\ WriterRight(flash, p, s + 1, w, added + 1)
  BY AddWrites
<1>2. s + 1 = PER /\ \A k \in Slots : ~(k >= PER)
  BY <1>1, Sizes DEF Slots
<1>3. p \in Pages /\ Physical(p) = p /\ p + 1 \in Pages /\ PageAfter(p) = p + 1
  BY <1>1, Sizes DEF WriterRight, Physical, PageAfter, Pages
<1>4. /\ CopyBufferToPage(w, p)
      /\ DataPageAddress' = p + 1 /\ DataSetAddress' = 0
  <2>1. added' = added + 1
    BY DEF AddDataSet
  <2>. QED
    BY <1>3, <2>1 DEF AddDataSet
<1>5. flash' = [flash EXCEPT ![p] = w]
  BY <1>3, <1>4 DEF CopyBufferToPage
<1>6. SavedRight(w, PER)
  BY <1>1, <1>2 DEF SavedRight
<1>. QED
  BY <1>1, <1>2, <1>3, <1>4, <1>5, <1>6

LEMMA LogAdd ==
    ASSUME Typed, LogRight, AddDataSet,
           DataSetAddress + 1 >= PER => /\ DataPageAddress + 1 < PAGES
                                        /\ copying = {}
                                        /\ buffer[BufferInUse].tail # zero
    PROVE  LogRight'
<1>. DEFINE p == DataPageAddress
            s == DataSetAddress
            w == BufferWrite(buffer[BufferInUse], s, added + 1)
<1>1. /\ s \in Slots /\ BufferInUse \in Buffers /\ w \in Page
      /\ FlashRight(flash, added + 1) /\ WriterRight(flash, p, s + 1, w, added + 1)
      /\ added' = added + 1 /\ DataloggerInitalized' = TRUE
      /\ buffer' = [buffer EXCEPT ![BufferInUse] = w]
  BY AddWrites
<1>2. flash \in [Pages -> Page] /\ added + 1 \in Nat
  BY Sizes DEF Typed
<1>3. CASE ~(s + 1 >= PER)
  <2>1. /\ DataSetAddress' = s + 1
        /\ UNCHANGED <<flash, copying, BufferInUse, DataPageAddress>>
    BY <1>3 DEF AddDataSet
  <2>2. s + 1 # PER
    BY <1>1, <1>3, Sizes DEF Slots
  <2>. HIDE DEF w
  <2>3. buffer'[BufferInUse'] = w
    BY <1>1, <2>1 DEF Typed
  <2>. QED
    BY <1>1, <2>1, <2>2, <2>3 DEF LogRight
<1>4. CASE s + 1 >= PER
  <2>. DEFINE gl == [flash EXCEPT ![p] = w]
              c == buffer'[BufferInUse']
  <2>1. /\ p + 1 \in Pages /\ flash' = gl /\ DataPageAddress' = p + 1 /\ DataSetAddress' = 0
        /\ SavedRight(w, PER) /\ WriterRight(flash, p, PER, w, added + 1)
    BY <1>4, AddFills
  <2>. HIDE DEF w, gl, c
  <2>2. FlashRight(gl, added + 1)
    BY <1>1, <1>2, <2>1, PageSaved DEF gl
  <2>3. WriterRight(gl, p + 1, 0, c, added + 1)
    BY <1>1, <1>2, <2>1, WriterTurns DEF gl
  <2>. QED
    BY <1>1, <2>1, <2>2, <2>3, Sizes DEF LogRight, c
<1>. QED
  BY <1>3, <1>4

(* What SaveDataToFlash makes of the page.                                 *)
LEMMA SaveCopies ==
    ASSUME Typed, LogRight, SaveDataToFlash, ~StaleBehind
    PROVE  /\ buffer[BufferInUse] \in Page
           /\ WriterRight(flash, DataPageAddress, DataSetAddress, buffer[BufferInUse], added)
           /\ SavedRight(buffer[BufferInUse], DataSetAddress)
           /\ flash' = IF copying = {}
                       THEN [flash EXCEPT ![DataPageAddress] = buffer[BufferInUse]]
                       ELSE flash
           /\ DataloggerInitalized
           /\ UNCHANGED <<buffer, loggerVars, added>>
<1>. DEFINE p == DataPageAddress
<1>1. /\ buffer[BufferInUse] \in Page /\ DataSetAddress # PER /\ DataloggerInitalized
      /\ WriterRight(flash, p, DataSetAddress, buffer[BufferInUse], added)
  BY DEF Typed, LogRight, SaveDataToFlash
<1>2. SavedRight(buffer[BufferInUse], DataSetAddress)
  BY <1>1 DEF StaleBehind, SavedRight
<1>3. p \in 0..PAGES /\ p # PAGES
  BY <1>1, Sizes DEF WriterRight, Pages
<1>4. Physical(p) = p
  BY <1>3, PhysicalType, Zenon
<1>. QED
  BY <1>1, <1>2, <1>4 DEF SaveDataToFlash

LEMMA LogSave ==
    ASSUME Typed, LogRight, SaveDataToFlash, ~StaleBehind
    PROVE  LogRight'
<1>. DEFINE p == DataPageAddress
            s == DataSetAddress
            b == buffer[BufferInUse]
            gl == [flash EXCEPT ![p] = b]
<1>1. /\ flash \in [Pages -> Page] /\ added \in Nat
      /\ FlashRight(flash, added) /\ s # PER
  BY Sizes DEF Typed, LogRight, SaveDataToFlash
<1>2. /\ b \in Page /\ WriterRight(flash, p, s, b, added) /\ SavedRight(b, s)
      /\ flash' = IF copying = {} THEN gl ELSE flash
      /\ DataloggerInitalized /\ UNCHANGED <<buffer, loggerVars, added>>
  BY SaveCopies
<1>3. FlashRight(gl, added) /\ WriterRight(gl, p, s, b, added)
  BY <1>1, <1>2, PageSaved, WriterStays
<1>. HIDE DEF gl
<1>. QED
  BY <1>1, <1>2, <1>3 DEF LogRight, loggerVars

LEMMA LogRead ==
    ASSUME Typed, LogRight, ReadBackData
    PROVE  LogRight'
<1>1. /\ flash' = flash /\ copying' = {}
      /\ UNCHANGED <<DataloggerInitalized, DataPageAddress, DataSetAddress, BufferInUse, added>>
  BY DEF ReadBackData, loggerVars
<1>2. DataloggerInitalized => buffer'[BufferInUse] = buffer[BufferInUse]
  <2>1. BufferInUse \in Buffers => TempBuffer # BufferInUse
    BY DEF TempBuffer
  <2>. QED
    BY <2>1 DEF ReadBackData, Typed
<1>. QED
  BY <1>1, <1>2 DEF LogRight, StoppedRight

LEMMA LogForgets ==
    ASSUME LogRight, ForgetPlace, flash' = flash
    PROVE  LogRight'
BY DEF LogRight, ForgetPlace

(* A step of the logger with its history is a step of the logger.          *)
LEMMA HistoryStep == [HNext]_hvars => [Next]_vars
BY Zenon DEF HNext, Next, hvars, vars, loggerVars

LEMMA LogStep == LogInv /\ [HNext]_hvars => LogInv'
<1>. SUFFICES ASSUME LogInv, [HNext]_hvars PROVE LogInv'
  OBVIOUS
<1>1. Typed /\ Typed'
  BY HistoryStep, TypeStep DEF LogInv
<1>. SUFFICES ASSUME ~spoiled' PROVE LogRight'
  BY <1>1 DEF LogInv
<1>2. ~spoiled => LogRight
  BY DEF LogInv
<1>3. CASE InitOverwrite /\ spoiled' = (spoiled \/ AnyDataSet)
  BY <1>1, <1>2, <1>3, LogOverwrite, Zenon
<1>4. CASE \E restartIfFull \in BOOLEAN :
             /\ InitAppend(restartIfFull)
             /\ spoiled' = \/ spoiled
                           \/ PageToLook = PAGES
                           \/ ReportsFull /\ restartIfFull
                           \/ copying # {}
  BY <1>1, <1>2, <1>4, LogAppend, Zenon
<1>5. CASE /\ AddDataSet
           /\ LET copies == DataSetAddress + 1 >= PER IN
              spoiled' = \/ spoiled
                         \/ copies /\ DataPageAddress + 1 >= PAGES
                         \/ copies /\ copying # {}
                         \/ copies /\ buffer[BufferInUse].tail = zero
  <2>1. DataPageAddress + 1 >= PAGES \/ DataPageAddress + 1 < PAGES
    BY <1>1, Sizes DEF Typed
  <2>. QED
    BY <1>1, <1>2, <1>5, <2>1, LogAdd, Zenon
<1>6. CASE SaveDataToFlash /\ spoiled' = (spoiled \/ StaleBehind)
  BY <1>1, <1>2, <1>6, LogSave, Zenon
<1>7. CASE ReadBackData /\ UNCHANGED spoiled
  BY <1>1, <1>2, <1>7, LogRead, Zenon
<1>8. CASE CopyDone /\ UNCHANGED <<loggerVars, added, spoiled>>
  BY <1>1, <1>2, <1>8 DEF CopyDone, loggerVars, LogRight, StoppedRight
<1>9. CASE Reset /\ UNCHANGED spoiled
  BY <1>1, <1>2, <1>9, LogForgets DEF Reset, flashVars
<1>10. CASE PowerFail /\ spoiled' = (spoiled \/ copying # {})
  <2>1. flash' = flash
    <3>1. copying = {} /\ flash \in [Pages -> Page]
      BY <1>1, <1>10 DEF Typed
    <3>. QED
      BY <1>10, <3>1 DEF PowerFail, FlashPowerFail
  <2>. QED
    BY <1>2, <1>10, <2>1, LogForgets DEF PowerFail
<1>11. CASE UNCHANGED hvars
  BY <1>2, <1>11 DEF hvars, vars, flashVars, loggerVars, LogRight, StoppedRight
<1>. QED
  BY <1>3, <1>4, <1>5, <1>6, <1>7, <1>8, <1>9, <1>10, <1>11, Zenon DEF HNext

LEMMA LogAlways == HSpec => []LogInv
BY LogInit, LogStep, PTL DEF HSpec

-----------------------------------------------------------------------------
(* The log, as a function of the pages.                                    *)

LastOf(fl)  == Min({p \in Pages : ~LooksFull(fl[p])} \union {PAGES - 1})
Parts(fl)   == [i \in 1..(LastOf(fl) + 1) |-> Run(fl[i - 1])]
LogOf(fl)   == FlattenSeq(Parts(fl))

LEMMA LogIs == Typed => Log = LogOf(flash)
<1>. SUFFICES ASSUME Typed PROVE Log = LogOf(flash)
  OBVIOUS
<1>1. DOMAIN flash = Pages
  BY DEF Typed
<1>2. LastPage = LastOf(flash)
  BY <1>1, Zenon DEF LastPage, LastOf
<1>. QED
  BY <1>2, Zenon DEF Log, LogOf, Parts

LEMMA LastIs ==
    ASSUME NEW fl
    PROVE  /\ LastOf(fl) \in Pages
           /\ \A p \in Pages : p < LastOf(fl) => LooksFull(fl[p])
           /\ LastOf(fl) # PAGES - 1 => ~LooksFull(fl[LastOf(fl)])
<1>. DEFINE T == {p \in Pages : ~LooksFull(fl[p])} \union {PAGES - 1}
<1>1. T \in SUBSET Nat /\ T # {}
  BY Sizes DEF Pages
<1>2. LastOf(fl) = Min(T)
  BY DEF LastOf
<1>3. \A p \in T : p \in Pages /\ (p # PAGES - 1 => ~LooksFull(fl[p]))
  BY Sizes DEF Pages
<1>4. \A p \in Pages : p \notin T => LooksFull(fl[p])
  OBVIOUS
<1>. HIDE DEF T
<1>5. LastOf(fl) \in T /\ \A p \in T : LastOf(fl) <= p
  BY <1>1, <1>2, LeastNumber
<1>. QED
  BY <1>3, <1>4, <1>5, Sizes DEF Pages

LEMMA RunType ==
    ASSUME NEW page \in Page
    PROVE  /\ Run(page) \in Seq(Nat) /\ Len(Run(page)) = Headers(page)
           /\ \A i \in 1..Headers(page) : i - 1 \in Slots /\ Run(page)[i] = page.slot[i - 1]
<1>1. Headers(page) \in 0..PER /\ Headers(page) \in Nat
  BY HeadersEnd, Sizes
<1>2. ASSUME NEW i \in 1..Headers(page)
      PROVE  i - 1 \in Slots /\ page.slot[i - 1] \in Nat
  <2>1. i - 1 \in Slots /\ i - 1 < Headers(page)
    BY <1>1, Sizes DEF Slots
  <2>. QED
    BY <2>1, HeaderSlots DEF DataSet
<1>3. Run(page) = [i \in 1..Headers(page) |-> page.slot[i - 1]]
  BY DEF Run
<1>. QED
  BY <1>1, <1>2, <1>3

LEMMA PartsType ==
    ASSUME NEW fl \in [Pages -> Page]
    PROVE  /\ Parts(fl) \in Seq(Seq(Nat))
           /\ Len(Parts(fl)) = LastOf(fl) + 1 /\ Len(Parts(fl)) # 0
           /\ \A i \in 1..Len(Parts(fl)) : i - 1 \in Pages /\ Parts(fl)[i] = Run(fl[i - 1])
<1>1. LastOf(fl) \in Pages /\ LastOf(fl) \in Nat /\ LastOf(fl) + 1 \in Nat
  BY LastIs DEF Pages
<1>2. ASSUME NEW i \in 1..(LastOf(fl) + 1)
      PROVE  i - 1 \in Pages /\ Run(fl[i - 1]) \in Seq(Nat)
  <2>1. i - 1 \in Pages
    BY <1>1, Sizes DEF Pages
  <2>. QED
    BY <2>1, RunType
<1>3. Parts(fl) = [i \in 1..(LastOf(fl) + 1) |-> Run(fl[i - 1])]
  BY DEF Parts
<1>. DEFINE n == LastOf(fl) + 1
            r(i) == Run(fl[i - 1])
<1>4. Parts(fl) = [i \in 1..n |-> r(i)] /\ n \in Nat /\ n # 0
  BY <1>1, <1>3, Sizes DEF Pages
<1>5. \A i \in 1..n : i - 1 \in Pages /\ r(i) \in Seq(Nat)
  BY <1>2
<1>. HIDE DEF n, r
<1>6. Parts(fl) \in Seq(Seq(Nat)) /\ Len(Parts(fl)) = n
  BY <1>4, <1>5
<1>7. \A i \in 1..n : Parts(fl)[i] = r(i)
  BY <1>4
<1>. QED
  BY <1>4, <1>5, <1>6, <1>7, Zenon DEF n, r

LEMMA RunRange ==
    ASSUME NEW page \in Page
    PROVE  ToSet(Run(page)) = {page.slot[k] : k \in {k \in Slots : k < Headers(page)}}
<1>1. Headers(page) \in 0..PER /\ Headers(page) \in Nat
  BY HeadersEnd, Sizes
<1>2. ASSUME NEW d \in ToSet(Run(page))
      PROVE  \E k \in Slots : k < Headers(page) /\ d = page.slot[k]
  <2>1. PICK i \in 1..Headers(page) : d = Run(page)[i]
    <3>1. DOMAIN Run(page) = 1..Headers(page)
      BY DEF Run
    <3>. QED
      BY <3>1, Zenon DEF ToSet
  <2>2. i - 1 \in Slots /\ i - 1 < Headers(page) /\ d = page.slot[i - 1]
    BY <1>1, <2>1, RunType
  <2>. QED
    BY <2>2
<1>3. ASSUME NEW k \in Slots, k < Headers(page)
      PROVE  page.slot[k] \in ToSet(Run(page))
  <2>1. k + 1 \in 1..Headers(page) /\ (k + 1) - 1 = k
    BY <1>1, <1>3 DEF Slots
  <2>2. Run(page)[k + 1] = page.slot[k] /\ k + 1 \in DOMAIN Run(page)
    BY <2>1, RunType
  <2>. QED
    BY <2>2 DEF ToSet
<1>. QED
  BY <1>2, <1>3

(* What the log holds: the data sets at the beginnings of its pages.       *)
LEMMA LogRange ==
    ASSUME NEW fl \in [Pages -> Page]
    PROVE  /\ LogOf(fl) \in Seq(Nat)
           /\ ToSet(LogOf(fl)) =
                UNION {ToSet(Run(fl[p])) : p \in {p \in Pages : p <= LastOf(fl)}}
<1>. DEFINE ss == Parts(fl)
<1>1. /\ ss \in Seq(Seq(Nat)) /\ Len(ss) = LastOf(fl) + 1 /\ Len(ss) # 0
      /\ \A i \in 1..Len(ss) : i - 1 \in Pages /\ ss[i] = Run(fl[i - 1])
  BY PartsType, Zenon
<1>2. LastOf(fl) \in Pages
  BY LastIs, Zenon
<1>. HIDE DEF ss
<1>3. /\ FlattenSeq(ss) \in Seq(Nat)
      /\ ToSet(FlattenSeq(ss)) = UNION {ToSet(ss[i]) : i \in 1..Len(ss)}
  BY <1>1, FlattenRange, Zenon
<1>4. ASSUME NEW i \in 1..Len(ss)
      PROVE  i - 1 \in Pages /\ i - 1 <= LastOf(fl) /\ ToSet(ss[i]) = ToSet(Run(fl[i - 1]))
  BY <1>1, <1>2 DEF Pages
<1>5. ASSUME NEW p \in Pages, p <= LastOf(fl)
      PROVE  p + 1 \in 1..Len(ss) /\ ToSet(ss[p + 1]) = ToSet(Run(fl[p]))
  <2>1. p + 1 \in 1..Len(ss) /\ (p + 1) - 1 = p
    BY <1>1, <1>2, <1>5 DEF Pages
  <2>. QED
    BY <1>1, <2>1
<1>6. UNION {ToSet(ss[i]) : i \in 1..Len(ss)} =
        UNION {ToSet(Run(fl[p])) : p \in {p \in Pages : p <= LastOf(fl)}}
  BY <1>4, <1>5
<1>. QED
  BY <1>3, <1>6, Zenon DEF LogOf, ss

LEMMA LogIncreases ==
    ASSUME NEW fl \in [Pages -> Page], NEW n \in Nat, FlashRight(fl, n)
    PROVE  Increasing(LogOf(fl))
<1>. DEFINE ss == Parts(fl)
<1>1. /\ ss \in Seq(Seq(Nat)) /\ Len(ss) # 0
      /\ \A i \in 1..Len(ss) : i - 1 \in Pages /\ ss[i] = Run(fl[i - 1])
  BY PartsType, Zenon
<1>. HIDE DEF ss
<1>2. ASSUME NEW p \in Pages PROVE Increasing(Run(fl[p]))
  <2>. SUFFICES ASSUME NEW i \in 1..Headers(fl[p]), NEW j \in 1..Headers(fl[p]), i < j
                PROVE  Run(fl[p])[i] < Run(fl[p])[j]
    BY RunType DEF Increasing
  <2>1. /\ i - 1 \in Slots /\ j - 1 \in Slots /\ i - 1 < j - 1 /\ j - 1 < Headers(fl[p])
        /\ Run(fl[p])[i] = fl[p].slot[i - 1] /\ Run(fl[p])[j] = fl[p].slot[j - 1]
    <3>1. fl[p] \in Page
      OBVIOUS
    <3>2. /\ i - 1 \in Slots /\ Run(fl[p])[i] = fl[p].slot[i - 1]
          /\ j - 1 \in Slots /\ Run(fl[p])[j] = fl[p].slot[j - 1]
      BY <3>1, RunType, Zenon
    <3>3. Headers(fl[p]) \in Nat
      BY HeadersEnd, Sizes
    <3>. QED
      BY <3>2, <3>3
  <2>. QED
    BY <2>1 DEF FlashRight, PageRight
<1>3. ASSUME NEW p \in Pages, NEW q \in Pages, p < q
      PROVE  AllBelow(Run(fl[p]), Run(fl[q]))
  BY <1>3, RunRange DEF AllBelow, FlashRight, Before
<1>4. \A i \in 1..Len(ss) : Increasing(ss[i])
  BY <1>1, <1>2
<1>5. \A i, j \in 1..Len(ss) : i < j => AllBelow(ss[i], ss[j])
  <2>. SUFFICES ASSUME NEW i \in 1..Len(ss), NEW j \in 1..Len(ss), i < j
                PROVE  AllBelow(ss[i], ss[j])
    OBVIOUS
  <2>1. i - 1 < j - 1
    BY <1>1
  <2>. QED
    BY <1>1, <1>3, <2>1
<1>. QED
  BY <1>1, <1>4, <1>5, FlattenIncreasing, Zenon DEF LogOf, ss

LEMMA LogComplete ==
    ASSUME NEW fl \in [Pages -> Page], NEW n \in Nat, FlashRight(fl, n)
    PROVE  UNION {DataSetsOf(fl[p]) : p \in Pages} = ToSet(LogOf(fl))
<1>1. ASSUME NEW p \in Pages PROVE DataSetsOf(fl[p]) = ToSet(Run(fl[p]))
  <2>1. fl[p] \in Page /\ PageRight(fl[p], n)
    BY DEF FlashRight
  <2>2. \A k \in Slots : ~NoDataSet(fl[p], k) <=> k < Headers(fl[p])
    <3>1. Headers(fl[p]) \in Nat
      BY HeadersEnd, Sizes
    <3>2. \A k \in Slots : k < Headers(fl[p]) => ~NoDataSet(fl[p], k)
      BY HeadersEnd, Zenon
    <3>3. \A k \in Slots : k >= Headers(fl[p]) => NoDataSet(fl[p], k)
      BY <2>1, Zenon DEF PageRight
    <3>. QED
      BY <3>1, <3>2, <3>3 DEF Slots
  <2>3. ToSet(Run(fl[p])) = {fl[p].slot[k] : k \in {k \in Slots : k < Headers(fl[p])}}
    BY <2>1, RunRange, Zenon
  <2>. QED
    BY <2>2, <2>3, Zenon DEF DataSetsOf
<1>2. ASSUME NEW p \in Pages, ~(p <= LastOf(fl)) PROVE ToSet(Run(fl[p])) = {}
  <2>1. /\ LastOf(fl) \in Pages /\ LastOf(fl) < p /\ LastOf(fl) # PAGES - 1
    BY <1>2, LastIs, Sizes DEF Pages
  <2>2. ~LooksFull(fl[LastOf(fl)])
    BY <2>1, LastIs, Zenon
  <2>3. Headers(fl[p]) = 0
    BY <2>1, <2>2, Zenon DEF FlashRight
  <2>4. Run(fl[p]) = <<>>
    BY <2>3, RunType
  <2>. QED
    BY <2>4 DEF ToSet
<1>3. ToSet(LogOf(fl)) = UNION {ToSet(Run(fl[p])) : p \in {p \in Pages : p <= LastOf(fl)}}
  BY LogRange, Zenon
<1>. HIDE DEF Pages
<1>4. UNION {DataSetsOf(fl[p]) : p \in Pages} =
        UNION {ToSet(Run(fl[p])) : p \in {p \in Pages : p <= LastOf(fl)}}
  BY <1>1, <1>2
<1>. QED
  BY <1>3, <1>4

(* The log is in the order in which the data sets were added: two buffers  *)
(* taken in turn and never cleared, a scan that reuses one of them, and    *)
(* restarts of the processor never bring an older data set back, for every *)
(* number of pages and of data sets in a page.                             *)
THEOREM LogOrderedCorrect == HSpec => []LogOrdered
<1>1. LogInv => LogOrdered
  <2>. SUFFICES ASSUME LogInv, ~spoiled
                PROVE  \A i, j \in DOMAIN Log : i < j => Log[i] < Log[j]
    BY Zenon DEF LogOrdered
  <2>1. /\ flash \in [Pages -> Page] /\ added \in Nat
        /\ FlashRight(flash, added)
    BY Sizes DEF LogInv, LogRight, Typed
  <2>2. Increasing(LogOf(flash))
    BY <2>1, LogIncreases
  <2>3. Log = LogOf(flash)
    BY LogIs DEF LogInv
  <2>. QED
    BY <2>2, <2>3, Zenon DEF Increasing
<1>. QED
  BY <1>1, LogAlways, PTL

(* Every data set that reached the flash is read back: the scan, which     *)
(* guesses from the bytes behind the headers whether a page is full, never *)
(* stops in front of a page with data sets.                                *)
THEOREM NothingHiddenCorrect == HSpec => []NothingHidden
<1>1. LogInv => NothingHidden
  <2>. SUFFICES ASSUME LogInv, ~spoiled
                PROVE  UNION {DataSetsOf(flash[p]) : p \in DOMAIN flash} = ToSet(Log)
    BY Zenon DEF NothingHidden
  <2>1. /\ flash \in [Pages -> Page] /\ added \in Nat
        /\ FlashRight(flash, added)
    BY Sizes DEF LogInv, LogRight, Typed
  <2>2. UNION {DataSetsOf(flash[p]) : p \in Pages} = ToSet(LogOf(flash))
    BY <2>1, LogComplete
  <2>3. Log = LogOf(flash) /\ DOMAIN flash = Pages
    BY <2>1, LogIs DEF LogInv
  <2>. QED
    BY <2>2, <2>3, Zenon
<1>. QED
  BY <1>1, LogAlways, PTL

-----------------------------------------------------------------------------
(* The promise of RecordLog.                                               *)

(* The data sets of the buffer b, up to slot s, that page has not.         *)
UnsavedOf(page, b, s) ==
    [k \in 1..(s - Headers(page)) |-> b.slot[Headers(page) + k - 1]]

(* The log ends with the page of the logger.                               *)
LEMMA WriterEnds ==
    ASSUME NEW fl \in [Pages -> Page], NEW n, NEW p, NEW s, NEW b,
           WriterRight(fl, p, s, b, n)
    PROVE  EndsAt(Parts(fl), p + 1) /\ p + 1 \in 1..Len(Parts(fl))
<1>1. /\ p \in Pages /\ \A q \in Pages : q < p => LooksFull(fl[q])
      /\ \A q \in Pages : q > p => Headers(fl[q]) = 0
  BY Zenon DEF WriterRight
<1>2. /\ LastOf(fl) \in Pages
      /\ \A q \in Pages : q < LastOf(fl) => LooksFull(fl[q])
      /\ LastOf(fl) # PAGES - 1 => ~LooksFull(fl[LastOf(fl)])
  BY LastIs, Zenon
<1>3. Len(Parts(fl)) = LastOf(fl) + 1
  BY PartsType, Zenon
<1>4. LastOf(fl) >= p
  BY <1>1, <1>2, Sizes DEF Pages
<1>5. CASE LastOf(fl) = p
  BY <1>1, <1>3, <1>5 DEF EndsAt, Pages
<1>6. CASE LastOf(fl) # p
  <2>1. p + 1 \in Pages /\ p + 1 > p /\ p + 1 <= LastOf(fl)
    BY <1>1, <1>2, <1>4, <1>6, Sizes DEF Pages
  <2>2. Headers(fl[p + 1]) = 0
    BY <1>1, <2>1, Zenon
  <2>3. ~LooksFull(fl[p + 1])
    BY <2>2, EmptyLooksFull, Zenon
  <2>4. LastOf(fl) = p + 1
    BY <1>2, <2>1, <2>3 DEF Pages
  <2>5. Run(fl[p + 1]) = <<>>
    BY <2>1, <2>2, RunType
  <2>6. (p + 1) + 1 \in 1..Len(Parts(fl)) /\ ((p + 1) + 1) - 1 = p + 1
    BY <1>3, <2>1, <2>4 DEF Pages
  <2>7. Parts(fl)[(p + 1) + 1] = Run(fl[p + 1])
    BY <2>6, PartsType
  <2>. QED
    BY <1>1, <1>3, <2>4, <2>5, <2>7 DEF EndsAt, Pages
<1>. QED
  BY <1>5, <1>6

LEMMA UnsavedType ==
    ASSUME NEW fl \in [Pages -> Page], NEW n, NEW p, NEW s, NEW b \in Page,
           WriterRight(fl, p, s, b, n)
    PROVE  LET h == Headers(fl[p])
               u == UnsavedOf(fl[p], b, s)
           IN  /\ h \in Nat /\ s \in Nat /\ h <= s
               /\ u \in Seq(Nat) /\ Len(u) = s - h
               /\ \A k \in 1..(s - h) : h + k - 1 \in Slots /\ u[k] = b.slot[h + k - 1]
<1>. DEFINE h == Headers(fl[p])
            u == UnsavedOf(fl[p], b, s)
<1>1. s \in 0..PER /\ h <= s
  BY Zenon DEF WriterRight
<1>2. h \in Nat /\ s \in Nat
  BY <1>1, HeadersEnd, Sizes
<1>. HIDE DEF h
<1>3. \A k \in Slots : k < s => b.slot[k] \in DataSet
  BY Zenon DEF WriterRight
<1>4. ASSUME NEW k \in 1..(s - h)
      PROVE  h + k - 1 \in Slots /\ b.slot[h + k - 1] \in Nat
  <2>1. h + k - 1 \in Slots /\ h + k - 1 < s
    BY <1>1, <1>2, Sizes DEF Slots
  <2>. QED
    BY <1>3, <2>1 DEF DataSet
<1>5. u = [k \in 1..(s - h) |-> b.slot[h + k - 1]]
  BY Zenon DEF UnsavedOf, h
<1>. HIDE DEF u
<1>. DEFINE m == s - h
            f(k) == b.slot[h + k - 1]
<1>6. m \in Nat /\ u = [k \in 1..m |-> f(k)] /\ \A k \in 1..m : f(k) \in Nat
  <2>1. m \in Nat
    BY <1>1, <1>2
  <2>2. \A k \in 1..m : f(k) \in Nat
    BY <1>4, Zenon
  <2>. QED
    BY <1>5, <2>1, <2>2, Zenon
<1>7. u \in Seq(Nat) /\ Len(u) = m /\ \A k \in 1..m : u[k] = f(k)
  <2>. HIDE DEF m, f
  <2>. QED
    BY <1>6
<1>. QED
  BY <1>1, <1>2, <1>4, <1>7, Zenon DEF h, u

(* The data sets u are appended to those of a page; to the log.            *)
PageGrows(page, b, u) == Run(b) = Run(page) \o u
LogGrows(fl, gl, u)   == LogOf(gl) = LogOf(fl) \o u
OneMore(u, v, d)      == v = Append(u, d)

(* A copy appends to the data sets of its page those it had not.           *)
LEMMA RunAppended ==
    ASSUME NEW fl \in [Pages -> Page], NEW n, NEW p, NEW s, NEW b \in Page,
           WriterRight(fl, p, s, b, n), SavedRight(b, s)
    PROVE  PageGrows(fl[p], b, UnsavedOf(fl[p], b, s))
<1>. DEFINE h == Headers(fl[p])
            u == UnsavedOf(fl[p], b, s)
            r == Run(fl[p])
            t == Run(b)
<1>1. Headers(b) = s /\ fl[p] \in Page
  <2>1. Headers(b) = s
    BY SavedHeaders, Zenon
  <2>. QED
    BY <2>1 DEF WriterRight
<1>2. /\ h \in Nat /\ s \in Nat /\ h <= s
      /\ u \in Seq(Nat) /\ Len(u) = s - h
      /\ \A k \in 1..(s - h) : h + k - 1 \in Slots /\ u[k] = b.slot[h + k - 1]
  BY UnsavedType
<1>3. /\ t \in Seq(Nat) /\ Len(t) = s
      /\ \A i \in 1..s : i - 1 \in Slots /\ t[i] = b.slot[i - 1]
  BY <1>1, RunType
<1>4. /\ r \in Seq(Nat) /\ Len(r) = h
      /\ \A i \in 1..h : i - 1 \in Slots /\ r[i] = fl[p].slot[i - 1]
  BY <1>1, RunType, Zenon
<1>5. \A k \in Slots : k < h => b.slot[k] = fl[p].slot[k]
  BY Zenon DEF WriterRight
<1>. HIDE DEF h, u, r, t
<1>6. ASSUME NEW i \in 1..s PROVE t[i] = (r \o u)[i]
  <2>1. CASE i <= h
    <3>1. i \in 1..h /\ i - 1 \in Slots /\ i - 1 < h /\ (r \o u)[i] = r[i]
      BY <1>2, <1>4, <2>1
    <3>2. b.slot[i - 1] = fl[p].slot[i - 1]
      BY <1>5, <3>1
    <3>. QED
      BY <1>3, <1>4, <3>1, <3>2
  <2>2. CASE ~(i <= h)
    <3>1. i - h \in 1..(s - h) /\ h + (i - h) - 1 = i - 1 /\ (r \o u)[i] = u[i - h]
      BY <1>2, <1>4, <2>2
    <3>2. u[i - h] = b.slot[h + (i - h) - 1]
      BY <1>2, <3>1
    <3>. QED
      BY <1>3, <3>1, <3>2
  <2>. QED
    BY <2>1, <2>2
<1>7. Len(r \o u) = s /\ r \o u \in Seq(Nat)
  <2>1. r \in Seq(Nat) /\ u \in Seq(Nat) /\ Len(r) + Len(u) = s
    BY <1>2, <1>4
  <2>. QED
    BY <2>1, ConcatProperties
<1>8. t = r \o u
  BY <1>3, <1>6, <1>7, SeqEqual
<1>. QED
  BY <1>8, Zenon DEF r, t, u, PageGrows

(* What a copy of the buffer adds to the log.                              *)
LEMMA LogAppended ==
    ASSUME NEW fl \in [Pages -> Page], NEW n \in Nat, NEW p, NEW s, NEW b \in Page,
           WriterRight(fl, p, s, b, n), SavedRight(b, s)
    PROVE  LogGrows(fl, [fl EXCEPT ![p] = b], UnsavedOf(fl[p], b, s))
<1>. DEFINE gl == [fl EXCEPT ![p] = b]
            u == UnsavedOf(fl[p], b, s)
            m == p + 1
            ss == Parts(fl)
            tt == Parts(gl)
<1>1. /\ p \in Pages /\ gl[p] = b /\ gl \in [Pages -> Page]
      /\ \A q \in Pages : q # p => gl[q] = fl[q]
  BY DEF WriterRight
<1>2. WriterRight(gl, p, s, b, n)
  BY WriterStays, Zenon
<1>. HIDE DEF gl
<1>3. /\ EndsAt(ss, m) /\ m \in 1..Len(ss)
      /\ EndsAt(tt, m) /\ m \in 1..Len(tt)
  BY <1>1, <1>2, WriterEnds, Zenon
<1>4. /\ ss \in Seq(Seq(Nat)) /\ \A i \in 1..Len(ss) : i - 1 \in Pages /\ ss[i] = Run(fl[i - 1])
      /\ tt \in Seq(Seq(Nat)) /\ \A i \in 1..Len(tt) : i - 1 \in Pages /\ tt[i] = Run(gl[i - 1])
  BY <1>1, PartsType, Zenon
<1>5. u \in Seq(Nat)
  BY UnsavedType, Zenon
<1>6. Run(b) = Run(fl[p]) \o u
  <2>1. PageGrows(fl[p], b, u)
    BY RunAppended, Zenon
  <2>. QED
    BY <2>1, Zenon DEF PageGrows
<1>7. m - 1 = p /\ m \in Nat \ {0} /\ \A i \in 1..(m - 1) : i - 1 # p
  BY <1>1 DEF Pages
<1>. HIDE DEF u, m, ss, tt
<1>8. ss[m] = Run(fl[p]) /\ tt[m] = Run(b)
  BY <1>1, <1>3, <1>4, <1>7
<1>9. ASSUME NEW i \in 1..(m - 1) PROVE ss[i] = tt[i]
  <2>1. i \in 1..Len(ss) /\ i \in 1..Len(tt)
    BY <1>3, <1>4, <1>7
  <2>2. i - 1 \in Pages /\ gl[i - 1] = fl[i - 1]
    BY <1>1, <1>4, <1>7, <2>1
  <2>. QED
    BY <1>4, <2>1, <2>2
<1>10. Extended(ss, tt, m, u)
  BY <1>3, <1>6, <1>8, <1>9, Zenon DEF Extended
<1>11. FlattenSeq(tt) = FlattenSeq(ss) \o u
  <2>1. ss \in Seq(Seq(Nat)) /\ tt \in Seq(Seq(Nat)) /\ m \in Nat \ {0}
    BY <1>4, <1>7, Zenon
  <2>. QED
    BY <1>5, <1>10, <2>1, FlattenAppend
<1>. QED
  BY <1>11, Zenon DEF LogGrows, LogOf, ss, tt, u, gl

(* Right behind its page the logger has nothing unsaved.                   *)
LEMMA UnsavedNone ==
    ASSUME NEW page, NEW b, NEW s, s = Headers(page)
    PROVE  UnsavedOf(page, b, s) = <<>>
<1>1. s - Headers(page) = 0
  BY HeadersEnd, Sizes
<1>. QED
  BY <1>1 DEF UnsavedOf

(* A data set added is the last of the unsaved ones.                       *)
LEMMA UnsavedAdds ==
    ASSUME NEW fl \in [Pages -> Page], NEW n \in Nat, NEW p, NEW s \in Slots,
           NEW b \in Page, WriterRight(fl, p, s, b, n),
           NEW d \in DataSet, NEW w, w = BufferWrite(b, s, d)
    PROVE  OneMore(UnsavedOf(fl[p], b, s), UnsavedOf(fl[p], w, s + 1), d)
<1>. DEFINE h == Headers(fl[p])
            u == UnsavedOf(fl[p], b, s)
            m == s - h
<1>1. /\ h \in Nat /\ s \in Nat /\ h <= s
      /\ u \in Seq(Nat) /\ Len(u) = m
      /\ \A k \in 1..m : h + k - 1 \in Slots /\ u[k] = b.slot[h + k - 1]
  BY UnsavedType
<1>2. /\ w.slot[s] = d
      /\ \A k \in Slots : k # s => w.slot[k] = b.slot[k]
  BY WrittenSlots
<1>3. UnsavedOf(fl[p], w, s + 1) = [k \in 1..((s + 1) - h) |-> w.slot[h + k - 1]]
  BY Zenon DEF UnsavedOf
<1>. HIDE DEF h, u
<1>4. (s + 1) - h = m + 1 /\ m \in Nat /\ h + (m + 1) - 1 = s
  BY <1>1
<1>5. \A k \in 1..m : h + k - 1 # s
  BY <1>1
<1>. HIDE DEF m
<1>6. /\ Append(u, d) \in Seq(Nat) /\ Len(Append(u, d)) = m + 1
      /\ \A k \in 1..(m + 1) : Append(u, d)[k] = IF k = m + 1 THEN d ELSE u[k]
  <2>1. d \in Nat
    BY DEF DataSet
  <2>2. u \in Seq(Nat) /\ Len(u) = m
    BY <1>1
  <2>. QED
    BY <1>4, <2>1, <2>2, AppendProperties
<1>7. ASSUME NEW k \in 1..(m + 1)
      PROVE  w.slot[h + k - 1] = IF k = m + 1 THEN d ELSE u[k]
  <2>1. CASE k = m + 1
    BY <1>2, <1>4, <2>1
  <2>2. CASE k # m + 1
    <3>1. k \in 1..m
      BY <1>4, <2>2
    <3>. QED
      BY <1>1, <1>2, <1>5, <2>2, <3>1
  <2>. QED
    BY <2>1, <2>2
<1>. DEFINE f(k) == w.slot[h + k - 1]
            v == [k \in 1..(m + 1) |-> f(k)]
<1>8. v = Append(u, d)
  <2>1. \A k \in 1..(m + 1) : f(k) = Append(u, d)[k]
    BY <1>6, <1>7
  <2>. HIDE DEF f
  <2>2. \A k \in 1..(m + 1) : f(k) \in Nat
    <3>1. \A k \in 1..(m + 1) : Append(u, d)[k] \in Nat
      BY <1>6, ElementOfSeq
    <3>. QED
      BY <2>1, <3>1, Zenon
  <2>3. v \in Seq(Nat) /\ Len(v) = m + 1 /\ \A k \in 1..(m + 1) : v[k] = f(k)
    BY <1>4, <2>2
  <2>. HIDE DEF v
  <2>. QED
    BY <1>6, <2>1, <2>3, SeqEqual
<1>9. UnsavedOf(fl[p], w, s + 1) = v
  BY <1>3, <1>4, Zenon
<1>. QED
  BY <1>8, <1>9, Zenon DEF u, OneMore

(* The log and the unsaved data sets as functions of the pages, the buffer *)
(* and the place.                                                          *)
Mapped ==
    LogInv =>
        /\ Log = LogOf(flash)
        /\ ~DataloggerInitalized => Unsaved = <<>>
        /\ DataloggerInitalized /\ ~spoiled =>
             Unsaved = UnsavedOf(flash[DataPageAddress], buffer[BufferInUse], DataSetAddress)

LEMMA MappedAlways == Mapped
<1>. SUFFICES ASSUME LogInv
              PROVE  /\ Log = LogOf(flash)
                     /\ ~DataloggerInitalized => Unsaved = <<>>
                     /\ DataloggerInitalized /\ ~spoiled =>
                          Unsaved = UnsavedOf(flash[DataPageAddress],
                                              buffer[BufferInUse], DataSetAddress)
  BY DEF Mapped
<1>1. Log = LogOf(flash)
  BY LogIs DEF LogInv
<1>2. ASSUME DataloggerInitalized, ~spoiled
      PROVE  Physical(DataPageAddress) = DataPageAddress
  <2>1. DataPageAddress \in Pages
    BY <1>2 DEF LogInv, LogRight, WriterRight
  <2>2. DataPageAddress \in 0..PAGES /\ DataPageAddress # PAGES
    BY <2>1, Sizes DEF Pages
  <2>. QED
    BY <2>2, PhysicalType, Zenon
<1>3. ASSUME DataloggerInitalized, ~spoiled
      PROVE  Unsaved = UnsavedOf(flash[DataPageAddress], buffer[BufferInUse], DataSetAddress)
  BY <1>2, <1>3, Zenon DEF Unsaved, UnsavedOf
<1>4. ~DataloggerInitalized => Unsaved = <<>>
  BY Zenon DEF Unsaved
<1>. QED
  BY <1>1, <1>3, <1>4, Zenon

LEMMA MappedNext == Mapped'
BY MappedAlways, PTL

(* What was in the buffer is forgotten, and nothing else changes.          *)
Forgotten == added' = added /\ Unsaved' = <<>> /\ Log' = Log

LEMMA OverwriteForgets ==
    ASSUME LogInv, LogInv', ~spoiled, ~spoiled', InitOverwrite, ~AnyDataSet
    PROVE  Forgotten
<1>1. /\ flash' = flash /\ added' = added
      /\ DataloggerInitalized' /\ DataPageAddress' = 0 /\ DataSetAddress' = 0
  BY DEF InitOverwrite, LogAt, flashVars
<1>2. Headers(flash'[0]) <= 0
  BY <1>1 DEF LogInv, LogRight, WriterRight
<1>3. 0 = Headers(flash'[0])
  BY <1>2, HeadersEnd, Sizes
<1>4. UnsavedOf(flash'[0], buffer'[BufferInUse'], 0) = <<>>
  BY <1>3, UnsavedNone
<1>5. Unsaved' = <<>>
  BY <1>1, <1>4, MappedNext DEF Mapped
<1>6. Log' = Log
  BY <1>1, MappedAlways, MappedNext DEF Mapped
<1>. QED
  BY <1>1, <1>5, <1>6 DEF Forgotten

LEMMA AppendForgets ==
    ASSUME LogInv, LogInv', ~spoiled, ~spoiled',
           NEW restart \in BOOLEAN, InitAppend(restart),
           PageToLook # PAGES, ~(ReportsFull /\ restart), copying = {}
    PROVE  Forgotten
<1>1. flash' = flash /\ added' = added
  BY DEF InitAppend
<1>2. Log' = Log
  BY <1>1, MappedAlways, MappedNext DEF Mapped
<1>3. CASE ReportsFull
  <2>1. ~DataloggerInitalized'
    BY <1>3 DEF InitAppend
  <2>2. Unsaved' = <<>>
    BY <2>1, MappedNext DEF Mapped
  <2>. QED
    BY <1>1, <1>2, <2>2 DEF Forgotten
<1>4. CASE ~ReportsFull
  <2>1. /\ DataloggerInitalized' /\ DataPageAddress' = PageToLook
        /\ DataSetAddress' = Headers(flash[PageToLook])
    BY <1>4, ScanSees DEF InitAppend, LogAt
  <2>2. UnsavedOf(flash'[PageToLook], buffer'[BufferInUse'], DataSetAddress') = <<>>
    BY <1>1, <2>1, UnsavedNone
  <2>3. Unsaved' = <<>>
    BY <2>1, <2>2, MappedNext DEF Mapped
  <2>. QED
    BY <1>1, <1>2, <2>3 DEF Forgotten
<1>. QED
  BY <1>3, <1>4

LEMMA PlaceForgets ==
    ASSUME LogInv, LogInv', ForgetPlace, flash' = flash
    PROVE  Forgotten
<1>1. ~DataloggerInitalized' /\ added' = added
  BY DEF ForgetPlace
<1>. QED
  BY <1>1, MappedAlways, MappedNext DEF Mapped, Forgotten

(* Nothing that the promise is about changes.                              *)
LEMMA NothingChanges ==
    ASSUME LogInv, LogInv', ~spoiled, ~spoiled', flash' = flash,
           UNCHANGED <<added, loggerVars>>,
           DataloggerInitalized => buffer'[BufferInUse] = buffer[BufferInUse]
    PROVE  added' = added /\ Unsaved' = Unsaved /\ Log' = Log
<1>1. Log' = Log
  BY MappedAlways, MappedNext DEF Mapped
<1>2. CASE ~DataloggerInitalized
  BY <1>1, <1>2, MappedAlways, MappedNext DEF Mapped, loggerVars
<1>3. CASE DataloggerInitalized
  BY <1>1, <1>3, MappedAlways, MappedNext DEF Mapped, loggerVars
<1>. QED
  BY <1>2, <1>3

LEMMA AddPromised ==
    ASSUME LogInv, LogInv', ~spoiled, ~spoiled', AddDataSet,
           DataSetAddress + 1 >= PER => /\ DataPageAddress + 1 < PAGES
                                        /\ copying = {}
                                        /\ buffer[BufferInUse].tail # zero
    PROVE  /\ added' = added + 1
           /\ \/ Unsaved' = Append(Unsaved, added') /\ Log' = Log
              \/ Unsaved' = <<>> /\ Log' = Log \o Append(Unsaved, added')
<1>. DEFINE p == DataPageAddress
            s == DataSetAddress
            b == buffer[BufferInUse]
            w == BufferWrite(b, s, added + 1)
<1>1. Typed /\ LogRight /\ DataloggerInitalized
  BY DEF LogInv, AddDataSet
<1>2. /\ flash \in [Pages -> Page] /\ added \in Nat
      /\ added + 1 \in Nat /\ added + 1 \in DataSet
  BY <1>1, Sizes DEF Typed, DataSet
<1>3. /\ s \in Slots /\ BufferInUse \in Buffers /\ b \in Page /\ w \in Page
      /\ WriterRight(flash, p, s, b, added)
      /\ added' = added + 1 /\ DataloggerInitalized' = TRUE
      /\ buffer' = [buffer EXCEPT ![BufferInUse] = w]
  BY <1>1, AddWrites
<1>4. /\ Log = LogOf(flash) /\ Unsaved = UnsavedOf(flash[p], b, s)
      /\ Log' = LogOf(flash')
      /\ Unsaved' = UnsavedOf(flash'[p'], buffer'[BufferInUse'], s')
  BY <1>1, <1>3, MappedAlways, MappedNext, Zenon DEF Mapped
<1>5. UnsavedOf(flash[p], w, s + 1) = Append(Unsaved, added')
  <2>1. OneMore(UnsavedOf(flash[p], b, s), UnsavedOf(flash[p], w, s + 1), added + 1)
    BY <1>2, <1>3, UnsavedAdds
  <2>. HIDE DEF w
  <2>. QED
    BY <1>3, <1>4, <2>1, Zenon DEF OneMore
<1>6. CASE ~(s + 1 >= PER)
  <2>1. /\ s' = s + 1
        /\ UNCHANGED <<flash, copying, BufferInUse, DataPageAddress>>
    BY <1>6 DEF AddDataSet
  <2>. HIDE DEF w
  <2>2. buffer'[BufferInUse'] = w
    BY <1>1, <1>3, <2>1 DEF Typed
  <2>. QED
    BY <1>3, <1>4, <1>5, <2>1, <2>2
<1>7. CASE s + 1 >= PER
  <2>. DEFINE gl == [flash EXCEPT ![p] = w]
  <2>1. /\ s + 1 = PER /\ p + 1 \in Pages /\ flash' = gl /\ p' = p + 1 /\ s' = 0
        /\ SavedRight(w, PER) /\ WriterRight(flash, p, PER, w, added + 1)
    BY <1>1, <1>7, AddFills
  <2>2. LogOf(gl) = LogOf(flash) \o UnsavedOf(flash[p], w, PER)
    <3>1. LogGrows(flash, gl, UnsavedOf(flash[p], w, PER))
      BY <1>2, <1>3, <2>1, LogAppended
    <3>. QED
      BY <3>1, Zenon DEF LogGrows
  <2>3. 0 = Headers(flash'[p + 1])
    <3>1. Headers(flash'[p + 1]) <= 0
      BY <1>3, <2>1 DEF LogInv, LogRight, WriterRight
    <3>. QED
      BY <3>1, HeadersEnd, Sizes
  <2>4. Unsaved' = <<>>
    BY <1>4, <2>1, <2>3, UnsavedNone
  <2>. HIDE DEF w, gl
  <2>. QED
    BY <1>3, <1>4, <1>5, <2>1, <2>2, <2>4
<1>. QED
  BY <1>6, <1>7

LEMMA SavePromised ==
    ASSUME LogInv, LogInv', ~spoiled, ~spoiled', SaveDataToFlash, ~StaleBehind
    PROVE  /\ added' = added
           /\ \/ Unsaved' = Unsaved /\ Log' = Log
              \/ Unsaved' = <<>> /\ Log' = Log \o Unsaved
<1>. DEFINE p == DataPageAddress
            s == DataSetAddress
            b == buffer[BufferInUse]
            gl == [flash EXCEPT ![p] = b]
<1>1. Typed /\ LogRight /\ flash \in [Pages -> Page] /\ added \in Nat
  BY Sizes DEF LogInv, Typed
<1>2. /\ b \in Page /\ WriterRight(flash, p, s, b, added) /\ SavedRight(b, s)
      /\ flash' = IF copying = {} THEN gl ELSE flash
      /\ DataloggerInitalized /\ UNCHANGED <<buffer, loggerVars, added>>
  BY <1>1, SaveCopies
<1>3. CASE copying # {}
  BY <1>2, <1>3, NothingChanges
<1>4. CASE copying = {}
  <2>1. /\ Log = LogOf(flash) /\ Unsaved = UnsavedOf(flash[p], b, s)
        /\ Log' = LogOf(gl) /\ Unsaved' = UnsavedOf(gl[p], b, s)
    BY <1>2, <1>4, MappedAlways, MappedNext DEF Mapped, loggerVars
  <2>2. LogOf(gl) = LogOf(flash) \o UnsavedOf(flash[p], b, s)
    <3>1. LogGrows(flash, gl, UnsavedOf(flash[p], b, s))
      BY <1>1, <1>2, LogAppended
    <3>. QED
      BY <3>1, Zenon DEF LogGrows
  <2>3. gl[p] = b
    BY <1>1, <1>2 DEF WriterRight
  <2>4. s = Headers(b)
    BY <1>2, SavedHeaders
  <2>5. Unsaved' = <<>>
    BY <2>1, <2>3, <2>4, UnsavedNone
  <2>. HIDE DEF gl
  <2>. QED
    BY <1>2, <2>1, <2>2, <2>5
<1>. QED
  BY <1>3, <1>4

(* What a step does to the promise.                                        *)
LEMMA ForgetMaps ==
    ASSUME Forgotten, ~spoiled, ~spoiled'
    PROVE  Record!Next
BY Zenon DEF Forgotten, Record!Next, Record!Forget

LEMMA RecordStep ==
    LogInv /\ LogInv' /\ [HNext]_hvars => [Record!Next]_Record!vars
<1>. SUFFICES ASSUME LogInv, LogInv', [HNext]_hvars
              PROVE  [Record!Next]_Record!vars
  OBVIOUS
<1>1. CASE spoiled'
  <2>1. Record!CallOff
    BY <1>1, Zenon DEF Record!CallOff
  <2>. QED
    BY <2>1, Zenon DEF Record!Next
<1>2. CASE ~spoiled' /\ spoiled
  BY <1>2, Zenon DEF HNext, hvars, vars
<1>3. CASE ~spoiled' /\ ~spoiled
  <2>. USE <1>3
  <2>1. CASE InitOverwrite /\ spoiled' = (spoiled \/ AnyDataSet)
    BY <2>1, OverwriteForgets, ForgetMaps, Zenon
  <2>2. CASE \E restartIfFull \in BOOLEAN :
               /\ InitAppend(restartIfFull)
               /\ spoiled' = \/ spoiled
                             \/ PageToLook = PAGES
                             \/ ReportsFull /\ restartIfFull
                             \/ copying # {}
    BY <2>2, AppendForgets, ForgetMaps, Zenon
  <2>3. CASE /\ AddDataSet
             /\ LET copies == DataSetAddress + 1 >= PER IN
                spoiled' = \/ spoiled
                           \/ copies /\ DataPageAddress + 1 >= PAGES
                           \/ copies /\ copying # {}
                           \/ copies /\ buffer[BufferInUse].tail = zero
    <3>1. DataPageAddress + 1 >= PAGES \/ DataPageAddress + 1 < PAGES
      BY Sizes DEF LogInv, Typed
    <3>2. /\ added' = added + 1
          /\ \/ Unsaved' = Append(Unsaved, added') /\ Log' = Log
             \/ Unsaved' = <<>> /\ Log' = Log \o Append(Unsaved, added')
      BY <2>3, <3>1, AddPromised, Zenon
    <3>3. Record!Add \/ Record!AddAndSave
      BY <3>2, Zenon DEF Record!Add, Record!AddAndSave
    <3>. QED
      BY <3>3, Zenon DEF Record!Next
  <2>4. CASE SaveDataToFlash /\ spoiled' = (spoiled \/ StaleBehind)
    <3>1. /\ added' = added
          /\ \/ Unsaved' = Unsaved /\ Log' = Log
             \/ Unsaved' = <<>> /\ Log' = Log \o Unsaved
      BY <2>4, SavePromised, Zenon
    <3>2. UNCHANGED Record!vars \/ Record!Save
      BY <3>1, Zenon DEF Record!vars, Record!Save
    <3>. QED
      BY <3>2, Zenon DEF Record!Next
  <2>5. CASE ReadBackData /\ UNCHANGED spoiled
    <3>1. /\ flash' = flash /\ UNCHANGED <<added, loggerVars>>
          /\ DataloggerInitalized => buffer'[BufferInUse] = buffer[BufferInUse]
      <4>1. BufferInUse \in Buffers => TempBuffer # BufferInUse
        BY DEF TempBuffer
      <4>. QED
        BY <2>5, <4>1 DEF ReadBackData, LogInv, Typed
    <3>2. added' = added /\ Unsaved' = Unsaved /\ Log' = Log
      BY <3>1, NothingChanges, Zenon
    <3>. QED
      BY <3>2, Zenon DEF Record!vars
  <2>6. CASE CopyDone /\ UNCHANGED <<loggerVars, added, spoiled>>
    <3>1. /\ flash' = flash /\ UNCHANGED <<added, loggerVars>>
          /\ buffer' = buffer
      BY <2>6 DEF CopyDone
    <3>2. added' = added /\ Unsaved' = Unsaved /\ Log' = Log
      BY <3>1, NothingChanges, Zenon
    <3>. QED
      BY <3>2, Zenon DEF Record!vars
  <2>7. CASE Reset /\ UNCHANGED spoiled
    BY <2>7, PlaceForgets, ForgetMaps, Zenon DEF Reset, flashVars
  <2>8. CASE PowerFail /\ spoiled' = (spoiled \/ copying # {})
    <3>1. flash' = flash
      <4>1. copying = {} /\ flash \in [Pages -> Page]
        BY <2>8 DEF LogInv, Typed
      <4>. QED
        BY <2>8, <4>1 DEF PowerFail, FlashPowerFail
    <3>. QED
      BY <2>8, <3>1, PlaceForgets, ForgetMaps, Zenon DEF PowerFail
  <2>9. CASE UNCHANGED hvars
    <3>1. flash' = flash /\ buffer' = buffer /\ UNCHANGED <<added, loggerVars>>
      BY <2>9 DEF hvars, vars, flashVars
    <3>2. added' = added /\ Unsaved' = Unsaved /\ Log' = Log
      BY <3>1, NothingChanges, Zenon
    <3>. QED
      BY <3>2, Zenon DEF Record!vars
  <2>. QED
    BY <2>1, <2>2, <2>3, <2>4, <2>5, <2>6, <2>7, <2>8, <2>9, Zenon DEF HNext
<1>. QED
  BY <1>1, <1>2, <1>3, Zenon

LEMMA RecordInit == HInit => Record!Init
<1>. SUFFICES ASSUME HInit PROVE Record!Init
  OBVIOUS
<1>1. LogInv
  BY LogInit
<1>2. Unsaved = <<>> /\ added = 0 /\ spoiled = FALSE
  BY DEF HInit, Init, Unsaved
<1>3. Log = <<>>
  <2>1. \A p \in Pages : Headers(flash[p]) = 0
    <3>1. \A p \in Pages : flash[p] = Erased
      BY DEF HInit, Init, FlashInit, Pages
    <3>2. \A k \in Slots : NoDataSet(Erased, k)
      BY DEF Erased, Blank, NoDataSet, Junk
    <3>3. Headers(Erased) = 0
      BY <3>2, HeadersAre, Sizes DEF Slots
    <3>. QED
      BY <3>1, <3>3
  <2>2. flash \in [Pages -> Page]
    BY <1>1 DEF LogInv, Typed
  <2>3. \A p \in Pages : ToSet(Run(flash[p])) = {}
    <3>1. \A p \in Pages : Run(flash[p]) = <<>>
      BY <2>1, <2>2, RunType
    <3>. QED
      BY <3>1 DEF ToSet
  <2>4. LogOf(flash) \in Seq(Nat) /\ ToSet(LogOf(flash)) = {}
    BY <2>2, <2>3, LogRange
  <2>5. LogOf(flash) = <<>>
    <3>1. DOMAIN LogOf(flash) = {}
      BY <2>4, Zenon DEF ToSet
    <3>. QED
      BY <2>4, <3>1
  <2>. QED
    BY <1>1, <2>5, MappedAlways DEF Mapped
<1>. QED
  BY <1>2, <1>3, Zenon DEF Record!Init

(* The storage of the logger keeps the promise of RecordLog.  The log only *)
(* grows at its end, by exactly the data sets added since, all of them and *)
(* in their order; what a restart made the logger forget never turns up;   *)
(* whatever the number of pages and of data sets in a page.                *)
THEOREM KeepsPromise == HSpec => ImplementsRecordLog
<1>1. HInit => Record!Init
  BY RecordInit
<1>2. LogInv /\ LogInv' /\ [HNext]_hvars => [Record!Next]_Record!vars
  BY RecordStep
<1>. QED
  BY <1>1, <1>2, LogAlways, PTL DEF HSpec, ImplementsRecordLog, Record!Spec
=============================================================================
