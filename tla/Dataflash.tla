----------------------------- MODULE Dataflash -----------------------------
(***************************************************************************)
(* The AT45DB321D data flash as Board/at45db321d.c drives it: pages that   *)
(* are read into, and written from, one of two RAM buffers of the chip.    *)
(*                                                                         *)
(* A page is seen as the data logger divides it: PER slots of one data set *)
(* each, and the bytes left at its end.  A slot holds a data set, named by *)
(* its number, or no header; all that matters of bytes that are no header  *)
(* is the size they seem to give: 255 if they are erased, 0 if zero.       *)
(* In the bytes at the end a header may have been left by a data set that  *)
(* was written across the end of the page.                                 *)
(***************************************************************************)
EXTENDS Naturals, FiniteSetsExt

CONSTANTS
    PAGES,     \* 0x2000 in the program
    PER,       \* data sets in a page, 26 in the program
    erased,    \* no header: bytes 0xFF
    zero,      \* no header: bytes 0
    PowerUp    \* what the chip's buffers may hold after power-up

Junk    == {erased, zero}
Slots   == 0..(PER - 1)
DataSet == Nat \ {0}

ASSUME DataflashAssumption ==
    /\ PAGES \in Nat \ {0, 1}
    /\ PER \in Nat \ {0}
    /\ erased # zero /\ \A j \in Junk : j \notin Nat
    /\ PowerUp \subseteq Junk /\ PowerUp # {}

Page   == [slot : [Slots -> DataSet \union Junk], tail : Junk \union {"header"}]
Blank(j) == [slot |-> [k \in Slots |-> j], tail |-> j]
Erased == Blank(erased)

VARIABLES
    flash,     \* the pages
    buffer,    \* the two buffers
    copying    \* the pages being erased and programmed: none or one

flashVars == <<flash, buffer, copying>>

NoDataSet(page, k) == page.slot[k] \in Junk

FlashInit ==
    /\ flash = [p \in 0..(PAGES - 1) |-> Erased]
    /\ buffer \in [1..2 -> {Blank(j) : j \in PowerUp}]
    /\ copying = {}

(* AT45DB321D_SendPageAddress: the bit above the page number is not used   *)
(* by the chip.                                                            *)
Physical(p) == p % PAGES

(* AT45DB321D_CopyBufferToPage starts the copy and does not wait.  The     *)
(* chip ignores the command while it is busy.                              *)
CopyBufferToPage(content, p) ==
    IF copying = {}
    THEN /\ flash' = [flash EXCEPT ![Physical(p)] = content]
         /\ copying' = {Physical(p)}
    ELSE UNCHANGED <<flash, copying>>

(* AT45DB321D_BufferWrite of the data set d at slot k.  At the end of the  *)
(* page the chip goes on at the start of the buffer, so a data set written *)
(* behind the last slot leaves its data on the header of the first one.    *)
BufferWrite(page, k, d) ==
    IF k < PER THEN [page EXCEPT !.slot[k] = d]
               ELSE [page EXCEPT !.slot[0] = zero, !.tail = "header"]

(* The chip is ready again.                                                *)
CopyDone ==
    /\ copying # {}
    /\ copying' = {}
    /\ UNCHANGED <<flash, buffer>>

(* Power is lost: the buffers are, and so is a page that is being copied.  *)
FlashPowerFail ==
    /\ flash' = [p \in DOMAIN flash |-> IF p \in copying THEN Erased ELSE flash[p]]
    /\ buffer' \in [1..2 -> {Blank(j) : j \in PowerUp}]
    /\ copying' = {}

FlashTypeOK ==
    /\ flash \in [0..(PAGES - 1) -> Page]
    /\ buffer \in [1..2 -> Page]
    /\ copying \in {{}} \union {{p} : p \in 0..(PAGES - 1)}
=============================================================================
