----------------------------- MODULE RecordLog ------------------------------
(***************************************************************************)
(* What the data logger promises its user, without pages, buffers and      *)
(* headers: a log that only grows, and data sets on their way to it.  They *)
(* reach it all together, in the order in which they were added, or not at *)
(* all: a start of the logger, a reset or a loss of power may forget them. *)
(* What was forgotten never turns up later.                                *)
(*                                                                         *)
(* The promise may be called off once, and for good.                       *)
(***************************************************************************)
EXTENDS Naturals, Sequences

VARIABLES
    log,       \* the data sets that are read back
    unsaved,   \* the data sets added since
    added,     \* the number of data sets added so far, the name of the last
    intact     \* the promise still holds

vars == <<added, intact, unsaved, log>>

Init == log = <<>> /\ unsaved = <<>> /\ added = 0 /\ intact = TRUE

Add ==
    /\ added' = added + 1
    /\ unsaved' = Append(unsaved, added')
    /\ UNCHANGED log

Save ==
    /\ UNCHANGED added
    /\ unsaved' = <<>>
    /\ log' = log \o unsaved

(* The data set that fills a page is saved with the page.                  *)
AddAndSave ==
    /\ added' = added + 1
    /\ unsaved' = <<>>
    /\ log' = log \o Append(unsaved, added')

Forget == UNCHANGED added /\ unsaved' = <<>> /\ UNCHANGED log

CallOff == intact' = FALSE

Next ==
    \/ intact /\ UNCHANGED intact /\ (Add \/ Save \/ AddAndSave \/ Forget)
    \/ CallOff

Spec == Init /\ [][Next]_vars
=============================================================================
