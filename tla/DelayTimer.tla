----------------------------- MODULE DelayTimer -----------------------------
(***************************************************************************)
(* DelayMS and the millisecond counter it waits on (Board/Hardware.c).     *)
(*                                                                         *)
(* ISR(TIMER0_COMPA_vect) counts ElapsedMS from 0 to ROLLOVER - 1.  DelayMS *)
(* reads the 16-bit counter on an 8-bit core with two loads, low byte      *)
(* first, and reads it in three places: where it looks for an overflow,    *)
(* where it computes WaitMS, and in its loop.  The timer may interrupt     *)
(* between any two loads.                                                  *)
(***************************************************************************)
EXTENDS Naturals

CONSTANTS
    BYTE,       \* the number of values of a byte, 256 in the program
    ROLLOVER,   \* 60000 in the program
    Requests    \* the values of ms DelayMS is called with

WORD == BYTE * BYTE

ASSUME DelayAssumption ==
    /\ BYTE \in Nat \ {0}
    /\ ROLLOVER \in Nat \ {0}
    /\ ROLLOVER < WORD
    /\ Requests \subseteq 0..(WORD - 1)

VARIABLES
    ElapsedMS,   \* the counter of the ISR
    pc,          \* where DelayMS is
    ms,          \* its argument
    over,        \* the branch it took: ms + ElapsedMS exceeded ROLLOVER
    WaitMS,      \* the value it waits for
    lo,          \* the low byte of the read in progress
    paced,       \* how much of a comparison the loop has made since the last tick
    ticks,       \* history: ticks since the call, counted up to ms + 2
    disturbed    \* history: a tick fell into a read, or between the check for
                 \* an overflow and the sum

locals  == <<ms, over, WaitMS, lo>>
history == <<ticks, disturbed>>
vars    == <<ElapsedMS, pc, locals, paced, history>>

Looping == {"loop_lo", "loop_hi"}
Labels  == {"idle", "check_lo", "check_hi", "assign_lo", "assign_hi", "returned"}
               \union Looping
Running == Labels \ {"idle", "returned"}

Init ==
    /\ ElapsedMS \in 0..(ROLLOVER - 1)
    /\ pc = "idle"
    /\ ms = 0 /\ over = FALSE /\ WaitMS = 0 /\ lo = 0
    /\ paced = "whole"
    /\ ticks = 0 /\ disturbed = FALSE

-----------------------------------------------------------------------------
(* DelayMS.                                                                *)

(* The two loads of a 16-bit read, and the value they give.                *)
LoadLow(from, to) ==
    /\ pc = from
    /\ lo' = ElapsedMS % BYTE
    /\ pc' = to

Read == (ElapsedMS \div BYTE) * BYTE + lo

(* 0, and whatever does not fit between two resets, returns at once.       *)
Call(m) ==
    /\ pc = "idle"
    /\ m # 0 /\ m < ROLLOVER
    /\ pc' = "check_lo"
    /\ ms' = m
    /\ UNCHANGED <<ElapsedMS, over, WaitMS, lo, paced, history>>

CheckLow ==
    /\ LoadLow("check_lo", "check_hi")
    /\ UNCHANGED <<ElapsedMS, ms, over, WaitMS, paced, history>>

(* ms + ElapsedMS is a sum of two words and wraps like one.                *)
Sum == (ms + Read) % WORD

CheckHigh ==
    /\ pc = "check_hi"
    /\ over' = (Sum > ROLLOVER)
    /\ pc' = "assign_lo"
    /\ UNCHANGED <<ElapsedMS, ms, WaitMS, lo, paced, history>>

AssignLow ==
    /\ LoadLow("assign_lo", "assign_hi")
    /\ UNCHANGED <<ElapsedMS, ms, over, WaitMS, paced, history>>

(* Mutant: the correction is that of a counter that runs to a full word.   *)
TargetOfWord == IF over THEN (Sum + ROLLOVER + 1) % WORD ELSE Sum

(* The difference is truncated to a word: it is negative if the counter    *)
(* was reset since the check.                                              *)
Target == IF over THEN (Sum + WORD - (ROLLOVER + 1)) % WORD ELSE Sum

AssignHigh ==
    /\ pc = "assign_hi"
    /\ WaitMS' = Target
    /\ pc' = "loop_lo"
    /\ UNCHANGED <<ElapsedMS, ms, over, lo, paced, history>>

LoopLow ==
    /\ LoadLow("loop_lo", "loop_hi")
    /\ paced' = IF paced = "none" THEN "half" ELSE paced
    /\ UNCHANGED <<ElapsedMS, ms, over, WaitMS, history>>

(* Mutant: only the byte loaded first is compared.                         *)
LoopHighByte ==
    /\ pc = "loop_hi"
    /\ pc' = IF lo = WaitMS THEN "returned" ELSE "loop_lo"
    /\ paced' = IF paced = "half" THEN "whole" ELSE paced
    /\ UNCHANGED <<ElapsedMS, locals, history>>

LoopHigh ==
    /\ pc = "loop_hi"
    /\ pc' = IF Read = WaitMS THEN "returned" ELSE "loop_lo"
    /\ paced' = IF paced = "half" THEN "whole" ELSE paced
    /\ UNCHANGED <<ElapsedMS, locals, history>>

(* The caller goes on; the locals are dead.                                *)
Return ==
    /\ pc = "returned"
    /\ pc' = "idle"
    /\ ms' = 0 /\ over' = FALSE /\ WaitMS' = 0 /\ lo' = 0
    /\ paced' = "whole"
    /\ ticks' = 0 /\ disturbed' = FALSE
    /\ UNCHANGED ElapsedMS

DelayMS ==
    \/ \E m \in Requests : Call(m)
    \/ CheckLow \/ CheckHigh
    \/ AssignLow \/ AssignHigh
    \/ LoopLow \/ LoopHigh
    \/ Return

-----------------------------------------------------------------------------
(* ISR(TIMER0_COMPA_vect): DelayMS cannot see the counter between the      *)
(* increment and the reset.                                                *)

TickToLimit(n) == IF n >= ROLLOVER THEN 0 ELSE n + 1   \* mutant: counts up to ROLLOVER
NextMS(n) == IF n + 1 >= ROLLOVER THEN 0 ELSE n + 1

(* A millisecond is thousands of instructions, so two ticks of a running   *)
(* DelayMS are separated by at least one whole comparison of its loop.     *)
Tick ==
    /\ paced = "whole"
    /\ ElapsedMS' = NextMS(ElapsedMS)
    /\ IF pc \in Running
       THEN /\ paced' = "none"
            /\ ticks' = IF ticks < ms + 2 THEN ticks + 1 ELSE ticks
            /\ disturbed' = (disturbed \/ pc \in {"check_hi", "assign_lo", "assign_hi", "loop_hi"})
       ELSE UNCHANGED <<paced, history>>
    /\ UNCHANGED <<pc, locals>>

Next == DelayMS \/ Tick

Spec == Init /\ [][Next]_vars /\ WF_vars(DelayMS) /\ WF_vars(Tick)

-----------------------------------------------------------------------------
(* What DelayMS and the timer promise.                                     *)

(* Types; DelayMS never sees the counter at ROLLOVER or beyond.            *)
TypeOK ==
    /\ ElapsedMS \in 0..(ROLLOVER - 1)
    /\ pc \in Labels
    /\ ms \in 0..(ROLLOVER - 1)
    /\ over \in BOOLEAN
    /\ WaitMS \in 0..(WORD - 1)
    /\ lo \in 0..(BYTE - 1)
    /\ paced \in {"none", "half", "whole"}
    /\ ticks \in 0..(ROLLOVER + 1)
    /\ disturbed \in BOOLEAN

(* Left alone by the timer in its reads, DelayMS(ms) returns after ms      *)
(* ticks, one more for a tick before its first read, one less across a     *)
(* reset of the counter.  A sum that wraps takes what is missing from      *)
(* ROLLOVER to a full word off the delay.                                  *)
DelayLength ==
    (pc = "returned" /\ ~disturbed) =>
        /\ ticks <= ms + 1
        /\ \/ ticks + 1 >= ms
           \/ /\ ms > WORD - ROLLOVER
              /\ ticks + (WORD - ROLLOVER) \in ms..(ms + 1)

(* A delay that waits for a value the counter reaches returns.             *)
ReachedDelayReturns ==
    (pc \in Looping /\ WaitMS < ROLLOVER) ~> (pc = "returned")

(* What the caller expects: DelayMS returns.                               *)
DelayReturns == (pc = "check_lo") ~> (pc = "returned")
=============================================================================
