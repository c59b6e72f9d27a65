-------------------------- MODULE DelayTimerProofs --------------------------
(***************************************************************************)
(* Proofs about DelayTimer for every size of a byte, every rollover and    *)
(* every set of requests: the types, and the length of a delay.            *)
(***************************************************************************)
EXTENDS DelayTimer, TLAPS

(***************************************************************************)
(* Arithmetic of words and bytes.                                          *)
(***************************************************************************)

LEMMA Sizes ==
    /\ BYTE \in Nat /\ BYTE > 0
    /\ ROLLOVER \in Nat /\ ROLLOVER > 0
    /\ WORD \in Nat /\ WORD > ROLLOVER
  BY DelayAssumption DEF WORD

LEMMA Zeroes ==
    0 \in 0..(ROLLOVER - 1) /\ 0 \in 0..(WORD - 1) /\ 0 \in 0..(BYTE - 1) /\ 0 \in 0..(ROLLOVER + 1)
  BY Sizes

(* A word reads back as its two bytes.                                     *)
LEMMA TwoBytes ==
    ASSUME NEW n \in Nat
    PROVE  /\ n % BYTE \in 0..(BYTE - 1)
           /\ (n \div BYTE) * BYTE + (n % BYTE) = n
           /\ n \div BYTE \in Nat
  BY DelayAssumption

(* A sum of two words wraps at most once.                                  *)
LEMMA WrapsOnce ==
    ASSUME NEW n \in Nat, n < 2 * WORD
    PROVE  /\ n % WORD \in 0..(WORD - 1)
           /\ n % WORD = IF n < WORD THEN n ELSE n - WORD
<1>. DEFINE W == WORD
<1>1. W \in Nat /\ W > 0
  BY Sizes
<1>2. ASSUME NEW w \in Nat, w > 0, n < 2 * w
      PROVE  n % w \in 0..(w - 1) /\ n % w = IF n < w THEN n ELSE n - w
  BY <1>2
<1>. QED
  BY <1>1, <1>2

LEMMA ReadType ==
    ASSUME TypeOK
    PROVE  /\ Read \in Nat
           /\ Sum \in 0..(WORD - 1)
           /\ Target \in 0..(WORD - 1)
           /\ lo = ElapsedMS % BYTE => Read = ElapsedMS
<1>1. ElapsedMS \in Nat /\ lo \in Nat /\ ms \in Nat /\ BYTE \in Nat \ {0} /\ ROLLOVER \in Nat
  BY DelayAssumption DEF TypeOK
<1>2. ElapsedMS \div BYTE \in Nat
  BY <1>1, TwoBytes
<1>3. Read \in Nat
  BY <1>1, <1>2 DEF Read
<1>4. \A n \in Nat : n % WORD \in 0..(WORD - 1)
  <2>. SUFFICES ASSUME NEW n \in Nat, NEW w \in Nat, w > 0
                PROVE  n % w \in 0..(w - 1)
    BY Sizes
  <2>. QED
    OBVIOUS
<1>5. Sum \in 0..(WORD - 1)
  BY <1>1, <1>3, <1>4 DEF Sum
<1>6. Sum + WORD - (ROLLOVER + 1) \in Nat
  BY <1>1, <1>5, Sizes, DelayAssumption
<1>7. Target \in 0..(WORD - 1)
  BY <1>4, <1>5, <1>6 DEF Target
<1>8. lo = ElapsedMS % BYTE => Read = ElapsedMS
  BY <1>1, TwoBytes DEF Read
<1>. QED
  BY <1>3, <1>5, <1>7, <1>8

(***************************************************************************)
(* Types.                                                                  *)
(***************************************************************************)

(* The safety properties rest on the steps alone, not on fairness: they    *)
(* hold as well for whoever takes these steps inside larger ones.          *)
Steps == Init /\ [][Next]_vars

LEMMA TypeOfSteps == Steps => []TypeOK
<1>1. Init => TypeOK
  BY Zeroes DEF Init, TypeOK, Labels, Looping
<1>2. TypeOK /\ [Next]_vars => TypeOK'
  <2>. SUFFICES ASSUME TypeOK, [Next]_vars PROVE TypeOK'
    OBVIOUS
  <2>. USE DEF locals, history, Labels, Looping
  <2>1. ASSUME NEW m \in Requests, Call(m) PROVE TypeOK'
    BY <2>1, DelayAssumption, Sizes DEF Call, TypeOK
  <2>2. CASE CheckLow \/ AssignLow \/ LoopLow
    <3>1. lo' \in 0..(BYTE - 1)
      BY <2>2, TwoBytes DEF CheckLow, AssignLow, LoopLow, LoadLow, TypeOK
    <3>. QED
      BY <2>2, <3>1 DEF CheckLow, AssignLow, LoopLow, LoadLow, TypeOK
  <2>3. CASE CheckHigh
    BY <2>3, ReadType DEF CheckHigh, TypeOK
  <2>4. CASE AssignHigh
    BY <2>4, ReadType DEF AssignHigh, TypeOK
  <2>5. CASE LoopHigh
    BY <2>5 DEF LoopHigh, TypeOK
  <2>6. CASE Return
    BY <2>6, Zeroes DEF Return, TypeOK
  <2>7. CASE Tick
    <3>1. ElapsedMS' \in 0..(ROLLOVER - 1)
      BY <2>7, DelayAssumption DEF Tick, NextMS, TypeOK
    <3>2. ticks' \in 0..(ROLLOVER + 1)
      BY <2>7, DelayAssumption DEF Tick, TypeOK
    <3>. QED
      BY <2>7, <3>1, <3>2 DEF Tick, TypeOK
  <2>8. CASE UNCHANGED vars
    BY <2>8 DEF vars, TypeOK
  <2>. QED
    BY <2>1, <2>2, <2>3, <2>4, <2>5, <2>6, <2>7, <2>8 DEF Next, DelayMS
<1>. QED
  BY <1>1, <1>2, PTL DEF Steps

(* The counter stays below ROLLOVER at every load of DelayMS, and all      *)
(* values stay in their words and bytes.                                   *)
THEOREM TypeCorrect == Spec => []TypeOK
BY TypeOfSteps, PTL DEF Spec, Steps

(***************************************************************************)
(* The length of a delay.                                                  *)
(*                                                                         *)
(* Gap is what the counter is away from WaitMS.  While the loop runs and   *)
(* the timer has not disturbed a read, Gap and the ticks since the call    *)
(* add up to the delay asked for; or WaitMS is ROLLOVER, which the counter *)
(* never shows.  When Gap is 0 the pacing holds the next tick back until   *)
(* the loop has seen it.                                                   *)
(***************************************************************************)

Gap == IF WaitMS >= ElapsedMS THEN WaitMS - ElapsedMS ELSE WaitMS + ROLLOVER - ElapsedMS

Before == {"check_lo", "check_hi", "assign_lo", "assign_hi"}

Short == WORD - ROLLOVER   \* what a wrapped sum takes off

(* The delay n differs from what was asked for as DelayLength allows.      *)
Length(n) ==
    /\ n <= ms + 1
    /\ \/ n + 1 >= ms
       \/ ms > Short /\ n + Short \in ms..(ms + 1)

DelayInv ==
    /\ pc = "idle" => paced = "whole" /\ ticks = 0 /\ ~disturbed
    /\ pc \in Before \union Looping \union {"returned"} => ms > 0
    /\ pc \in Before => \/ paced = "whole" /\ ticks = 0
                        \/ paced = "none" /\ ticks = 1
    /\ ~disturbed =>
        /\ pc \in {"check_hi", "assign_hi", "loop_hi"} => lo = ElapsedMS % BYTE
        /\ pc \in {"assign_lo", "assign_hi"} => over = ((ms + ElapsedMS) % WORD > ROLLOVER)
        /\ pc \in Looping =>
             \/ WaitMS = ROLLOVER
             \/ /\ WaitMS < ROLLOVER
                /\ Length(Gap + ticks)
                /\ Gap = 0 => /\ paced = "none" => pc = "loop_lo"
                              /\ paced # "whole"
        /\ pc = "returned" => Length(ticks)

(* Where WaitMS is computed, what the sum gives.                           *)
LEMMA AssignGivesLength ==
    ASSUME TypeOK, DelayInv, pc = "assign_hi", ~disturbed, AssignHigh
    PROVE  \/ WaitMS' = ROLLOVER
           \/ WaitMS' < ROLLOVER /\ Length(Gap + ticks)' /\ Gap' > 0
<1>. DEFINE s == ms + ElapsedMS
<1>1. /\ ms \in Nat /\ ms > 0 /\ ms < ROLLOVER /\ ElapsedMS \in Nat /\ ElapsedMS < ROLLOVER
      /\ ticks \in {0, 1}
  BY Sizes DEF TypeOK, DelayInv, Before
<1>2. Sum = s % WORD /\ over = (s % WORD > ROLLOVER)
  BY ReadType DEF Sum, DelayInv
<1>3. s \in Nat /\ s < 2 * WORD
  BY <1>1, Sizes
<1>4. s % WORD = IF s < WORD THEN s ELSE s - WORD
  BY <1>3, WrapsOnce
<1>5. UNCHANGED <<ElapsedMS, ms, ticks>> /\ WaitMS' = Target
  BY DEF AssignHigh, history
<1>6. CASE s >= WORD
  <2>1. s % WORD = s - WORD /\ s - WORD < ROLLOVER /\ ~(s - WORD > ROLLOVER)
    BY <1>1, <1>3, <1>4, <1>6, Sizes
  <2>2. ~over /\ WaitMS' = s - WORD
    BY <1>2, <1>5, <2>1 DEF Target
  <2>3. Gap' = ms - Short /\ ms > Short /\ WaitMS' < ROLLOVER
    BY <1>1, <1>3, <1>5, <1>6, <2>2, Sizes DEF Gap, Short
  <2>. QED
    BY <1>1, <1>5, <2>3, Sizes DEF Length, Short
<1>7. CASE s < WORD /\ s > ROLLOVER
  <2>1. over /\ Sum = s
    BY <1>2, <1>4, <1>7
  <2>2. s + WORD - (ROLLOVER + 1) \in Nat /\ s + WORD - (ROLLOVER + 1) < 2 * WORD
        /\ s + WORD - (ROLLOVER + 1) >= WORD
    BY <1>3, <1>7, Sizes
  <2>3. WaitMS' = s - (ROLLOVER + 1)
    BY <1>3, <1>5, <2>1, <2>2, WrapsOnce, Sizes DEF Target
  <2>4. Gap' = ms - 1 /\ WaitMS' < ROLLOVER /\ ms > 1
    BY <1>1, <1>5, <1>7, <2>3, Sizes DEF Gap
  <2>. QED
    BY <1>1, <1>5, <2>4 DEF Length
<1>8. CASE s <= ROLLOVER
  <2>a. s < WORD /\ ~(s > ROLLOVER)
    BY <1>3, <1>8, Sizes
  <2>1. WaitMS' = s
    BY <1>2, <1>4, <1>5, <2>a DEF Target
  <2>2. CASE s < ROLLOVER
    <3>1. Gap' = ms
      BY <1>1, <1>5, <2>1 DEF Gap
    <3>. QED
      BY <1>1, <1>5, <2>1, <2>2, <3>1 DEF Length
  <2>. QED
    BY <1>3, <1>8, <2>1, <2>2, Sizes
<1>. QED
  BY <1>3, <1>6, <1>7, <1>8, Sizes

(* A tick of a running loop brings the counter one nearer.                 *)
LEMMA TickClosesGap ==
    ASSUME TypeOK, pc \in Looping, WaitMS < ROLLOVER, Gap # 0, Length(Gap + ticks), Tick
    PROVE  WaitMS' < ROLLOVER /\ Length(Gap + ticks)'
<1>1. /\ ms \in Nat /\ ElapsedMS \in Nat /\ ElapsedMS < ROLLOVER /\ WaitMS \in Nat /\ ticks \in Nat
  BY Sizes DEF TypeOK
<1>2. /\ WaitMS' = WaitMS /\ ms' = ms
      /\ ElapsedMS' = IF ElapsedMS + 1 >= ROLLOVER THEN 0 ELSE ElapsedMS + 1
      /\ ticks' = IF ticks < ms + 2 THEN ticks + 1 ELSE ticks
  BY DEF Tick, locals, NextMS, Running, Labels, Looping
<1>3. Gap \in Nat /\ Gap > 0
  BY <1>1, Sizes DEF Gap
<1>4. ticks' = ticks + 1
  BY <1>1, <1>2, <1>3 DEF Length
<1>5. Gap' = Gap - 1
  BY <1>1, <1>2, <1>3, Sizes DEF Gap
<1>. QED
  BY <1>1, <1>2, <1>3, <1>4, <1>5 DEF Length

LEMMA DelayLengthOfSteps == Steps => []DelayLength
<1>1. Init => DelayInv
  BY DEF Init, DelayInv, Before, Looping
<1>2. TypeOK /\ DelayInv /\ [Next]_vars => DelayInv'
  <2>. SUFFICES ASSUME TypeOK, DelayInv, [Next]_vars PROVE DelayInv'
    OBVIOUS
  <2>. USE DEF locals, history, Looping, Before
  <2>1. ASSUME NEW m \in Requests, Call(m) PROVE DelayInv'
    BY <2>1, DelayAssumption DEF Call, DelayInv
  <2>2. CASE CheckLow \/ AssignLow
    BY <2>2 DEF CheckLow, AssignLow, LoadLow, DelayInv
  <2>3. CASE CheckHigh
    BY <2>3, ReadType DEF CheckHigh, Sum, DelayInv
  <2>4. CASE AssignHigh
    <3>1. CASE disturbed
      BY <2>4, <3>1 DEF AssignHigh, DelayInv
    <3>2. CASE ~disturbed
      <4>1. \/ WaitMS' = ROLLOVER
            \/ WaitMS' < ROLLOVER /\ Length(Gap + ticks)' /\ Gap' > 0
        BY <2>4, <3>2, AssignGivesLength DEF AssignHigh
      <4>. QED
        BY <2>4, <4>1 DEF AssignHigh, DelayInv
    <3>. QED
      BY <3>1, <3>2
  <2>5. CASE LoopLow
    BY <2>5 DEF LoopLow, LoadLow, DelayInv, Gap, Length
  <2>6. CASE LoopHigh
    <3>1. UNCHANGED <<ElapsedMS, ms, over, WaitMS, lo, ticks, disturbed>> /\ pc = "loop_hi"
      BY <2>6 DEF LoopHigh
    <3>2. ~disturbed => Read = ElapsedMS
      BY <3>1, ReadType DEF DelayInv
    <3>3. CASE Read = WaitMS
      <4>1. ~disturbed => Gap = 0 /\ WaitMS < ROLLOVER
        BY <3>2, <3>3, Sizes DEF Gap, TypeOK
      <4>2. ~disturbed => Length(ticks)
        BY <3>1, <4>1 DEF DelayInv, TypeOK
      <4>. QED
        BY <2>6, <3>1, <3>3, <4>2 DEF LoopHigh, DelayInv, Length
    <3>4. CASE Read # WaitMS
      <4>1. ~disturbed /\ WaitMS < ROLLOVER => Gap # 0
        BY <3>2, <3>4, Sizes DEF Gap, TypeOK
      <4>. QED
        BY <2>6, <3>1, <3>4, <4>1 DEF LoopHigh, DelayInv, Gap, Length, TypeOK
    <3>. QED
      BY <3>3, <3>4
  <2>7. CASE Return
    BY <2>7 DEF Return, DelayInv
  <2>8. CASE Tick
    <3>1. UNCHANGED <<pc, ms, over, WaitMS, lo>> /\ paced = "whole"
      BY <2>8 DEF Tick
    <3>2. CASE pc \in {"idle", "returned"}
      BY <2>8, <3>1, <3>2 DEF Tick, Running, DelayInv, Length
    <3>3. CASE pc \in Before
      <4>1. paced' = "none" /\ ticks = 0 /\ ms > 0 /\ ms \in Nat
        BY <2>8, <3>1, <3>3, Sizes DEF Tick, Running, Labels, DelayInv, TypeOK
      <4>2. ticks' = 1
        BY <2>8, <3>3, <4>1 DEF Tick, Running, Labels
      <4>3. pc # "check_lo" => disturbed'
        BY <2>8, <3>3 DEF Tick, Running, Labels
      <4>. QED
        BY <3>1, <3>3, <4>1, <4>2, <4>3 DEF DelayInv
    <3>4. CASE pc = "loop_hi"
      BY <2>8, <3>1, <3>4 DEF Tick, Running, Labels, DelayInv
    <3>5. CASE pc = "loop_lo"
      <4>1. (~disturbed' => ~disturbed) /\ paced' = "none"
        BY <2>8, <3>5 DEF Tick, Running, Labels
      <4>2. ~disturbed' => WaitMS' = ROLLOVER \/ (WaitMS' < ROLLOVER /\ Length(Gap + ticks)')
        BY <2>8, <3>1, <3>5, <4>1, TickClosesGap DEF DelayInv
      <4>. QED
        BY <3>1, <3>5, <4>1, <4>2 DEF DelayInv
    <3>. QED
      BY <3>2, <3>3, <3>4, <3>5 DEF TypeOK, Labels
  <2>9. CASE UNCHANGED vars
    BY <2>9 DEF vars, DelayInv, Gap, Length
  <2>. QED
    BY <2>1, <2>2, <2>3, <2>4, <2>5, <2>6, <2>7, <2>8, <2>9 DEF Next, DelayMS
<1>3. DelayInv => DelayLength
  BY DEF DelayInv, DelayLength, Length, Short
<1>. QED
  BY <1>1, <1>2, <1>3, TypeOfSteps, PTL DEF Steps

(* A delay that no tick disturbed has the length asked for, but for one    *)
(* tick at either end and for the wrap of the 16-bit sum.                  *)
THEOREM DelayLengthCorrect == Spec => []DelayLength
BY DelayLengthOfSteps, PTL DEF Spec, Steps
=============================================================================
