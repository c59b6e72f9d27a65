--------------------------- MODULE SequenceFacts ----------------------------
(***************************************************************************)
(* Facts about numbers and sequences the proofs about the data logger rest *)
(* on: the least number of a set, induction over sets of numbers, and what *)
(* FlattenSeq, a recursive function, makes of a sequence of sequences.     *)
(***************************************************************************)
EXTENDS SequencesExt, SequenceTheorems, WellFoundedInduction, TLAPS

(* A set of numbers that is not empty has a least one.                     *)
LEMMA LeastNumber ==
    ASSUME NEW T \in SUBSET Nat, T # {}
    PROVE  Min(T) \in T /\ \A m \in T : Min(T) <= m
<1>1. \A x, y \in Nat : y < x => <<y, x>> \in OpToRel(<, Nat)
  BY DEF OpToRel
<1>2. PICK R : IsWellFoundedOn(R, Nat) /\ \A x, y \in Nat : y < x => <<y, x>> \in R
  BY <1>1, NatLessThanWellFounded, Zenon
<1>3. PICK n \in T : \A m \in T : ~(<<m, n>> \in R)
  BY <1>2, WFMin, Zenon
<1>4. ASSUME NEW m \in T PROVE n <= m
  <2>1. m \in Nat /\ n \in Nat /\ ~(m < n)
    BY <1>2, <1>3
  <2>. QED
    BY <2>1
<1>. QED
  BY <1>4 DEF Min

(* Induction: a set that holds 0, and with each number the next one.       *)
LEMMA SetInduction ==
    ASSUME NEW S, 0 \in S, \A n \in Nat : n \in S => n + 1 \in S
    PROVE  \A n \in Nat : n \in S
<1>. SUFFICES ASSUME Nat \ S # {} PROVE FALSE
  OBVIOUS
<1>. DEFINE n == Min(Nat \ S)
<1>1. n \in Nat \ S /\ \A m \in Nat \ S : n <= m
  BY LeastNumber
<1>. HIDE DEF n
<1>2. n # 0
  BY <1>1
<1>3. n - 1 \in Nat /\ (n - 1) + 1 = n
  BY <1>1, <1>2
<1>4. n - 1 \in S
  BY <1>1, <1>3
<1>. QED
  BY <1>1, <1>3, <1>4

-----------------------------------------------------------------------------
(* The beginnings of a flattened sequence.                                 *)

Beginnings(ss, f) ==
    \A n \in Nat :
        n + 1 \in 1..Len(ss) => f[n + 1] = IF n = 0 THEN ss[1] ELSE f[n] \o ss[n + 1]

(* The recursive function in FlattenSeq exists.                            *)
LEMMA BeginningsExist ==
    ASSUME NEW ss, Len(ss) \in Nat
    PROVE  \E f : f = [i \in 1..Len(ss) |-> IF i = 1 THEN ss[i] ELSE f[i - 1] \o ss[i]]
<1>. DEFINE Upto(n, f) == f = [i \in 1..n |-> IF i = 1 THEN ss[i] ELSE f[i - 1] \o ss[i]]
            S == {n \in Nat : \E f : Upto(n, f)}
<1>1. 0 \in S
  <2>1. Upto(0, [i \in 1..0 |-> i])
    OBVIOUS
  <2>. QED
    BY <2>1, Zenon
<1>2. ASSUME NEW n \in Nat, n \in S PROVE n + 1 \in S
  <2>1. PICK f : Upto(n, f)
    BY <1>2, Zenon
  <2>. DEFINE g == [i \in 1..(n + 1) |->
                      IF i = 1 THEN ss[i] ELSE f[i - 1] \o ss[i]]
  <2>2. ASSUME NEW i \in 1..(n + 1), i # 1 PROVE g[i - 1] = f[i - 1]
    <3>1. i - 1 \in 1..n /\ i - 1 \in 1..(n + 1)
      BY <2>2
    <3>2. g[i - 1] = IF i - 1 = 1 THEN ss[i - 1] ELSE f[(i - 1) - 1] \o ss[i - 1]
      BY <3>1, Zenon
    <3>3. f[i - 1] = IF i - 1 = 1 THEN ss[i - 1] ELSE f[(i - 1) - 1] \o ss[i - 1]
      BY <2>1, <3>1, Zenon
    <3>. QED
      BY <3>2, <3>3, Zenon
  <2>3. g = [i \in 1..(n + 1) |-> IF i = 1 THEN ss[i] ELSE g[i - 1] \o ss[i]]
    BY <2>2, Zenon
  <2>. HIDE DEF g
  <2>4. \E h : Upto(n + 1, h)
    BY <2>3, Zenon
  <2>5. n + 1 \in Nat
    OBVIOUS
  <2>. QED
    BY <2>4, <2>5, Zenon
<1>3. Len(ss) \in S
  <2>. HIDE DEF S
  <2>. QED
    BY <1>1, <1>2, SetInduction
<1>. QED
  BY <1>3, Zenon

(* FlattenSeq is the longest beginning.                                    *)
LEMMA FlattenIsLast ==
    ASSUME NEW ss, Len(ss) \in Nat \ {0}
    PROVE  \E f : Beginnings(ss, f) /\ FlattenSeq(ss) = f[Len(ss)]
<1>. DEFINE Is(f) == f = [i \in 1..Len(ss) |-> IF i = 1 THEN ss[i] ELSE f[i - 1] \o ss[i]]
            c == CHOOSE f : Is(f)
<1>1. Is(c)
  BY BeginningsExist, Zenon
<1>2. FlattenSeq(ss) = c[Len(ss)]
  BY DEF FlattenSeq
<1>3. Beginnings(ss, c)
  <2>. HIDE DEF c
  <2>1. \A i \in 1..Len(ss) : c[i] = IF i = 1 THEN ss[i] ELSE c[i - 1] \o ss[i]
    BY <1>1, Zenon
  <2>2. ASSUME NEW n \in Nat, n + 1 \in 1..Len(ss)
        PROVE  c[n + 1] = IF n = 0 THEN ss[1] ELSE c[n] \o ss[n + 1]
    <3>1. (n + 1) - 1 = n /\ (n + 1 = 1 <=> n = 0) /\ (n = 0 => n + 1 = 1)
      OBVIOUS
    <3>2. c[n + 1] = IF n + 1 = 1 THEN ss[n + 1] ELSE c[(n + 1) - 1] \o ss[n + 1]
      BY <2>1, <2>2, Zenon
    <3>. QED
      BY <3>1, <3>2, Zenon
  <2>. QED
    BY <2>2, Zenon DEF Beginnings
<1>. QED
  BY <1>2, <1>3, Zenon

-----------------------------------------------------------------------------
(* What is read off the flattened sequence.                                *)

LEMMA BeginningsType ==
    ASSUME NEW T, NEW ss \in Seq(Seq(T)), NEW f, Beginnings(ss, f)
    PROVE  \A n \in 1..Len(ss) : f[n] \in Seq(T)
<1>. DEFINE S == {n \in Nat : n \in 1..Len(ss) => f[n] \in Seq(T)}
<1>1. 0 \in S
  OBVIOUS
<1>2. ASSUME NEW n \in Nat, n \in S PROVE n + 1 \in S
  <2>1. ASSUME n + 1 \in 1..Len(ss) PROVE f[n + 1] \in Seq(T)
    <3>1. ss[n + 1] \in Seq(T) /\ ss[1] \in Seq(T)
      BY <2>1
    <3>2. f[n + 1] = IF n = 0 THEN ss[1] ELSE f[n] \o ss[n + 1]
      BY <2>1, Zenon DEF Beginnings
    <3>3. n # 0 => f[n] \in Seq(T)
      BY <1>2, <2>1
    <3>. HIDE DEF S
    <3>. QED
      BY <3>1, <3>2, <3>3
  <2>. QED
    BY <2>1
<1>3. \A n \in Nat : n \in S
  <2>. HIDE DEF S
  <2>. QED
    BY <1>1, <1>2, SetInduction
<1>. QED
  BY <1>3

(* Two sequences of sequences with the same first m parts.                 *)
SameUpto(ss, tt, m) ==
    /\ Len(ss) \in Nat /\ Len(tt) \in Nat /\ m \in Nat
    /\ m <= Len(ss) /\ m <= Len(tt)
    /\ \A i \in 1..m : ss[i] = tt[i]

LEMMA BeginningsAgree ==
    ASSUME NEW ss, NEW f, Beginnings(ss, f), NEW tt, NEW g, Beginnings(tt, g),
           NEW m, SameUpto(ss, tt, m)
    PROVE  \A n \in 1..m : f[n] = g[n]
<1>. DEFINE S == {n \in Nat : n \in 1..m => f[n] = g[n]}
<1>. USE DEF SameUpto
<1>1. 0 \in S
  OBVIOUS
<1>2. ASSUME NEW n \in Nat, n \in S PROVE n + 1 \in S
  <2>1. ASSUME n + 1 \in 1..m PROVE f[n + 1] = g[n + 1]
    <3>1. ss[n + 1] = tt[n + 1] /\ ss[1] = tt[1]
      BY <2>1
    <3>2. n + 1 \in 1..Len(ss) /\ n + 1 \in 1..Len(tt)
      BY <2>1
    <3>3. /\ f[n + 1] = IF n = 0 THEN ss[1] ELSE f[n] \o ss[n + 1]
          /\ g[n + 1] = IF n = 0 THEN tt[1] ELSE g[n] \o tt[n + 1]
      BY <3>2, Zenon DEF Beginnings
    <3>4. n # 0 => f[n] = g[n]
      BY <1>2, <2>1
    <3>. QED
      BY <3>1, <3>3, <3>4, Zenon
  <2>. QED
    BY <2>1
<1>3. \A n \in Nat : n \in S
  <2>. HIDE DEF S
  <2>. QED
    BY <1>1, <1>2, SetInduction
<1>. QED
  BY <1>3

LEMMA ToSetConcat ==
    ASSUME NEW T, NEW s \in Seq(T), NEW t \in Seq(T)
    PROVE  ToSet(s \o t) = ToSet(s) \union ToSet(t)
<1>1. ASSUME NEW x \in ToSet(s \o t) PROVE x \in ToSet(s) \union ToSet(t)
  <2>1. PICK i \in 1..(Len(s) + Len(t)) : x = (s \o t)[i]
    BY DEF ToSet
  <2>2. CASE i <= Len(s)
    BY <2>1, <2>2 DEF ToSet
  <2>3. CASE i > Len(s)
    <3>1. i - Len(s) \in 1..Len(t) /\ x = t[i - Len(s)]
      BY <2>1, <2>3
    <3>. QED
      BY <3>1 DEF ToSet
  <2>. QED
    BY <2>2, <2>3
<1>2. ASSUME NEW x \in ToSet(s) PROVE x \in ToSet(s \o t)
  <2>1. PICK i \in 1..Len(s) : x = s[i]
    BY DEF ToSet
  <2>2. i \in 1..Len(s \o t) /\ x = (s \o t)[i]
    BY <2>1
  <2>. QED
    BY <2>2 DEF ToSet
<1>3. ASSUME NEW x \in ToSet(t) PROVE x \in ToSet(s \o t)
  <2>1. PICK i \in 1..Len(t) : x = t[i]
    BY DEF ToSet
  <2>2. /\ Len(s) + i \in 1..Len(s \o t)
        /\ x = (s \o t)[Len(s) + i]
    BY <2>1
  <2>. QED
    BY <2>2 DEF ToSet
<1>. QED
  BY <1>1, <1>2, <1>3

LEMMA BeginningsRange ==
    ASSUME NEW T, NEW ss \in Seq(Seq(T)), NEW f, Beginnings(ss, f)
    PROVE  \A n \in 1..Len(ss) : ToSet(f[n]) = UNION {ToSet(ss[i]) : i \in 1..n}
<1>. DEFINE S == {n \in Nat : n \in 1..Len(ss) =>
                        ToSet(f[n]) = UNION {ToSet(ss[i]) : i \in 1..n}}
<1>1. 0 \in S
  OBVIOUS
<1>2. ASSUME NEW n \in Nat, n \in S PROVE n + 1 \in S
  <2>1. ASSUME n + 1 \in 1..Len(ss)
        PROVE  ToSet(f[n + 1]) = UNION {ToSet(ss[i]) : i \in 1..(n + 1)}
    <3>1. ss[n + 1] \in Seq(T)
      BY <2>1
    <3>2. f[n + 1] = IF n = 0 THEN ss[1] ELSE f[n] \o ss[n + 1]
      BY <2>1, Zenon DEF Beginnings
    <3>3. CASE n = 0
      <4>1. f[n + 1] = ss[1]
        BY <3>2, <3>3
      <4>2. 1..(n + 1) = {1}
        BY <3>3
      <4>. QED
        BY <4>1, <4>2, Zenon
    <3>4. CASE n # 0
      <4>1. n \in 1..Len(ss)
        BY <2>1, <3>4
      <4>2. f[n] \in Seq(T)
        BY <4>1, BeginningsType, Zenon
      <4>3. ToSet(f[n] \o ss[n + 1]) = ToSet(f[n]) \union ToSet(ss[n + 1])
        BY <3>1, <4>2, ToSetConcat, Zenon
      <4>4. ToSet(f[n]) = UNION {ToSet(ss[i]) : i \in 1..n}
        BY <1>2, <4>1
      <4>5. 1..(n + 1) = 1..n \union {n + 1}
        OBVIOUS
      <4>. QED
        BY <3>2, <3>4, <4>3, <4>4, <4>5, Zenon
    <3>. QED
      BY <3>3, <3>4
  <2>. QED
    BY <2>1
<1>3. \A n \in Nat : n \in S
  <2>. HIDE DEF S
  <2>. QED
    BY <1>1, <1>2, SetInduction
<1>4. \A n \in 1..Len(ss) : n \in Nat
  OBVIOUS
<1>. QED
  BY <1>3, <1>4, Zenon

(* A flattened sequence holds what its parts hold.                         *)
LEMMA FlattenRange ==
    ASSUME NEW T, NEW ss \in Seq(Seq(T)), Len(ss) # 0
    PROVE  /\ FlattenSeq(ss) \in Seq(T)
           /\ ToSet(FlattenSeq(ss)) = UNION {ToSet(ss[i]) : i \in 1..Len(ss)}
<1>1. Len(ss) \in Nat \ {0} /\ Len(ss) \in 1..Len(ss)
  OBVIOUS
<1>2. PICK f : Beginnings(ss, f) /\ FlattenSeq(ss) = f[Len(ss)]
  BY <1>1, FlattenIsLast, Zenon
<1>. QED
  BY <1>1, <1>2, BeginningsType, BeginningsRange, Zenon

-----------------------------------------------------------------------------
Increasing(s) == \A i, j \in DOMAIN s : i < j => s[i] < s[j]

AllBelow(s, t) == \A x \in ToSet(s), y \in ToSet(t) : x < y

LEMMA IncreasingConcat ==
    ASSUME NEW s \in Seq(Nat), NEW t \in Seq(Nat),
           Increasing(s), Increasing(t), AllBelow(s, t)
    PROVE  Increasing(s \o t)
<1>. SUFFICES ASSUME NEW i \in 1..(Len(s) + Len(t)), NEW j \in 1..(Len(s) + Len(t)),
                     i < j
              PROVE  (s \o t)[i] < (s \o t)[j]
  BY DEF Increasing
<1>1. CASE j <= Len(s)
  <2>1. i \in DOMAIN s /\ j \in DOMAIN s /\ (s \o t)[i] = s[i] /\ (s \o t)[j] = s[j]
    BY <1>1
  <2>. QED
    BY <2>1 DEF Increasing
<1>2. CASE i > Len(s)
  <2>1. /\ i - Len(s) \in DOMAIN t /\ j - Len(s) \in DOMAIN t
        /\ (s \o t)[i] = t[i - Len(s)] /\ (s \o t)[j] = t[j - Len(s)]
        /\ i - Len(s) < j - Len(s)
    BY <1>2
  <2>. QED
    BY <2>1 DEF Increasing
<1>3. CASE i <= Len(s) /\ j > Len(s)
  <2>1. /\ i \in DOMAIN s /\ j - Len(s) \in DOMAIN t
        /\ (s \o t)[i] = s[i] /\ (s \o t)[j] = t[j - Len(s)]
    BY <1>3
  <2>2. (s \o t)[i] \in ToSet(s) /\ (s \o t)[j] \in ToSet(t)
    BY <2>1, Zenon DEF ToSet
  <2>. QED
    BY <2>2 DEF AllBelow
<1>. QED
  BY <1>1, <1>2, <1>3

(* Parts that increase, each above those in front of it, flatten to a      *)
(* sequence that increases.                                                *)
LEMMA FlattenIncreasing ==
    ASSUME NEW ss \in Seq(Seq(Nat)), Len(ss) # 0,
           \A i \in 1..Len(ss) : Increasing(ss[i]),
           \A i, j \in 1..Len(ss) : i < j => AllBelow(ss[i], ss[j])
    PROVE  Increasing(FlattenSeq(ss))
<1>1. Len(ss) \in Nat \ {0} /\ Len(ss) \in 1..Len(ss)
  OBVIOUS
<1>2. PICK f : Beginnings(ss, f) /\ FlattenSeq(ss) = f[Len(ss)]
  BY <1>1, FlattenIsLast, Zenon
<1>. DEFINE S == {n \in Nat : n \in 1..Len(ss) => Increasing(f[n])}
<1>3. 0 \in S
  OBVIOUS
<1>4. ASSUME NEW n \in Nat, n \in S PROVE n + 1 \in S
  <2>1. ASSUME n + 1 \in 1..Len(ss) PROVE Increasing(f[n + 1])
    <3>1. ss[n + 1] \in Seq(Nat) /\ Increasing(ss[n + 1])
      BY <2>1
    <3>2. f[n + 1] = IF n = 0 THEN ss[1] ELSE f[n] \o ss[n + 1]
      BY <1>2, <2>1, Zenon DEF Beginnings
    <3>3. CASE n = 0
      BY <3>1, <3>2, <3>3
    <3>4. CASE n # 0
      <4>1. n \in 1..Len(ss)
        BY <2>1, <3>4
      <4>2. f[n] \in Seq(Nat) /\ ToSet(f[n]) = UNION {ToSet(ss[i]) : i \in 1..n}
        BY <1>2, <4>1, BeginningsType, BeginningsRange, Zenon
      <4>3. Increasing(f[n])
        BY <1>4, <4>1
      <4>4. ASSUME NEW i \in 1..n PROVE AllBelow(ss[i], ss[n + 1])
        <5>1. i \in 1..Len(ss) /\ i < n + 1
          BY <2>1
        <5>. QED
          BY <2>1, <5>1, Zenon
      <4>5. AllBelow(f[n], ss[n + 1])
        BY <4>2, <4>4, Zenon DEF AllBelow
      <4>6. Increasing(f[n] \o ss[n + 1])
        BY <3>1, <4>2, <4>3, <4>5, IncreasingConcat, Zenon
      <4>. QED
        BY <3>2, <3>4, <4>6, Zenon
    <3>. QED
      BY <3>3, <3>4
  <2>. QED
    BY <2>1
<1>5. \A n \in Nat : n \in S
  <2>. HIDE DEF S
  <2>. QED
    BY <1>3, <1>4, SetInduction
<1>6. Increasing(f[Len(ss)])
  BY <1>1, <1>5
<1>. QED
  BY <1>2, <1>6, Zenon

-----------------------------------------------------------------------------
(* Behind part n there is none, or one without elements.                   *)
EndsAt(ss, n) ==
    Len(ss) = n \/ (Len(ss) = n + 1 /\ ss[n + 1] = <<>>)

LEMMA FlattenEnd ==
    ASSUME NEW T, NEW ss \in Seq(Seq(T)), NEW n \in Nat \ {0}, EndsAt(ss, n),
           NEW f, Beginnings(ss, f), FlattenSeq(ss) = f[Len(ss)]
    PROVE  FlattenSeq(ss) = f[n]
<1>1. CASE Len(ss) = n
  BY <1>1, Zenon
<1>2. CASE Len(ss) = n + 1 /\ ss[n + 1] = <<>>
  <2>1. n + 1 \in 1..Len(ss) /\ n \in 1..Len(ss) /\ n \in Nat /\ n # 0
    BY <1>2
  <2>2. f[n + 1] = f[n] \o <<>>
    BY <1>2, <2>1, Zenon DEF Beginnings
  <2>3. f[n] \in Seq(T)
    BY <2>1, BeginningsType, Zenon
  <2>4. f[n] \o <<>> = f[n]
    BY <2>3
  <2>. QED
    BY <1>2, <2>2, <2>4, Zenon
<1>. QED
  BY <1>1, <1>2 DEF EndsAt

(* In tt, the sequence u follows part n of ss, and nothing else does.      *)
Extended(ss, tt, n, u) ==
    /\ EndsAt(ss, n) /\ EndsAt(tt, n)
    /\ \A i \in 1..(n - 1) : ss[i] = tt[i]
    /\ tt[n] = ss[n] \o u

LEMMA FlattenAppend ==
    ASSUME NEW T, NEW ss \in Seq(Seq(T)), NEW tt \in Seq(Seq(T)),
           NEW u \in Seq(T), NEW n \in Nat \ {0}, Extended(ss, tt, n, u)
    PROVE  FlattenSeq(tt) = FlattenSeq(ss) \o u
<1>. DEFINE m == n - 1
<1>1. /\ Len(ss) \in Nat \ {0} /\ Len(tt) \in Nat \ {0}
      /\ n \in 1..Len(ss) /\ n \in 1..Len(tt)
      /\ m \in Nat /\ m + 1 = n
  BY DEF Extended, EndsAt
<1>2. PICK f : Beginnings(ss, f) /\ FlattenSeq(ss) = f[Len(ss)]
  BY <1>1, FlattenIsLast, Zenon
<1>3. PICK g : Beginnings(tt, g) /\ FlattenSeq(tt) = g[Len(tt)]
  BY <1>1, FlattenIsLast, Zenon
<1>4. SameUpto(ss, tt, m)
  BY <1>1 DEF SameUpto, Extended
<1>5. m # 0 => m \in 1..m /\ m \in 1..Len(ss)
  BY <1>1
<1>6. m = 0 => n = 1
  OBVIOUS
<1>. HIDE DEF m
<1>7. FlattenSeq(ss) = f[n] /\ FlattenSeq(tt) = g[n]
  BY <1>2, <1>3, FlattenEnd, Zenon DEF Extended
<1>8. /\ f[n] = IF m = 0 THEN ss[1] ELSE f[m] \o ss[n]
      /\ g[n] = IF m = 0 THEN tt[1] ELSE g[m] \o tt[n]
  BY <1>1, <1>2, <1>3, Zenon DEF Beginnings
<1>9. tt[n] = ss[n] \o u
  BY DEF Extended
<1>10. CASE m = 0
  BY <1>6, <1>7, <1>8, <1>9, <1>10, Zenon
<1>11. CASE m # 0
  <2>1. f[m] = g[m]
    <3>1. Beginnings(ss, f) /\ Beginnings(tt, g)
      BY <1>2, <1>3
    <3>2. \A k \in 1..m : f[k] = g[k]
      BY <1>4, <3>1, BeginningsAgree
    <3>. QED
      BY <1>5, <1>11, <3>2
  <2>2. f[m] \in Seq(T) /\ ss[n] \in Seq(T)
    BY <1>1, <1>2, <1>5, <1>11, BeginningsType
  <2>3. (f[m] \o ss[n]) \o u = f[m] \o (ss[n] \o u)
    <3>1. \A s, t \in Seq(T) : (s \o t) \o u = s \o (t \o u)
      BY ConcatAssociative
    <3>. QED
      BY <2>2, <3>1, Zenon
  <2>. QED
    BY <1>7, <1>8, <1>9, <1>11, <2>1, <2>3, Zenon
<1>. QED
  BY <1>10, <1>11
=============================================================================
