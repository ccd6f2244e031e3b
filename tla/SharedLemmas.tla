---------------------------- MODULE SharedLemmas ----------------------------
(* Facts about numbers and sequences that the proofs about the protocol and *)
(* about parameter sets both rest on: induction over sets of numbers, which *)
(* the well-foundedness of < supports, functions defined along the numbers, *)
(* and where the elements of joined sequences lie.                          *)
EXTENDS Integers, Sequences, SequenceTheorems, WellFoundedInduction, TLAPS

NatLess == {ss \in Nat \X Nat : ss[1] < ss[2]}

LEMMA NatLessIsWellFounded == IsWellFoundedOn(NatLess, Nat)
<1>1. IsWellFoundedOn(OpToRel(<, Nat), Nat)  BY NatLessThanWellFounded, Zenon
<1>2. NatLess = OpToRel(<, Nat)  BY Zenon DEF OpToRel, NatLess
<1> QED BY <1>1, <1>2, Zenon

LEMMA SetInduction ==
    ASSUME NEW S \in SUBSET Nat, 0 \in S, \A n \in S : n + 1 \in S
    PROVE  S = Nat
<1> DEFINE T == Nat \ S
<1> SUFFICES ASSUME T # {} PROVE FALSE  OBVIOUS
<1>1. PICK x \in T : \A y \in T : ~ (<<y, x>> \in NatLess)
  <2> HIDE DEF T
  <2>1. T \subseteq Nat  BY DEF T
  <2> QED BY <2>1, NatLessIsWellFounded, WFMin
<1>2. \A y \in T : ~ (y < x)  BY <1>1 DEF NatLess
<1>3. x # 0 /\ x - 1 \in Nat  OBVIOUS
<1>4. x - 1 \in S  BY <1>2, <1>3
<1> QED BY <1>3, <1>4

LEMMA LeastElement ==
    ASSUME NEW T \in SUBSET Nat, T # {}
    PROVE  \E x \in T : \A y \in T : x <= y
<1>1. PICK x \in T : \A y \in T : ~ (<<y, x>> \in NatLess)
      BY NatLessIsWellFounded, WFMin
<1>2. \A y \in T : ~ (y < x)  BY <1>1 DEF NatLess
<1> QED BY <1>2

LEMMA BoundedInduction ==
    ASSUME NEW N \in Nat, NEW T, 0 \in T, \A k \in 1..N : k - 1 \in T => k \in T
    PROVE  \A k \in 0..N : k \in T
<1> DEFINE S == {n \in Nat : n <= N => n \in T}
<1>1. 0 \in S  OBVIOUS
<1>2. ASSUME NEW n \in S PROVE n + 1 \in S
  <2>1. ASSUME n + 1 <= N PROVE n + 1 \in T
    <3>1. n \in Nat /\ n \in T  BY <2>1
    <3>2. n + 1 \in 1..N /\ (n + 1) - 1 = n  BY <2>1, <3>1
    <3> HIDE DEF S
    <3> QED BY <3>1, <3>2
  <2> QED BY <2>1
<1>3. S = Nat
  <2>1. S \in SUBSET Nat  OBVIOUS
  <2> HIDE DEF S
  <2> QED BY <1>1, <1>2, <2>1, SetInduction
<1> QED BY <1>3

\* A function defined from each value to the next exists.
LEMMA Recursion ==
    ASSUME NEW V, NEW first \in V, NEW N \in Nat, NEW step \in [1..N -> [V -> V]]
    PROVE  \E f \in [0..N -> V] : f[0] = first /\ \A k \in 1..N : f[k] = step[k][f[k - 1]]
<1> DEFINE Upto(f, n) == f[0] = first /\ \A k \in 1..n : f[k] = step[k][f[k - 1]]
           T == {n \in 0..N : \E f \in [0..n -> V] : Upto(f, n)}
<1>1. 0 \in T
  <2> DEFINE f == [k \in 0..0 |-> first]
  <2>1. f \in [0..0 -> V] /\ Upto(f, 0)  OBVIOUS
  <2> HIDE DEF f, Upto
  <2> QED BY <2>1
<1>2. ASSUME NEW n \in 1..N, n - 1 \in T PROVE n \in T
  <2>1. PICK f \in [0..(n - 1) -> V] : Upto(f, n - 1)  BY <1>2
  <2> DEFINE g == [k \in 0..n |-> IF k = n THEN step[n][f[n - 1]] ELSE f[k]]
  <2>2. g \in [0..n -> V]
    <3>1. step[n][f[n - 1]] \in V  OBVIOUS
    <3>2. \A k \in 0..n : k # n => k \in 0..(n - 1)  OBVIOUS
    <3> QED BY <3>1, <3>2
  <2>3. g[0] = first  BY <2>1
  <2>4. ASSUME NEW k \in 1..n PROVE g[k] = step[k][g[k - 1]]
    <3>1. g[k - 1] = f[k - 1]  OBVIOUS
    <3>2. CASE k = n  BY <3>1, <3>2
    <3>3. CASE k # n
      <4>1. k \in 1..(n - 1) /\ g[k] = f[k]  BY <3>3
      <4> HIDE DEF g
      <4> QED BY <2>1, <3>1, <4>1
    <3> QED BY <3>2, <3>3
  <2> HIDE DEF g
  <2>5. Upto(g, n)  BY <2>3, <2>4
  <2> HIDE DEF Upto
  <2>6. n \in 0..N  OBVIOUS
  <2> QED BY <2>2, <2>5, <2>6
<1>3. N \in T
  <2> HIDE DEF T
  <2>1. \A k \in 0..N : k \in T  BY <1>1, <1>2, BoundedInduction, Zenon
  <2> QED BY <2>1
<1> QED BY <1>3

\* What is computed from each number to the next stays where its steps stay.
LEMMA StaysIn ==
    ASSUME NEW V, NEW N \in Nat, NEW step \in [1..N -> [V -> V]], NEW h, h[0] \in V,
           \A k \in 1..N : h[k - 1] \in V => h[k] = step[k][h[k - 1]]
    PROVE  \A k \in 0..N : h[k] \in V
<1> DEFINE T == {k \in 0..N : h[k] \in V}
<1>1. 0 \in T  OBVIOUS
<1>2. ASSUME NEW k \in 1..N, k - 1 \in T PROVE k \in T
  <2>1. h[k - 1] \in V /\ h[k] = step[k][h[k - 1]]  BY <1>2
  <2> QED BY <2>1
<1> HIDE DEF T
<1>3. \A k \in 0..N : k \in T  BY <1>1, <1>2, BoundedInduction, Zenon
<1> QED BY <1>3 DEF T

-----------------------------------------------------------------------------
LEMMA Concatenated ==
    ASSUME NEW S, NEW front \in Seq(S), NEW back \in Seq(S)
    PROVE  /\ front \o back \in Seq(S)
           /\ Len(front \o back) = Len(front) + Len(back)
           /\ \A i \in 1..Len(front) : (front \o back)[i] = front[i]
           /\ \A i \in 1..Len(back) : (front \o back)[Len(front) + i] = back[i]
<1> DEFINE both == front \o back
<1>1. /\ both \in Seq(S)
      /\ Len(both) = Len(front) + Len(back)
      /\ \A i \in 1..(Len(front) + Len(back)) :
             both[i] = IF i <= Len(front) THEN front[i] ELSE back[i - Len(front)]
      BY ConcatProperties
<1>2. Len(front) \in Nat /\ Len(back) \in Nat  OBVIOUS
<1> HIDE DEF both
<1>3. ASSUME NEW i \in 1..Len(front) PROVE both[i] = front[i]
  <2>1. i \in 1..(Len(front) + Len(back)) /\ i <= Len(front)  BY <1>2
  <2> QED BY <1>1, <2>1
<1>4. ASSUME NEW i \in 1..Len(back) PROVE both[Len(front) + i] = back[i]
  <2>1. /\ Len(front) + i \in 1..(Len(front) + Len(back)) /\ ~(Len(front) + i <= Len(front))
        /\ Len(front) + i - Len(front) = i
        BY <1>2
  <2> QED BY <1>1, <2>1
<1> QED BY <1>1, <1>3, <1>4 DEF both

LEMMA Appended ==
    ASSUME NEW S, NEW s \in Seq(S), NEW e \in S
    PROVE  /\ Append(s, e) = [k \in 1..(Len(s) + 1) |-> Append(s, e)[k]]
           /\ Append(s, e) \in Seq(S) /\ Len(Append(s, e)) = Len(s) + 1
           /\ \A k \in 1..Len(s) : Append(s, e)[k] = s[k]
           /\ Append(s, e)[Len(s) + 1] = e
<1> DEFINE all == Append(s, e)
<1>1. /\ all \in Seq(S) /\ Len(all) = Len(s) + 1
      /\ \A k \in 1..Len(s) : all[k] = s[k]
      /\ all[Len(s) + 1] = e
      BY AppendProperties
<1>2. all = [k \in 1..(Len(s) + 1) |-> all[k]]
  <2> HIDE DEF all
  <2> QED BY <1>1
<1> QED BY <1>1, <1>2
=============================================================================
