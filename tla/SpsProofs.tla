------------------------------ MODULE SpsProofs ------------------------------
(***************************************************************************)
(* The size read from a parameter set is the encoder's, for every set an   *)
(* encoder may write and wherever it is cut short.  The argument: what the *)
(* encoder wrote from the group on that is read next lies before the       *)
(* reader, as far as it has arrived (Ahead); reading a group of elements   *)
(* returns what was written and leaves the rest ahead, or throws, which    *)
(* only a set that was cut short makes it do.                              *)
(***************************************************************************)
EXTENDS SpsParser, SharedLemmas

-----------------------------------------------------------------------------
(* Bits and numbers.                                                       *)

LEMMA Halves ==
    ASSUME NEW h \in Nat, NEW q, NEW b, q = h \div 2, b = h % 2
    PROVE  b \in {0, 1} /\ q \in Nat /\ 2 * q + b = h
<1>1. b \in {0, 1} /\ q \in Nat  OBVIOUS
<1> QED BY <1>1

LEMMA HalfUnfolds ==
    ASSUME NEW v \in Nat
    PROVE  /\ Half(v)[0] = v
           /\ \A k \in 0..32 : Half(v)[k] \in Nat
           /\ \A k \in 1..32 : Half(v)[k] = Half(v)[k - 1] \div 2
<1> DEFINE Def(h, k) == IF k = 0 THEN v ELSE h[k - 1] \div 2
           step == [k \in 1..32 |-> [x \in Nat |-> x \div 2]]
           N == 32  V == Nat  first == v
<1>1. N \in Nat /\ first \in V /\ step \in [1..N -> [V -> V]]  OBVIOUS
<1>2. PICK f \in [0..N -> V] : f[0] = first /\ \A k \in 1..N : f[k] = step[k][f[k - 1]]
  <2> HIDE DEF N, V, first, step
  <2> QED BY <1>1, Recursion, SMT
<1>3. \E h : h = [k \in 0..32 |-> Def(h, k)]
  <2>1. ASSUME NEW k \in 0..32 PROVE f[k] = Def(f, k)
    <3>1. CASE k = 0  BY <1>2, <3>1
    <3>2. CASE k # 0
      <4>1. k \in 1..32 /\ f[k - 1] \in Nat  BY <3>2
      <4> QED BY <1>2, <3>2, <4>1
    <3> QED BY <3>1, <3>2
  <2> HIDE DEF Def
  <2>2. f = [k \in 0..32 |-> Def(f, k)]  BY <2>1
  <2> QED BY <2>2
<1>4. Half(v) = CHOOSE h : h = [k \in 0..32 |-> Def(h, k)]  BY Zenon DEF Half
<1>5. \A k \in 0..32 : Half(v)[k] = Def(Half(v), k)
  <2> HIDE DEF Def
  <2>1. Half(v) = [k \in 0..32 |-> Def(Half(v), k)]  BY <1>3, <1>4
  <2> QED BY <2>1
<1>6. Half(v)[0] = v  BY <1>5
<1>7. ASSUME NEW k \in 1..32 PROVE Half(v)[k] = Half(v)[k - 1] \div 2  BY <1>5
<1>8. \A k \in 0..32 : Half(v)[k] \in Nat
  <2> DEFINE h == Half(v)
  <2>1. h[0] \in V /\ \A k \in 1..N : h[k - 1] \in V => h[k] = step[k][h[k - 1]]
        BY <1>6, <1>7
  <2>2. \A k \in 0..N : h[k] \in V
    <3> HIDE DEF step, N, V, h
    <3> QED BY <1>1, <2>1, StaysIn, Zenon
  <2> QED BY <2>2
<1> QED BY <1>6, <1>7, <1>8

BitStrings == Seq({0, 1})

LEMMA UBits ==
    ASSUME NEW n \in 1..32, NEW v \in Nat
    PROVE  /\ U(n, v) \in BitStrings /\ Len(U(n, v)) = n
           /\ \A i \in 1..n : U(n, v)[i] = Half(v)[n - i] % 2
<1>1. ASSUME NEW i \in 1..n PROVE Half(v)[n - i] % 2 \in {0, 1}
  <2>1. n - i \in 0..32  OBVIOUS
  <2>2. Half(v)[n - i] \in Nat  BY <2>1, HalfUnfolds
  <2> QED BY <2>2
<1> QED BY <1>1 DEF U, BitStrings

\* What ReadU adds up, bit by bit.
LEMMA ValueUnfolds ==
    ASSUME bits \in BitStrings, NEW n \in Nat, NEW at \in Nat, at + n <= Len(bits)
    PROVE  \E value \in [0..n -> Nat] :
               /\ value[0] = 0 /\ Value(at, n) = value[n]
               /\ \A k \in 1..n : value[k] = 2 * value[k - 1] + bits[at + k]
<1> DEFINE Def(h, k) == IF k = 0 THEN 0 ELSE 2 * h[k - 1] + bits[at + k]
           step == [k \in 1..n |-> [x \in Nat |-> 2 * x + bits[at + k]]]
           V == Nat  first == 0
<1>1. ASSUME NEW k \in 1..n PROVE bits[at + k] \in Nat
  <2>1. at + k \in 1..Len(bits)  BY DEF BitStrings
  <2> QED BY <2>1 DEF BitStrings
<1>2. first \in V /\ step \in [1..n -> [V -> V]]
  <2>1. ASSUME NEW k \in 1..n, NEW x \in Nat PROVE 2 * x + bits[at + k] \in Nat
    <3> DEFINE b == bits[at + k]
    <3>1. b \in Nat  BY <1>1
    <3> HIDE DEF b
    <3>2. 2 * x + b \in Nat  BY <3>1
    <3> QED BY <3>2 DEF b
  <2> QED BY <2>1
<1>3. PICK f \in [0..n -> V] : f[0] = first /\ \A k \in 1..n : f[k] = step[k][f[k - 1]]
  <2> HIDE DEF V, first, step
  <2> QED BY <1>2, Recursion, SMT
<1>4. \A k \in 1..n : f[k] = 2 * f[k - 1] + bits[at + k]
  <2> SUFFICES ASSUME NEW k \in 1..n PROVE f[k] = 2 * f[k - 1] + bits[at + k]
      OBVIOUS
  <2>1. k - 1 \in 0..n  OBVIOUS
  <2>2. f[k - 1] \in Nat /\ f[k] = step[k][f[k - 1]]  BY <1>3, <2>1
  <2> QED BY <2>2
<1>5. f = [k \in 0..n |-> Def(f, k)]
  <2>1. ASSUME NEW k \in 0..n PROVE f[k] = Def(f, k)
    <3>1. CASE k = 0  BY <1>3, <3>1
    <3>2. CASE k # 0  BY <1>4, <3>2
    <3> QED BY <3>1, <3>2
  <2> HIDE DEF Def
  <2> QED BY <2>1
<1> DEFINE g == CHOOSE h : h = [k \in 0..n |-> Def(h, k)]
<1>6. g = [k \in 0..n |-> Def(g, k)]
  <2> HIDE DEF Def
  <2> QED BY <1>5
<1>7. Value(at, n) = g[n]  BY Zenon DEF Value
<1> HIDE DEF g
<1>8. g[0] = 0  BY <1>6
<1>9. \A k \in 1..n : g[k] = 2 * g[k - 1] + bits[at + k]  BY <1>6
<1>10. \A k \in 0..n : g[k] \in Nat
  <2>1. \A k \in 1..n : g[k - 1] \in Nat => g[k] = step[k][g[k - 1]]  BY <1>9
  <2> HIDE DEF step
  <2>2. g[0] \in Nat  BY <1>8
  <2> QED BY <1>2, <2>1, <2>2, StaysIn, Zenon
<1>11. g \in [0..n -> Nat]
  <2> HIDE DEF Def
  <2> QED BY <1>6, <1>10
<1> QED BY <1>7, <1>8, <1>9, <1>11

LEMMA SmallIsNat == ASSUME NEW n \in 1..32 PROVE n \in Nat
OBVIOUS

\* Reading undoes writing.
LEMMA ValueIsBack ==
    ASSUME bits \in BitStrings, NEW n \in 1..32, NEW v \in Nat, Half(v)[n] = 0,
           NEW at \in Nat, at + n <= Len(bits), \A i \in 1..n : bits[at + i] = U(n, v)[i]
    PROVE  Value(at, n) = v
<1>6. n \in Nat  BY SmallIsNat, Zenon
<1>1. PICK value \in [0..n -> Nat] :
               /\ value[0] = 0 /\ Value(at, n) = value[n]
               /\ \A k \in 1..n : value[k] = 2 * value[k - 1] + bits[at + k]
  <2>1. bits \in BitStrings /\ n \in Nat /\ at \in Nat /\ at + n <= Len(bits)  BY <1>6
  <2> QED BY ONLY <2>1, ValueUnfolds, Zenon
<1> DEFINE T == {k \in 0..n : value[k] = Half(v)[n - k]}
<1>2. 0 \in T  BY <1>1
<1>3. ASSUME NEW k \in 1..n, k - 1 \in T PROVE k \in T
  <2> DEFINE h == Half(v)[n - k]  before == value[k - 1]  b == bits[at + k]
  <2>1. PICK m \in 1..32 : m = n - k + 1  OBVIOUS
  <2>2. n - (k - 1) = m /\ n - k = m - 1 /\ m - 1 \in 0..32  BY <2>1
  <2>3. h \in Nat /\ Half(v)[m] = h \div 2
    <3>1. Half(v)[m - 1] \in Nat /\ Half(v)[m] = Half(v)[m - 1] \div 2
      <4>1. m \in 1..32 /\ m - 1 \in 0..32 /\ v \in Nat  BY <2>2
      <4> QED BY ONLY <4>1, HalfUnfolds
    <3> QED BY <2>2, <3>1
  <2>4. before = h \div 2  BY <1>3, <2>2, <2>3
  <2>5. b = h % 2
    <3>1. k \in 1..n /\ n \in 1..32 /\ v \in Nat /\ bits[at + k] = U(n, v)[k]  OBVIOUS
    <3>2. U(n, v)[k] = Half(v)[n - k] % 2  BY ONLY <3>1, UBits
    <3> QED BY <3>1, <3>2
  <2>6. value[k] = 2 * before + b  BY <1>1
  <2> HIDE DEF h, before, b
  <2>7. 2 * before + b = h  BY <2>3, <2>4, <2>5, Halves, Zenon
  <2> QED BY <2>6, <2>7 DEF h
<1> HIDE DEF T
<1>4. \A k \in 0..n : k \in T  BY <1>2, <1>3, <1>6, BoundedInduction, Zenon
<1>5. value[n] = Half(v)[0]  BY <1>4 DEF T
<1> QED BY <1>1, <1>5, HalfUnfolds

-----------------------------------------------------------------------------
(* Joined codes, and the numbers they hold.                                *)

LEMMA BitsJoin ==
    ASSUME NEW front \in BitStrings, NEW back \in BitStrings
    PROVE  /\ front \o back \in BitStrings
           /\ Len(front \o back) = Len(front) + Len(back)
           /\ Len(front) \in Nat /\ Len(back) \in Nat
           /\ \A i \in 1..Len(front) : (front \o back)[i] = front[i]
           /\ \A i \in 1..Len(back) : (front \o back)[Len(front) + i] = back[i]
<1> DEFINE S == {0, 1}
<1>1. front \in Seq(S) /\ back \in Seq(S)  BY DEF BitStrings
<1>2. /\ front \o back \in Seq(S)
      /\ Len(front \o back) = Len(front) + Len(back)
      /\ \A i \in 1..Len(front) : (front \o back)[i] = front[i]
      /\ \A i \in 1..Len(back) : (front \o back)[Len(front) + i] = back[i]
  <2> HIDE DEF S
  <2> QED BY <1>1, Concatenated
<1>3. Len(front) \in Nat /\ Len(back) \in Nat  BY DEF BitStrings
<1>4. front \o back \in BitStrings  BY <1>2 DEF BitStrings
<1> QED BY <1>2, <1>3, <1>4

\* A number of at most 31 digits has a first one.
LEMMA FirstDigit ==
    ASSUME NEW v \in Nat, v # 0, Half(v)[31] = 0
    PROVE  \E n \in 0..30 : Half(v)[n] = 1
<1> DEFINE found == \E n \in 0..30 : Half(v)[n] = 1
           T == {k \in 0..31 : Half(v)[k] = 0 => found}
<1>1. 0 \in T  BY HalfUnfolds
<1>2. ASSUME NEW k \in 1..31, k - 1 \in T PROVE k \in T
  <2> SUFFICES ASSUME Half(v)[k] = 0 PROVE found
      OBVIOUS
  <2>1. k - 1 \in 0..30 /\ k - 1 \in 0..32 /\ k \in 1..32  OBVIOUS
  <2> DEFINE h == Half(v)[k - 1]
  <2>2. h \in Nat /\ h \div 2 = 0  BY <2>1, HalfUnfolds
  <2>3. h \in {0, 1}
    <3> HIDE DEF h
    <3> QED BY <2>2
  <2>4. CASE h = 0  BY <1>2, <2>4
  <2>5. CASE h = 1  BY <2>1, <2>5
  <2> QED BY <2>3, <2>4, <2>5
<1>3. 31 \in Nat /\ 31 \in 0..31  OBVIOUS
<1> HIDE DEF T
<1>4. 31 \in T
  <2> DEFINE N == 31
  <2>1. N \in Nat /\ \A k \in 1..N : k - 1 \in T => k \in T  BY <1>2
  <2> HIDE DEF N
  <2>2. \A k \in 0..N : k \in T  BY <1>1, <2>1, BoundedInduction, Zenon
  <2> QED BY <2>2 DEF N
<1> QED BY <1>4 DEF T

\* An Exp-Golomb code: n zeros, and a number of n + 1 digits.
LEMMA UeCode ==
    ASSUME NEW v, Codable(v)
    PROVE  \E n \in 0..30 :
               /\ Ue(v) \in BitStrings /\ Len(Ue(v)) = 2 * n + 1
               /\ \A i \in 1..n : Ue(v)[i] = 0
               /\ \A i \in 1..(n + 1) : Ue(v)[n + i] = U(n + 1, v + 1)[i]
               /\ Ue(v)[n + 1] = 1
               /\ Half(v + 1)[n + 1] = 0
<1>1. v \in Nat /\ v + 1 \in Nat /\ v + 1 # 0 /\ Half(v + 1)[31] = 0  BY DEF Codable
<1> DEFINE n == CHOOSE k \in 0..30 : Half(v + 1)[k] = 1
           zeros == [i \in 1..n |-> 0]  digits == U(n + 1, v + 1)
<1>2. n \in 0..30 /\ Half(v + 1)[n] = 1
  <2>1. \E k \in 0..30 : Half(v + 1)[k] = 1
    <3> DEFINE w == v + 1
    <3>1. w \in Nat /\ w # 0 /\ Half(w)[31] = 0  BY <1>1
    <3> HIDE DEF w
    <3>2. \E k \in 0..30 : Half(w)[k] = 1  BY <3>1, FirstDigit
    <3> QED BY <3>2 DEF w
  <2> QED BY <2>1
<1>3. Ue(v) = zeros \o digits  BY DEF Ue
<1> HIDE DEF n
<1>4. zeros \in BitStrings /\ Len(zeros) = n /\ \A i \in 1..n : zeros[i] = 0
  <2>1. n \in Nat  BY <1>2
  <2> QED BY <2>1 DEF BitStrings
<1> DEFINE m == n + 1  w == v + 1
<1>5. m \in 1..32 /\ w \in Nat /\ m - 1 = n /\ m - m = 0 /\ 1 \in 1..m  BY <1>1, <1>2
<1>6. /\ digits \in BitStrings /\ Len(digits) = m
      /\ digits[1] = Half(w)[m - 1] % 2 /\ Half(w)[m] = Half(w)[m - 1] \div 2
  <2> HIDE DEF m, w
  <2>1. /\ U(m, w) \in BitStrings /\ Len(U(m, w)) = m
        /\ \A i \in 1..m : U(m, w)[i] = Half(w)[m - i] % 2
        /\ Half(w)[m] = Half(w)[m - 1] \div 2
        BY <1>5, UBits, HalfUnfolds
  <2>2. U(m, w)[1] = Half(w)[m - 1] % 2  BY <1>5, <2>1
  <2> QED BY <2>1, <2>2 DEF m, w
<1>13. Half(w)[m - 1] = 1  BY <1>2, <1>5
<1>7. digits[1] = 1  BY <1>6, <1>13
<1>8. Half(v + 1)[n + 1] = 0  BY <1>6, <1>13
<1> HIDE DEF zeros, digits
<1>9. /\ zeros \o digits \in BitStrings /\ Len(zeros \o digits) = n + (n + 1)
      /\ \A i \in 1..n : (zeros \o digits)[i] = 0
      /\ \A i \in 1..(n + 1) : (zeros \o digits)[n + i] = digits[i]
  <2>1. /\ zeros \o digits \in BitStrings
        /\ Len(zeros \o digits) = Len(zeros) + Len(digits)
        /\ \A i \in 1..Len(zeros) : (zeros \o digits)[i] = zeros[i]
        /\ \A i \in 1..Len(digits) : (zeros \o digits)[Len(zeros) + i] = digits[i]
        BY <1>4, <1>6, BitsJoin
  <2> QED BY <1>4, <1>6, <2>1
<1>10. n + (n + 1) = 2 * n + 1 /\ 1 \in 1..(n + 1)  BY <1>2
<1>11. Ue(v)[n + 1] = 1  BY <1>3, <1>7, <1>9, <1>10
<1>12. \A i \in 1..(n + 1) : Ue(v)[n + i] = U(n + 1, v + 1)[i]  BY <1>3, <1>9 DEF digits
<1> QED BY <1>2, <1>3, <1>8, <1>9, <1>10, <1>11, <1>12

-----------------------------------------------------------------------------
(* What lies before the reader: a code, as far as it has arrived.          *)

Ahead(at, code) ==
    /\ \A i \in 1..Len(code) : at + i <= Len(bits) => bits[at + i] = code[i]
    /\ whole => at + Len(code) <= Len(bits)

LEMMA AheadParts ==
    ASSUME NEW at \in Nat, NEW front \in BitStrings, NEW back \in BitStrings,
           bits \in BitStrings, Ahead(at, front \o back)
    PROVE  Ahead(at, front) /\ Ahead(at + Len(front), back) /\ at + Len(front) \in Nat
<1> DEFINE code == front \o back
<1>1. /\ Len(code) = Len(front) + Len(back) /\ Len(front) \in Nat /\ Len(back) \in Nat
      /\ \A i \in 1..Len(front) : code[i] = front[i]
      /\ \A i \in 1..Len(back) : code[Len(front) + i] = back[i]
      BY BitsJoin
<1>2. /\ \A i \in 1..Len(code) : at + i <= Len(bits) => bits[at + i] = code[i]
      /\ whole => at + Len(code) <= Len(bits)
      BY DEF Ahead
<1> HIDE DEF code
<1>3. Len(bits) \in Nat  BY DEF BitStrings
<1>4. ASSUME NEW i \in 1..Len(front), at + i <= Len(bits) PROVE bits[at + i] = front[i]
  <2>1. i \in 1..Len(code)  BY <1>1
  <2> QED BY <1>1, <1>2, <1>4, <2>1
<1>5. ASSUME NEW i \in 1..Len(back), at + Len(front) + i <= Len(bits)
      PROVE  bits[at + Len(front) + i] = back[i]
  <2>1. Len(front) + i \in 1..Len(code) /\ at + (Len(front) + i) = at + Len(front) + i
        BY <1>1
  <2>2. bits[at + (Len(front) + i)] = code[Len(front) + i]  BY <1>2, <1>5, <2>1
  <2> QED BY <1>1, <2>1, <2>2
<1>6. whole => at + Len(front) <= Len(bits) /\ at + Len(front) + Len(back) <= Len(bits)
      BY <1>1, <1>2, <1>3
<1> QED BY <1>1, <1>4, <1>5, <1>6 DEF Ahead

-----------------------------------------------------------------------------
(* Each element is read as it was written, or it has not arrived.          *)

LEMMA ReadsU ==
    ASSUME NEW at \in Nat, NEW n \in 1..32, NEW v \in Nat, Half(v)[n] = 0,
           bits \in BitStrings, Ahead(at, U(n, v))
    PROVE  \/ ReadU(at, n) = [pos |-> at + n, value |-> v]
           \/ ReadU(at, n) = Thrown /\ ~whole
<1>1. Len(U(n, v)) = n  BY UBits
<1>2. Len(bits) \in Nat  BY DEF BitStrings
<1>3. CASE at + n > Len(bits)  BY <1>1, <1>2, <1>3 DEF ReadU, Ahead
<1>4. CASE at + n <= Len(bits)
  <2>1. \A i \in 1..n : bits[at + i] = U(n, v)[i]
    <3> SUFFICES ASSUME NEW i \in 1..n PROVE bits[at + i] = U(n, v)[i]
        OBVIOUS
    <3>1. at + i <= Len(bits)  BY <1>2, <1>4
    <3> QED BY <1>1, <3>1 DEF Ahead
  <2>2. Value(at, n) = v  BY <1>4, <2>1, ValueIsBack
  <2>3. ~(at < 0 \/ at + n > Len(bits))  BY <1>2, <1>4
  <2> QED BY <2>2, <2>3 DEF ReadU
<1> QED BY <1>2, <1>3, <1>4

LEMMA ReadsUe ==
    ASSUME NEW at \in Nat, NEW v, Codable(v), bits \in BitStrings, Ahead(at, Ue(v))
    PROVE  \/ ReadUe(at) = [pos |-> at + Len(Ue(v)), value |-> v]
           \/ ReadUe(at) = Thrown /\ ~whole
<1>1. PICK n \in 0..30 :
               /\ Ue(v) \in BitStrings /\ Len(Ue(v)) = 2 * n + 1
               /\ \A i \in 1..n : Ue(v)[i] = 0
               /\ \A i \in 1..(n + 1) : Ue(v)[n + i] = U(n + 1, v + 1)[i]
               /\ Ue(v)[n + 1] = 1
               /\ Half(v + 1)[n + 1] = 0
      BY UeCode
<1>2. v \in Nat /\ v + 1 \in Nat /\ Len(bits) \in Nat  BY DEF Codable, BitStrings
<1> DEFINE ones  == {i \in 1..33 : at + i <= Len(bits) /\ bits[at + i] = 1}
           first == CHOOSE i \in ones : \A j \in ones : i <= j
           code  == ReadU(at + first - 1, first)
<1>3. ReadUe(at) = IF at < 0 \/ ones = {} \/ code = Thrown THEN Thrown
                   ELSE [code EXCEPT !.value = @ - 1]
      BY DEF ReadUe
<1>4. /\ \A i \in 1..(2 * n + 1) : at + i <= Len(bits) => bits[at + i] = Ue(v)[i]
      /\ whole => at + (2 * n + 1) <= Len(bits)
      BY <1>1 DEF Ahead
<1>5. \A i \in ones : i >= n + 1
  <2> SUFFICES ASSUME NEW i \in 1..n, at + i <= Len(bits), bits[at + i] = 1 PROVE FALSE
      OBVIOUS
  <2>1. i \in 1..(2 * n + 1)  OBVIOUS
  <2>2. bits[at + i] = 0  BY <1>1, <1>4, <2>1
  <2> QED BY <2>2
<1>6. CASE at + n + 1 > Len(bits)
  <2>1. ones = {}
    <3>1. \A i \in ones : i \in Nat /\ at + i <= Len(bits)  OBVIOUS
    <3> HIDE DEF ones
    <3> QED BY <1>2, <1>5, <1>6, <3>1
  <2>2. ~whole  BY <1>2, <1>4, <1>6
  <2> QED BY <1>3, <2>1, <2>2
<1>7. CASE at + n + 1 <= Len(bits)
  <2>1. n + 1 \in 1..(2 * n + 1) /\ n + 1 \in 1..33 /\ at + (n + 1) = at + n + 1  OBVIOUS
  <2>2. bits[at + (n + 1)] = 1  BY <1>1, <1>4, <1>7, <2>1
  <2>3. n + 1 \in ones  BY <1>7, <2>1, <2>2
  <2>4. first = n + 1
    <3>1. \A i \in ones : i \in Nat  OBVIOUS
    <3> HIDE DEF ones
    <3>2. first \in ones /\ \A j \in ones : first <= j  BY <1>5, <2>3
    <3> HIDE DEF first
    <3>3. first <= n + 1 /\ first >= n + 1  BY <1>5, <2>3, <3>2
    <3> QED BY <3>1, <3>2, <3>3
  <2>7. ones # {} /\ ~(at < 0)
    <3> HIDE DEF ones
    <3> QED BY <2>3
  <2> HIDE DEF ones, first
  <2>5. at + first - 1 = at + n  BY <2>4
  <2>6. code = ReadU(at + n, n + 1)  BY <2>4, <2>5
  <2> HIDE DEF code
  <2>8. Ahead(at + n, U(n + 1, v + 1))
    <3>1. Len(U(n + 1, v + 1)) = n + 1
      <4>1. n + 1 \in 1..32  OBVIOUS
      <4> QED BY <1>2, <4>1, UBits
    <3>2. ASSUME NEW i \in 1..(n + 1), at + n + i <= Len(bits)
          PROVE  bits[at + n + i] = U(n + 1, v + 1)[i]
      <4>1. n + i \in 1..(2 * n + 1) /\ at + (n + i) = at + n + i  OBVIOUS
      <4>2. bits[at + (n + i)] = Ue(v)[n + i]  BY <1>4, <3>2, <4>1
      <4> QED BY <1>1, <4>1, <4>2
    <3>3. whole => at + n + (n + 1) <= Len(bits)  BY <1>2, <1>4
    <3> QED BY <3>1, <3>2, <3>3 DEF Ahead
  <2>9. \/ code = [pos |-> at + n + (n + 1), value |-> v + 1]
        \/ code = Thrown /\ ~whole
    <3>1. at + n \in Nat /\ n + 1 \in 1..32  OBVIOUS
    <3> QED BY <1>1, <1>2, <2>6, <2>8, <3>1, ReadsU
  <2>10. CASE code = Thrown /\ ~whole  BY <1>3, <2>10
  <2>11. CASE code = [pos |-> at + n + (n + 1), value |-> v + 1]
    <3>1. code # Thrown  BY <2>11 DEF Thrown
    <3>2. ReadUe(at) = [code EXCEPT !.value = @ - 1]  BY <1>3, <2>7, <3>1
    <3> DEFINE p == at + n + (n + 1)  w == v + 1
    <3>3. code = [pos |-> p, value |-> w]  BY <2>11
    <3>4. w - 1 = v /\ p = at + Len(Ue(v))  BY <1>1, <1>2
    <3> HIDE DEF p, w
    <3>5. ReadUe(at) = [pos |-> p, value |-> w - 1]  BY <3>2, <3>3
    <3> QED BY <3>4, <3>5
  <2> QED BY <2>9, <2>10, <2>11
<1> QED BY <1>2, <1>6, <1>7

-----------------------------------------------------------------------------
(* A syntax element is read as it was written.                             *)

Signed(v) == IF v > 0 THEN 2 * v - 1 ELSE -2 * v

LEMMA SignedIsBack ==
    ASSUME NEW v \in Int, NEW c, c = Signed(v)
    PROVE  (IF c % 2 = 0 THEN -(c \div 2) ELSE (c + 1) \div 2) = v
<1>1. CASE v > 0
  <2>1. c = 2 * v - 1 /\ c \in Int  BY <1>1 DEF Signed
  <2>2. c % 2 = 1 /\ (c + 1) \div 2 = v  BY <2>1
  <2> QED BY <2>2
<1>2. CASE ~(v > 0)
  <2>1. c = -2 * v /\ c \in Int  BY <1>2 DEF Signed
  <2>2. c % 2 = 0 /\ c \div 2 = -v  BY <2>1
  <2>3. -(-v) = v  OBVIOUS
  <2> QED BY <2>2, <2>3
<1> QED BY <1>1, <1>2

LEMMA BackKeeps ==
    LET back(x) == IF x % 2 = 0 THEN -(x \div 2) ELSE (x + 1) \div 2
    IN  back(0) = 0 /\ \A x \in Int : back(x) \in Int
<1>1. (IF 0 % 2 = 0 THEN -(0 \div 2) ELSE (0 + 1) \div 2) = 0
  <2>1. PICK z \in Int : z + 0 = 0  OBVIOUS
  <2>2. z % 2 = 0 /\ z \div 2 = z  BY <2>1
  <2>3. -z = z
    <3>1. z <= 0 /\ z >= 0  BY <2>1
    <3> QED BY <3>1, Z3
  <2>4. (IF z % 2 = 0 THEN -(z \div 2) ELSE (z + 1) \div 2) = z  BY <2>2, <2>3
  <2> QED BY <2>1, <2>4
<1>2. ASSUME NEW x \in Int PROVE (IF x % 2 = 0 THEN -(x \div 2) ELSE (x + 1) \div 2) \in Int
  <2> DEFINE q == x \div 2  r == (x + 1) \div 2
  <2>1. q \in Int /\ r \in Int  OBVIOUS
  <2> HIDE DEF q, r
  <2>2. -q \in Int  BY <2>1
  <2>3. (IF x % 2 = 0 THEN -q ELSE r) \in Int  BY <2>1, <2>2
  <2> QED BY <2>3 DEF q, r
<1> QED BY <1>1, <1>2

LEMMA ReadsSe ==
    ASSUME NEW at \in Nat, NEW v, CodableSigned(v), bits \in BitStrings,
           Ahead(at, Ue(Signed(v)))
    PROVE  \/ ReadSe(at) = [pos |-> at + Len(Ue(Signed(v))), value |-> v]
           \/ ReadSe(at) = Thrown /\ ~whole
<1> DEFINE c == Signed(v)  p == at + Len(Ue(c))  code == ReadUe(at)
           back(x) == IF x % 2 = 0 THEN -(x \div 2) ELSE (x + 1) \div 2
<1>1. v \in Int /\ Codable(c)  BY DEF CodableSigned, Signed
<1>2. back(c) = v  BY <1>1, SignedIsBack
<1>3. ReadSe(at) = [code EXCEPT !.value = back(@)]  BY DEF ReadSe
<1>4. code = [pos |-> p, value |-> c] \/ (code = Thrown /\ ~whole)
  <2>1. Codable(c) /\ Ahead(at, Ue(c))  BY <1>1
  <2> HIDE DEF c
  <2> QED BY <2>1, ReadsUe, Zenon
<1>5. back(0) = 0  BY BackKeeps
<1> HIDE DEF code, p, c, back
<1>6. CASE code = [pos |-> p, value |-> c]
  <2>1. ReadSe(at) = [pos |-> p, value |-> back(c)]  BY <1>3, <1>6
  <2> QED BY <1>2, <2>1 DEF p, c
<1>7. CASE code = Thrown /\ ~whole
  <2>1. ReadSe(at) = [pos |-> -1, value |-> back(0)]  BY <1>3, <1>7 DEF Thrown
  <2> QED BY <1>5, <1>7, <2>1 DEF Thrown
<1> QED BY <1>4, <1>6, <1>7

Kinds == {"u1", "u8", "ue", "se"}

\* An element an encoder may write.
Valid(e) ==
    \/ e.kind = "u1" /\ e.value \in {0, 1}
    \/ e.kind = "u8" /\ e.value \in 0..255
    \/ e.kind = "ue" /\ Codable(e.value)
    \/ e.kind = "se" /\ CodableSigned(e.value)

LEMMA ByteHas8Digits ==
    ASSUME NEW v \in 0..255
    PROVE  Half(v)[8] = 0 /\ (v \in {0, 1} => Half(v)[1] = 0)
<1> DEFINE h(k) == Half(v)[k]
<1>1. v \in Nat  OBVIOUS
<1>2. h(0) = v /\ \A k \in 1..32 : h(k) = h(k - 1) \div 2  BY <1>1, HalfUnfolds
<1> HIDE DEF h
<1>3. /\ h(1) = v \div 2 /\ h(2) = h(1) \div 2 /\ h(3) = h(2) \div 2 /\ h(4) = h(3) \div 2
      /\ h(5) = h(4) \div 2 /\ h(6) = h(5) \div 2 /\ h(7) = h(6) \div 2 /\ h(8) = h(7) \div 2
      BY <1>2
<1> DEFINE h1 == h(1)  h2 == h(2)  h3 == h(3)  h4 == h(4)
           h5 == h(5)  h6 == h(6)  h7 == h(7)  h8 == h(8)
<1>4. h1 = v \div 2  BY <1>3
<1>5. h2 = h1 \div 2  BY <1>3
<1>6. h3 = h2 \div 2  BY <1>3
<1>7. h4 = h3 \div 2  BY <1>3
<1>8. h5 = h4 \div 2  BY <1>3
<1>9. h6 = h5 \div 2  BY <1>3
<1>10. h7 = h6 \div 2  BY <1>3
<1>11. h8 = h7 \div 2  BY <1>3
<1> HIDE DEF h1, h2, h3, h4, h5, h6, h7, h8
<1>12. h1 \in 0..127 /\ (v \in {0, 1} => h1 = 0)  BY <1>4
<1>13. h2 \in 0..63  BY <1>5, <1>12
<1>14. h3 \in 0..31  BY <1>6, <1>13
<1>15. h4 \in 0..15  BY <1>7, <1>14
<1>16. h5 \in 0..7  BY <1>8, <1>15
<1>17. h6 \in 0..3  BY <1>9, <1>16
<1>18. h7 \in 0..1  BY <1>10, <1>17
<1>19. h8 = 0  BY <1>11, <1>18
<1> QED BY <1>12, <1>19 DEF h, h1, h8

LEMMA CodeIs ==
    ASSUME NEW e, Valid(e)
    PROVE  /\ Code(e) \in BitStrings
           /\ e.kind = "u1" => Code(e) = U(1, e.value)
           /\ e.kind = "u8" => Code(e) = U(8, e.value)
           /\ e.kind = "ue" => Code(e) = Ue(e.value)
           /\ e.kind = "se" => Code(e) = Ue(Signed(e.value))
<1>1. CASE e.kind = "u1" /\ e.value \in {0, 1}
  <2>1. Code(e) = U(1, e.value)  BY <1>1 DEF Code
  <2>2. 1 \in 1..32 /\ e.value \in Nat  BY <1>1
  <2>3. U(1, e.value) \in BitStrings  BY <2>2, UBits
  <2> QED BY <1>1, <2>1, <2>3
<1>2. CASE e.kind = "u8" /\ e.value \in 0..255
  <2>1. Code(e) = U(8, e.value)  BY <1>2 DEF Code
  <2>2. 8 \in 1..32 /\ e.value \in Nat  BY <1>2
  <2>3. U(8, e.value) \in BitStrings  BY <2>2, UBits
  <2> QED BY <1>2, <2>1, <2>3
<1>3. CASE e.kind = "ue" /\ Codable(e.value)
  <2>1. Code(e) = Ue(e.value)  BY <1>3 DEF Code
  <2>2. Ue(e.value) \in BitStrings  BY <1>3, UeCode
  <2> QED BY <1>3, <2>1, <2>2
<1>4. CASE e.kind = "se" /\ CodableSigned(e.value)
  <2>1. Code(e) = Ue(Signed(e.value))  BY <1>4 DEF Code, Signed
  <2>2. Codable(Signed(e.value))  BY <1>4 DEF CodableSigned, Signed
  <2>3. Ue(Signed(e.value)) \in BitStrings  BY <2>2, UeCode
  <2> QED BY <1>4, <2>1, <2>3
<1> QED BY <1>1, <1>2, <1>3, <1>4 DEF Valid

LEMMA ReadsElement ==
    ASSUME NEW at \in Nat, NEW e, Valid(e), bits \in BitStrings, Ahead(at, Code(e))
    PROVE  \/ Element(at, e.kind) = [pos |-> at + Len(Code(e)), value |-> e.value]
           \/ Element(at, e.kind) = Thrown /\ ~whole
<1>1. CASE e.kind = "u1" /\ e.value \in {0, 1}
  <2>1. Code(e) = U(1, e.value)  BY <1>1, CodeIs
  <2>2. 1 \in 1..32 /\ e.value \in Nat /\ Half(e.value)[1] = 0
    <3>1. PICK x \in 0..255 : x = e.value /\ x \in {0, 1}  BY <1>1
    <3>2. Half(x)[1] = 0  BY <3>1, ByteHas8Digits, Zenon
    <3>3. x \in Nat  OBVIOUS
    <3> QED BY <3>1, <3>2, <3>3
  <2>3. Len(Code(e)) = 1
    <3> DEFINE n == 1  x == e.value
    <3>1. n \in 1..32 /\ x \in Nat /\ Code(e) = U(n, x)  BY <2>1, <2>2
    <3> HIDE DEF n, x
    <3>2. Len(U(n, x)) = n  BY ONLY <3>1, UBits
    <3> QED BY <3>1, <3>2 DEF n
  <2>4. Element(at, e.kind) = ReadU(at, 1)  BY <1>1 DEF Element
  <2> QED BY <2>1, <2>2, <2>3, <2>4, ReadsU
<1>2. CASE e.kind = "u8" /\ e.value \in 0..255
  <2>1. Code(e) = U(8, e.value)  BY <1>2, CodeIs
  <2>2. 8 \in 1..32 /\ e.value \in Nat /\ Half(e.value)[8] = 0
    <3>1. PICK x \in 0..255 : x = e.value  BY <1>2
    <3>2. Half(x)[8] = 0  BY ByteHas8Digits
    <3>3. x \in Nat  OBVIOUS
    <3> QED BY <3>1, <3>2, <3>3
  <2>3. Len(Code(e)) = 8
    <3> DEFINE n == 8  x == e.value
    <3>1. n \in 1..32 /\ x \in Nat /\ Code(e) = U(n, x)  BY <2>1, <2>2
    <3> HIDE DEF n, x
    <3>2. Len(U(n, x)) = n  BY ONLY <3>1, UBits
    <3> QED BY <3>1, <3>2 DEF n
  <2>4. Element(at, e.kind) = ReadU(at, 8)  BY <1>2 DEF Element
  <2> QED BY <2>1, <2>2, <2>3, <2>4, ReadsU
<1>3. CASE e.kind = "ue" /\ Codable(e.value)
  <2>1. Code(e) = Ue(e.value)  BY <1>3, CodeIs
  <2>2. Element(at, e.kind) = ReadUe(at)  BY <1>3 DEF Element
  <2> QED BY <1>3, <2>1, <2>2, ReadsUe
<1>4. CASE e.kind = "se" /\ CodableSigned(e.value)
  <2>1. Code(e) = Ue(Signed(e.value))  BY <1>4, CodeIs
  <2>2. Element(at, e.kind) = ReadSe(at)  BY <1>4 DEF Element
  <2> QED BY <1>4, <2>1, <2>2, ReadsSe
<1> QED BY <1>1, <1>2, <1>3, <1>4 DEF Valid

\* Behind a throw every element throws.
LEMMA ElementType ==
    ASSUME NEW at \in Int, NEW kind \in Kinds, bits \in BitStrings
    PROVE  /\ Element(at, kind) \in [pos : Int, value : Int]
           /\ at < 0 => Element(at, kind) = Thrown
           /\ ReadUe(at) \in [pos : Int, value : Int] /\ ReadSe(at) \in [pos : Int, value : Int]
           /\ at < 0 => ReadUe(at) = Thrown /\ ReadSe(at) = Thrown
<1>1. Thrown \in [pos : Int, value : Int]  BY DEF Thrown
<1>2. ASSUME NEW a \in Int, NEW n \in Nat
      PROVE  ReadU(a, n) \in [pos : Int, value : Int] /\ (a < 0 => ReadU(a, n) = Thrown)
  <2>1. CASE a < 0 \/ a + n > Len(bits)  BY <1>1, <2>1 DEF ReadU
  <2>2. CASE ~(a < 0 \/ a + n > Len(bits))
    <3>1. a \in Nat /\ a + n <= Len(bits)  BY <2>2 DEF BitStrings
    <3>2. Value(a, n) \in Nat
      <4>1. PICK value \in [0..n -> Nat] : Value(a, n) = value[n]  BY <3>1, ValueUnfolds
      <4> QED BY <4>1
    <3> QED BY <2>2, <3>2 DEF ReadU
  <2> QED BY <2>1, <2>2
<1>3. ReadUe(at) \in [pos : Int, value : Int] /\ (at < 0 => ReadUe(at) = Thrown)
  <2> DEFINE ones  == {i \in 1..33 : at + i <= Len(bits) /\ bits[at + i] = 1}
             first == CHOOSE i \in ones : \A j \in ones : i <= j
             code  == ReadU(at + first - 1, first)
  <2>1. ReadUe(at) = IF at < 0 \/ ones = {} \/ code = Thrown THEN Thrown
                     ELSE [code EXCEPT !.value = @ - 1]
        BY DEF ReadUe
  <2>2. CASE at < 0 \/ ones = {} \/ code = Thrown  BY <1>1, <2>1, <2>2
  <2>3. CASE ~(at < 0 \/ ones = {} \/ code = Thrown)
    <3>1. first \in ones
      <4> DEFINE least(i) == \A j \in ones : i <= j
      <4>1. \E i \in ones : least(i)
        <5>1. ones \in SUBSET Nat
          <6>1. \A i \in ones : i \in Nat  OBVIOUS
          <6> HIDE DEF ones
          <6> QED BY <6>1
        <5>2. ones # {}
          <6> HIDE DEF ones, first, code
          <6> QED BY <2>3
        <5> HIDE DEF ones
        <5> QED BY <5>1, <5>2, LeastElement
      <4> HIDE DEF ones
      <4> QED BY <4>1
    <3>6. \A i \in ones : i \in Nat  OBVIOUS
    <3> HIDE DEF ones, first
    <3>2. first \in Nat  BY <3>1, <3>6
    <3>3. at + first - 1 \in Int  BY <3>2
    <3>4. code \in [pos : Int, value : Int]  BY <1>2, <3>2, <3>3
    <3> HIDE DEF code
    <3>5. ReadUe(at) = [code EXCEPT !.value = @ - 1]  BY <2>1, <2>3
    <3> QED BY <2>3, <3>4, <3>5
  <2> QED BY <2>2, <2>3
<1>4. ReadSe(at) \in [pos : Int, value : Int] /\ (at < 0 => ReadSe(at) = Thrown)
  <2> DEFINE code == ReadUe(at)
             back(x) == IF x % 2 = 0 THEN -(x \div 2) ELSE (x + 1) \div 2
  <2>1. ReadSe(at) = [code EXCEPT !.value = back(@)]  BY DEF ReadSe
  <2>2. back(0) = 0 /\ \A x \in Int : back(x) \in Int  BY BackKeeps
  <2>3. code \in [pos : Int, value : Int] /\ (at < 0 => code = Thrown)  BY <1>3
  <2> HIDE DEF code, back
  <2>4. ReadSe(at) \in [pos : Int, value : Int]  BY <2>1, <2>2, <2>3
  <2>5. at < 0 => ReadSe(at) = Thrown  BY <2>1, <2>2, <2>3 DEF Thrown
  <2> QED BY <2>4, <2>5
<1>5. 1 \in Nat /\ 8 \in Nat  OBVIOUS
<1>6. Element(at, kind) \in {ReadU(at, 1), ReadU(at, 8), ReadUe(at), ReadSe(at)}
      BY DEF Element, Kinds
<1> QED BY <1>2, <1>3, <1>4, <1>5, <1>6

-----------------------------------------------------------------------------
(* What is put together lies behind one another.                           *)

Concats(concat, pieces, n) ==
    /\ concat[0] = <<>> /\ Concat(pieces) = concat[n]
    /\ \A k \in 1..n : concat[k] = concat[k - 1] \o pieces[k]

\* Where the pieces end.
Lie(ends, pieces, n) ==
    /\ ends[0] = 0 /\ ends[n] = Len(Concat(pieces))
    /\ \A k \in 1..n :
           /\ Len(pieces[k]) \in Nat /\ ends[k] = ends[k - 1] + Len(pieces[k])
           /\ ends[k] <= ends[n]
           /\ \A j \in 1..Len(pieces[k]) : Concat(pieces)[ends[k - 1] + j] = pieces[k][j]

LEMMA ConcatUnfolds ==
    ASSUME NEW S, NEW N \in Nat, NEW pieces, Len(pieces) = N, pieces \in [1..N -> Seq(S)]
    PROVE  \E concat \in [0..N -> Seq(S)] : Concats(concat, pieces, N)
<1> DEFINE Def(h, k) == IF k = 0 THEN <<>> ELSE h[k - 1] \o pieces[k]
           V == Seq(S)  first == <<>>
           step == [k \in 1..N |-> [x \in V |-> x \o pieces[k]]]
<1>1. first \in V  OBVIOUS
<1>2. step \in [1..N -> [V -> V]]
  <2>1. ASSUME NEW k \in 1..N, NEW x \in V PROVE x \o pieces[k] \in V
    <3>1. pieces[k] \in Seq(S)  OBVIOUS
    <3> QED BY <3>1, ConcatProperties
  <2> HIDE DEF V
  <2> QED BY <2>1
<1>3. PICK f \in [0..N -> V] : f[0] = first /\ \A k \in 1..N : f[k] = step[k][f[k - 1]]
  <2> HIDE DEF V, first, step
  <2> DEFINE n == N
  <2>1. n \in Nat /\ first \in V /\ step \in [1..n -> [V -> V]]  BY <1>1, <1>2
  <2> HIDE DEF n
  <2>2. \E f \in [0..n -> V] : f[0] = first /\ \A k \in 1..n : f[k] = step[k][f[k - 1]]
        BY ONLY <2>1, Recursion, SMT
  <2> QED BY <2>2 DEF n
<1>4. ASSUME NEW k \in 1..N PROVE f[k] = f[k - 1] \o pieces[k]
  <2>1. k - 1 \in 0..N  OBVIOUS
  <2> HIDE DEF V
  <2>2. f[k - 1] \in V /\ f[k] = step[k][f[k - 1]]  BY <1>3, <2>1
  <2> QED BY <2>2
<1>5. f = [k \in 0..N |-> Def(f, k)]
  <2>1. ASSUME NEW k \in 0..N PROVE f[k] = Def(f, k)
    <3>1. CASE k = 0  BY <1>3, <3>1
    <3>2. CASE k # 0
      <4>1. k \in 1..N  BY <3>2
      <4> QED BY <1>4, <3>2, <4>1
    <3> QED BY <3>1, <3>2
  <2> HIDE DEF Def, V
  <2> QED BY <1>3, <2>1
<1> DEFINE g == CHOOSE h : h = [k \in 0..N |-> Def(h, k)]
<1>6. g = [k \in 0..N |-> Def(g, k)]
  <2> HIDE DEF Def
  <2> QED BY <1>5
<1>7. Concat(pieces) = g[N]  BY Zenon DEF Concat
<1> HIDE DEF g
<1>8. g[0] = <<>>  BY <1>6
<1>9. \A k \in 1..N : g[k] = g[k - 1] \o pieces[k]
  <2> SUFFICES ASSUME NEW k \in 1..N PROVE g[k] = g[k - 1] \o pieces[k]
      OBVIOUS
  <2>1. k \in 0..N /\ k # 0  OBVIOUS
  <2>2. g[k] = Def(g, k)
    <3> HIDE DEF Def
    <3> QED BY <1>6, <2>1
  <2> QED BY <2>1, <2>2
<1>10. \A k \in 0..N : g[k] \in V
  <2> HIDE DEF V
  <2>1. \A k \in 1..N : g[k - 1] \in V => g[k] = step[k][g[k - 1]]  BY <1>9
  <2>2. g[0] \in V  BY <1>1, <1>8
  <2> HIDE DEF step
  <2> QED BY <1>2, <2>1, <2>2, StaysIn, Zenon
<1>11. g \in [0..N -> Seq(S)]
  <2> HIDE DEF Def
  <2> QED BY <1>6, <1>10
<1> QED BY <1>7, <1>8, <1>9, <1>11 DEF Concats

LEMMA PiecesLie ==
    ASSUME NEW S, NEW N \in Nat, NEW pieces, Len(pieces) = N, pieces \in [1..N -> Seq(S)]
    PROVE  Concat(pieces) \in Seq(S) /\ \E ends \in [0..N -> Nat] : Lie(ends, pieces, N)
<1>0. PICK concat \in [0..N -> Seq(S)] : Concats(concat, pieces, N)
      BY ConcatUnfolds, Zenon
<1>1. /\ concat[0] = <<>> /\ Concat(pieces) = concat[N]
      /\ \A k \in 1..N : concat[k] = concat[k - 1] \o pieces[k]
      BY <1>0 DEF Concats
<1> DEFINE ends == [k \in 0..N |-> Len(concat[k])]
<1>2. ends \in [0..N -> Nat]
  <2>1. ASSUME NEW k \in 0..N PROVE Len(concat[k]) \in Nat
    <3>1. concat[k] \in Seq(S)  OBVIOUS
    <3> QED BY <3>1, LenProperties
  <2> QED BY <2>1
<1>3. ends[0] = 0 /\ ends[N] = Len(Concat(pieces)) /\ Concat(pieces) \in Seq(S)  BY <1>1
<1>4. ASSUME NEW k \in 1..N
      PROVE  /\ Len(pieces[k]) \in Nat /\ ends[k] = ends[k - 1] + Len(pieces[k])
             /\ \A i \in 1..ends[k - 1] : concat[k][i] = concat[k - 1][i]
             /\ \A i \in 1..Len(pieces[k]) : concat[k][ends[k - 1] + i] = pieces[k][i]
  <2> DEFINE front == concat[k - 1]  back == pieces[k]
  <2>1. front \in Seq(S) /\ back \in Seq(S)  OBVIOUS
  <2>2. concat[k] = front \o back  BY <1>1
  <2>3. ends[k - 1] = Len(front) /\ ends[k] = Len(concat[k])  OBVIOUS
  <2> HIDE DEF front, back, ends
  <2>4. /\ Len(front \o back) = Len(front) + Len(back)
        /\ \A i \in 1..Len(front) : (front \o back)[i] = front[i]
        /\ \A i \in 1..Len(back) : (front \o back)[Len(front) + i] = back[i]
        BY <2>1, Concatenated
  <2>5. Len(back) \in Nat  BY <2>1, LenProperties
  <2> QED BY <2>2, <2>3, <2>4, <2>5 DEF front, back
<1> DEFINE Placed(n) ==
               \A k \in 1..n :
                   /\ ends[k] <= ends[n]
                   /\ \A j \in 1..Len(pieces[k]) : concat[n][ends[k - 1] + j] = pieces[k][j]
           T == {n \in 0..N : Placed(n)}
<1> HIDE DEF ends
<1>5. 0 \in T  OBVIOUS
<1>6. ASSUME NEW n \in 1..N, n - 1 \in T PROVE n \in T
  <2>1. Placed(n - 1)  BY <1>6
  <2>2. n - 1 \in 0..N /\ n \in 0..N /\ ends[n - 1] \in Nat /\ ends[n] \in Nat  BY <1>2
  <2>3. ends[n - 1] <= ends[n]
    <3> DEFINE a == ends[n - 1]  b == ends[n]  l == Len(pieces[n])
    <3>1. a \in Nat /\ b \in Nat /\ l \in Nat /\ b = a + l  BY <1>4, <2>2, Zenon
    <3> HIDE DEF a, b, l
    <3>2. a <= b  BY ONLY <3>1
    <3> QED BY <3>2 DEF a, b
  <2>4. ASSUME NEW k \in 1..n
        PROVE  /\ ends[k] <= ends[n]
               /\ \A j \in 1..Len(pieces[k]) : concat[n][ends[k - 1] + j] = pieces[k][j]
    <3>1. CASE k = n
      <4>1. ends[k] <= ends[n]  BY <2>2, <3>1
      <4>2. \A j \in 1..Len(pieces[k]) : concat[n][ends[k - 1] + j] = pieces[k][j]
            BY <1>4, <3>1
      <4> QED BY <4>1, <4>2
    <3>2. CASE k # n
      <4>1. k \in 1..(n - 1) /\ k \in 1..N /\ k \in 0..N /\ k - 1 \in 0..N  BY <3>2
      <4>2. ends[k] <= ends[n - 1] /\ ends[k] \in Nat /\ ends[k - 1] \in Nat
            BY <1>2, <2>1, <4>1
      <4>3. ends[k] <= ends[n]  BY <2>2, <2>3, <4>2
      <4>4. ASSUME NEW j \in 1..Len(pieces[k])
            PROVE  concat[n][ends[k - 1] + j] = pieces[k][j]
        <5> DEFINE i == ends[k - 1] + j
        <5> DEFINE before == ends[k - 1]  after == ends[k]  all == ends[n - 1]  l == Len(pieces[k])
        <5>3. /\ before \in Nat /\ after \in Nat /\ all \in Nat /\ l \in Nat /\ j \in 1..l
              /\ after = before + l /\ after <= all
              BY <1>4, <2>2, <4>1, <4>2
        <5>4. before + j \in 1..all
          <6> HIDE DEF before, after, all, l
          <6> QED BY <5>3
        <5>1. i \in 1..ends[n - 1]  BY <5>4
        <5>2. concat[n - 1][i] = pieces[k][j]  BY <2>1, <4>1
        <5> HIDE DEF i
        <5>5. concat[n][i] = concat[n - 1][i]  BY <1>4, <5>1
        <5> QED BY <5>2, <5>5 DEF i
      <4> QED BY <4>3, <4>4
    <3> QED BY <3>1, <3>2
  <2>5. Placed(n)  BY <2>4
  <2> HIDE DEF Placed
  <2> QED BY <2>2, <2>5
<1>7. N \in T
  <2> HIDE DEF T
  <2>1. \A k \in 0..N : k \in T  BY <1>5, <1>6, BoundedInduction, Zenon
  <2> QED BY <2>1
<1>8. Placed(N)  BY <1>7
<1>9. \A k \in 1..N :
                      /\ Len(pieces[k]) \in Nat /\ ends[k] = ends[k - 1] + Len(pieces[k])
                      /\ ends[k] <= ends[N]
                      /\ \A j \in 1..Len(pieces[k]) :
                             Concat(pieces)[ends[k - 1] + j] = pieces[k][j]
  <2> SUFFICES ASSUME NEW k \in 1..N
               PROVE  /\ Len(pieces[k]) \in Nat /\ ends[k] = ends[k - 1] + Len(pieces[k])
                      /\ ends[k] <= ends[N]
                      /\ \A j \in 1..Len(pieces[k]) :
                             Concat(pieces)[ends[k - 1] + j] = pieces[k][j]
      OBVIOUS
  <2>1. /\ ends[k] <= ends[N]
        /\ \A j \in 1..Len(pieces[k]) : concat[N][ends[k - 1] + j] = pieces[k][j]
        BY <1>8
  <2> QED BY <1>1, <1>4, <2>1
<1>10. Lie(ends, pieces, N)  BY <1>3, <1>9 DEF Lie
<1> QED BY <1>2, <1>3, <1>10

AheadOf(at, ends, pieces, n) ==
    /\ ends[0] = 0 /\ ends[n] = Len(Concat(pieces))
    /\ \A k \in 1..n : /\ ends[k] = ends[k - 1] + Len(pieces[k])
                       /\ Ahead(at + ends[k - 1], pieces[k])

\* A code of many pieces is ahead: so is each of them, behind those before.
LEMMA AheadPieces ==
    ASSUME NEW at \in Nat, NEW N \in Nat, NEW pieces, Len(pieces) = N,
           pieces \in [1..N -> BitStrings], bits \in BitStrings, Ahead(at, Concat(pieces))
    PROVE  \E ends \in [0..N -> Nat] : AheadOf(at, ends, pieces, N)
<1> DEFINE S == {0, 1}
<1>1. pieces \in [1..N -> Seq(S)]  BY DEF BitStrings
<1> DEFINE code == Concat(pieces)
<1>2. PICK ends \in [0..N -> Nat] : Lie(ends, pieces, N)
  <2> HIDE DEF S
  <2> QED BY <1>1, PiecesLie, Zenon
<1>7. /\ ends[0] = 0 /\ ends[N] = Len(code)
      /\ \A k \in 1..N :
             /\ Len(pieces[k]) \in Nat /\ ends[k] = ends[k - 1] + Len(pieces[k])
             /\ ends[k] <= ends[N]
             /\ \A j \in 1..Len(pieces[k]) : code[ends[k - 1] + j] = pieces[k][j]
      BY <1>2 DEF Lie
<1>3. /\ \A i \in 1..Len(code) : at + i <= Len(bits) => bits[at + i] = code[i]
      /\ whole => at + Len(code) <= Len(bits)
      BY DEF Ahead
<1>4. Len(bits) \in Nat  BY DEF BitStrings
<1> HIDE DEF code
<1>5. ASSUME NEW k \in 1..N PROVE Ahead(at + ends[k - 1], pieces[k])
  <2> DEFINE before == ends[k - 1]  piece == pieces[k]  all == Len(code)
  <2>1. /\ before \in Nat /\ Len(piece) \in Nat /\ all \in Nat
        /\ before + Len(piece) <= all
        /\ \A j \in 1..Len(piece) : code[before + j] = piece[j]
    <3>1. k - 1 \in 0..N /\ N \in 0..N  OBVIOUS
    <3> QED BY <1>7, <3>1
  <2> HIDE DEF before, piece
  <2>2. ASSUME NEW j \in 1..Len(piece), at + before + j <= Len(bits)
        PROVE  bits[at + before + j] = piece[j]
    <3>1. before + j \in 1..all /\ at + (before + j) = at + before + j  BY <2>1
    <3>2. bits[at + (before + j)] = code[before + j]  BY <1>3, <2>2, <3>1
    <3> QED BY <2>1, <3>1, <3>2
  <2>3. whole => at + before + Len(piece) <= Len(bits)
    <3> HIDE DEF all
    <3>1. whole => at + all <= Len(bits)  BY <1>3 DEF all
    <3> QED BY <1>4, <2>1, <3>1
  <2>4. Ahead(at + before, piece)  BY <2>2, <2>3 DEF Ahead
  <2> QED BY <2>4 DEF before, piece
<1>6. \A k \in 1..N : /\ ends[k] = ends[k - 1] + Len(pieces[k])
                      /\ Ahead(at + ends[k - 1], pieces[k])
      BY <1>5, <1>7
<1> QED BY <1>6, <1>7 DEF code, AheadOf

-----------------------------------------------------------------------------
(* Elements behind one another.                                            *)

Readings == [pos : Int, values : Seq(Int)]

AfterReading(s, kind) ==
    [pos |-> Element(s.pos, kind).pos, values |-> Append(s.values, Element(s.pos, kind).value)]

ReadOneByOne(reads, at, kinds, n) ==
    /\ reads[0] = [pos |-> at, values |-> <<>>] /\ ReadAll(at, kinds) = reads[n]
    /\ \A k \in 1..n : reads[k] = AfterReading(reads[k - 1], kinds[k])

LEMMA AfterReadingType ==
    ASSUME NEW s \in Readings, NEW kind \in Kinds, bits \in BitStrings
    PROVE  AfterReading(s, kind) \in Readings
<1>1. s.pos \in Int /\ s.values \in Seq(Int)  BY DEF Readings
<1> DEFINE at == s.pos  before == s.values  e == Element(at, kind)
<1>2. e \in [pos : Int, value : Int]  BY <1>1, ElementType
<1>3. AfterReading(s, kind) = [pos |-> e.pos, values |-> Append(before, e.value)]
      BY DEF AfterReading
<1>4. before \in Seq(Int)  BY <1>1
<1> HIDE DEF e, before, at
<1>5. e.pos \in Int /\ e.value \in Int  BY <1>2
<1>6. Append(before, e.value) \in Seq(Int)  BY <1>4, <1>5, AppendProperties
<1> QED BY <1>3, <1>5, <1>6 DEF Readings

LEMMA ReadAllUnfolds ==
    ASSUME NEW at \in Int, NEW n \in Nat, NEW kinds, Len(kinds) = n, kinds \in [1..n -> Kinds],
           bits \in BitStrings
    PROVE  \E reads \in [0..n -> Readings] : ReadOneByOne(reads, at, kinds, n)
<1> DEFINE Def(h, k) ==
               IF k = 0 THEN [pos |-> at, values |-> <<>>]
               ELSE LET s == h[k - 1]
                        r == Element(s.pos, kinds[k])
                    IN [pos |-> r.pos, values |-> Append(s.values, r.value)]
           V == Readings  first == [pos |-> at, values |-> <<>>]
           step == [k \in 1..n |-> [x \in V |-> AfterReading(x, kinds[k])]]
<1>1. first \in V  BY DEF Readings
<1>2. step \in [1..n -> [V -> V]]  BY AfterReadingType
<1>3. PICK f \in [0..n -> V] : f[0] = first /\ \A k \in 1..n : f[k] = step[k][f[k - 1]]
  <2> DEFINE m == n
  <2>1. m \in Nat /\ first \in V /\ step \in [1..m -> [V -> V]]  BY <1>1, <1>2
  <2> HIDE DEF m, V, first, step
  <2>2. \E f \in [0..m -> V] : f[0] = first /\ \A k \in 1..m : f[k] = step[k][f[k - 1]]
        BY ONLY <2>1, Recursion, SMT
  <2> QED BY <2>2 DEF m
<1>12. \A h, k : k # 0 => Def(h, k) = AfterReading(h[k - 1], kinds[k])  BY DEF AfterReading
<1>4. ASSUME NEW k \in 1..n PROVE f[k] = AfterReading(f[k - 1], kinds[k])
  <2>1. k - 1 \in 0..n  OBVIOUS
  <2> HIDE DEF V
  <2>2. f[k - 1] \in V /\ f[k] = step[k][f[k - 1]]  BY <1>3, <2>1
  <2> QED BY <2>2
<1>5. f = [k \in 0..n |-> Def(f, k)]
  <2>1. ASSUME NEW k \in 0..n PROVE f[k] = Def(f, k)
    <3>1. CASE k = 0  BY <1>3, <3>1
    <3>2. CASE k # 0
      <4>1. k \in 1..n  BY <3>2
      <4> HIDE DEF Def
      <4> QED BY <1>4, <1>12, <3>2, <4>1
    <3> QED BY <3>1, <3>2
  <2> HIDE DEF Def, V
  <2> QED BY <1>3, <2>1
<1> DEFINE g == CHOOSE h : h = [k \in 0..n |-> Def(h, k)]
<1>6. g = [k \in 0..n |-> Def(g, k)]
  <2> HIDE DEF Def
  <2> QED BY <1>5
<1>7. ReadAll(at, kinds) = g[n]  BY Zenon DEF ReadAll
<1> HIDE DEF g
<1>8. g[0] = first  BY <1>6
<1>9. \A k \in 1..n : g[k] = AfterReading(g[k - 1], kinds[k])
  <2> SUFFICES ASSUME NEW k \in 1..n PROVE g[k] = AfterReading(g[k - 1], kinds[k])
      OBVIOUS
  <2>1. k \in 0..n /\ k # 0  OBVIOUS
  <2> HIDE DEF Def
  <2>2. g[k] = Def(g, k)  BY <1>6, <2>1
  <2> QED BY <1>12, <2>1, <2>2
<1>10. \A k \in 0..n : g[k] \in V
  <2> HIDE DEF V, first
  <2>1. \A k \in 1..n : g[k - 1] \in V => g[k] = step[k][g[k - 1]]  BY <1>9
  <2>2. g[0] \in V  BY <1>1, <1>8
  <2> HIDE DEF step
  <2> QED BY <1>2, <2>1, <2>2, StaysIn, Zenon
<1>11. g \in [0..n -> Readings]
  <2> HIDE DEF Def
  <2> QED BY <1>6, <1>10
<1>13. ReadOneByOne(g, at, kinds, n)  BY <1>7, <1>8, <1>9 DEF ReadOneByOne
<1> QED BY <1>11, <1>13

\* Nothing is read any more once the reader has thrown.
Threw(at) == at = -1 /\ ~whole

\* Elements are read as they were written, or some have not arrived.
LEMMA ReadsAll ==
    ASSUME NEW at \in Nat, NEW n \in Nat, NEW es, DOMAIN es = 1..n,
           \A k \in 1..n : Valid(es[k]),
           NEW kinds, Len(kinds) = n, kinds \in [1..n -> Kinds],
           \A k \in 1..n : kinds[k] = es[k].kind,
           bits \in BitStrings, Ahead(at, Codes(es))
    PROVE  /\ ReadAll(at, kinds) \in Readings /\ Len(ReadAll(at, kinds).values) = n
           /\ \/ /\ ReadAll(at, kinds).pos = at + Len(Codes(es))
                 /\ \A k \in 1..n : ReadAll(at, kinds).values[k] = es[k].value
              \/ Threw(ReadAll(at, kinds).pos)
<1> DEFINE pieces == [k \in 1..n |-> Code(es[k])]
<1>1. Codes(es) = Concat(pieces)  BY DEF Codes
<1>2. pieces \in [1..n -> BitStrings] /\ Len(pieces) = n /\ \A k \in 1..n : pieces[k] = Code(es[k])
  <2>1. \A k \in 1..n : Code(es[k]) \in BitStrings  BY CodeIs
  <2> QED BY <2>1
<1> HIDE DEF pieces
<1>3. PICK ends \in [0..n -> Nat] : AheadOf(at, ends, pieces, n)
      BY <1>1, <1>2, AheadPieces, Zenon
<1>4. PICK reads \in [0..n -> Readings] : ReadOneByOne(reads, at, kinds, n)
  <2>1. at \in Int  OBVIOUS
  <2> QED BY <2>1, ReadAllUnfolds, Zenon
<1> DEFINE Good(k) ==
               /\ Len(reads[k].values) = k
               /\ \/ /\ reads[k].pos = at + ends[k]
                     /\ \A j \in 1..k : reads[k].values[j] = es[j].value
                  \/ Threw(reads[k].pos)
           T == {k \in 0..n : Good(k)}
<1>5. 0 \in T
  <2>1. reads[0] = [pos |-> at, values |-> <<>>] /\ ends[0] = 0
        BY <1>3, <1>4 DEF AheadOf, ReadOneByOne
  <2> QED BY <2>1
<1>6. ASSUME NEW k \in 1..n, k - 1 \in T PROVE k \in T
  <2> DEFINE s == reads[k - 1]  e == es[k]  r == Element(s.pos, e.kind)  p == s.pos
             before == s.values  len == Len(Code(e))
  <2>12. /\ k - 1 \in 0..n /\ s \in Readings /\ Valid(e) /\ kinds[k] = e.kind  OBVIOUS
  <2>13. reads[k] = AfterReading(s, e.kind)  BY <1>4, <2>12 DEF ReadOneByOne
  <2>14. reads[k] = [pos |-> r.pos, values |-> Append(before, r.value)]
         BY <2>13 DEF AfterReading
  <2>1. /\ k - 1 \in 0..n /\ s \in Readings /\ Valid(e)
        /\ reads[k] = [pos |-> r.pos, values |-> Append(before, r.value)]
        BY <2>12, <2>14
  <2>2. p \in Int /\ before \in Seq(Int)  BY <2>1 DEF Readings
  <2>3. Len(before) = k - 1  BY <1>6
  <2>4. e.kind \in Kinds  OBVIOUS
  <2>5. r \in [pos : Int, value : Int] /\ (p < 0 => r = Thrown)  BY <2>2, <2>4, ElementType
  <2>6. Len(Append(before, r.value)) = k
    <3> HIDE DEF r, before
    <3>1. r.value \in Int  BY <2>5
    <3> QED BY <2>2, <2>3, <3>1, AppendProperties
  <2>7. CASE Threw(p)
    <3>1. r.pos = -1  BY <2>5, <2>7 DEF Threw, Thrown
    <3> QED BY <2>1, <2>6, <2>7, <3>1 DEF Threw
  <2>8. CASE p = at + ends[k - 1] /\ \A j \in 1..(k - 1) : before[j] = es[j].value
    <3>1. Ahead(p, Code(e)) /\ ends[k] = ends[k - 1] + len /\ p \in Nat
      <4>1. ends[k - 1] \in Nat  BY <2>1
      <4> QED BY <1>2, <1>3, <2>8, <4>1 DEF AheadOf
    <3>2. \/ r = [pos |-> p + len, value |-> e.value]
          \/ r = Thrown /\ ~whole
      <4> HIDE DEF e
      <4> QED BY <2>1, <3>1, ReadsElement DEF len, p, r
    <3>3. CASE r = Thrown /\ ~whole
      <4>1. Threw(r.pos)  BY <3>3 DEF Threw, Thrown
      <4> QED BY <2>1, <2>6, <4>1
    <3>4. CASE r = [pos |-> p + len, value |-> e.value]
      <4> DEFINE q == r.pos  v == r.value  after == Append(before, v)
      <4>1. q = at + ends[k]
        <5>1. q = p + len  BY <3>4
        <5>2. ends[k - 1] \in Nat /\ ends[k] \in Nat  BY <2>1
        <5> HIDE DEF q, p, len
        <5> DEFINE a == ends[k - 1]  b == ends[k]
        <5>3. /\ a \in Nat /\ b \in Nat /\ p = at + a /\ q = p + len /\ b = a + len
              BY <2>8, <3>1, <5>1, <5>2
        <5>4. q = at + b
          <6>1. len \in Int
            <7>1. Code(e) \in Seq({0, 1})  BY <2>1, CodeIs DEF BitStrings
            <7> QED BY <7>1 DEF len
          <6> HIDE DEF a, b, e
          <6> QED BY <5>3, <6>1
        <5> QED BY <5>4
      <4>2. v = e.value  BY <3>4
      <4>3. v \in Int
        <5> HIDE DEF r
        <5> QED BY <2>5
      <4> HIDE DEF v, before
      <4>4. ASSUME NEW j \in 1..k PROVE after[j] = es[j].value
        <5>1. CASE j = k  BY <2>2, <2>3, <4>2, <4>3, <5>1, AppendProperties
        <5>2. CASE j # k
          <6>1. j \in 1..(k - 1)  BY <5>2
          <6>2. after[j] = before[j]  BY <2>2, <2>3, <4>3, <6>1, AppendProperties
          <6> QED BY <2>8, <6>1, <6>2
        <5> QED BY <5>1, <5>2
      <4>5. reads[k].pos = q /\ reads[k].values = after  BY <2>1 DEF v
      <4>6. Len(after) = k  BY <2>6 DEF v
      <4> HIDE DEF q, after
      <4> QED BY <4>1, <4>4, <4>5, <4>6
    <3> QED BY <3>2, <3>3, <3>4
  <2> QED BY <1>6, <2>7, <2>8
<1>7. n \in T
  <2> HIDE DEF T
  <2>1. \A k \in 0..n : k \in T  BY <1>5, <1>6, BoundedInduction, Zenon
  <2> QED BY <2>1
<1>8. ReadAll(at, kinds) = reads[n] /\ n \in 0..n  BY <1>4 DEF ReadOneByOne
<1>9. ends[n] = Len(Codes(es))  BY <1>1, <1>3 DEF AheadOf
<1> QED BY <1>7, <1>8, <1>9

\* Behind a throw everything throws.
LEMMA ReadsNothing ==
    ASSUME NEW n \in Nat, NEW kinds, Len(kinds) = n, kinds \in [1..n -> Kinds],
           bits \in BitStrings
    PROVE  ReadAll(-1, kinds).pos = -1
<1>1. PICK reads \in [0..n -> Readings] : ReadOneByOne(reads, -1, kinds, n)
  <2>1. -1 \in Int  OBVIOUS
  <2> DEFINE at == -1
  <2>2. at \in Int  OBVIOUS
  <2> HIDE DEF at
  <2>3. \E reads \in [0..n -> Readings] : ReadOneByOne(reads, at, kinds, n)
        BY <2>2, ReadAllUnfolds, Zenon
  <2> QED BY <2>3 DEF at
<1> DEFINE T == {k \in 0..n : reads[k].pos = -1}
<1>2. 0 \in T  BY <1>1 DEF ReadOneByOne
<1>3. ASSUME NEW k \in 1..n, k - 1 \in T PROVE k \in T
  <2> DEFINE p == reads[k - 1].pos
  <2>1. p = -1 /\ reads[k].pos = Element(p, kinds[k]).pos
    <3>1. reads[k] = AfterReading(reads[k - 1], kinds[k])  BY <1>1 DEF ReadOneByOne
    <3>2. reads[k].pos = Element(p, kinds[k]).pos  BY <3>1 DEF AfterReading
    <3> QED BY <1>3, <3>2
  <2> HIDE DEF p
  <2>2. p \in Int /\ p < 0 /\ kinds[k] \in Kinds  BY <2>1
  <2>3. Element(p, kinds[k]) = Thrown  BY <2>2, ElementType
  <2> QED BY <2>1, <2>3 DEF Thrown
<1>4. n \in T
  <2> HIDE DEF T
  <2>1. \A k \in 0..n : k \in T  BY <1>2, <1>3, BoundedInduction, Zenon
  <2> QED BY <2>1
<1> QED BY <1>1, <1>4 DEF ReadOneByOne

-----------------------------------------------------------------------------
(* Scaling lists.                                                          *)

ScaleStates == [pos : Int, last : Int, next : Int]

AfterScale(s) ==
    LET r     == ReadSe(s.pos)
        scale == (s.last + r.value + 256) % 256
    IN IF s.next = 0 THEN s
       ELSE [pos |-> r.pos, next |-> scale, last |-> IF scale = 0 THEN s.last ELSE scale]

ScaleByScale(skip, at, n) ==
    /\ skip[0] = [pos |-> at, last |-> 8, next |-> 8] /\ SkipScalingList(at, n) = skip[n].pos
    /\ \A i \in 1..n : skip[i] = AfterScale(skip[i - 1])

LEMMA AfterScaleType ==
    ASSUME NEW s \in ScaleStates, bits \in BitStrings
    PROVE  AfterScale(s) \in ScaleStates
<1> DEFINE p == s.pos  l == s.last  r == ReadSe(p)  v == r.value  q == r.pos
           scale == (l + v + 256) % 256
<1>1. p \in Int /\ l \in Int  BY DEF ScaleStates
<1>2. r \in [pos : Int, value : Int]  BY <1>1, ElementType DEF Kinds
<1>3. AfterScale(s) = IF s.next = 0 THEN s
                      ELSE [pos |-> q, next |-> scale, last |-> IF scale = 0 THEN l ELSE scale]
      BY DEF AfterScale
<1> HIDE DEF r
<1>4. v \in Int /\ q \in Int  BY <1>2
<1> HIDE DEF v, q, p, l
<1>5. scale \in Int  BY <1>1, <1>4
<1> HIDE DEF scale
<1> QED BY <1>1, <1>3, <1>4, <1>5 DEF ScaleStates

LEMMA SkipUnfolds ==
    ASSUME NEW at \in Int, NEW n \in Nat, bits \in BitStrings
    PROVE  \E skip \in [0..n -> ScaleStates] : ScaleByScale(skip, at, n)
<1> DEFINE Def(h, i) ==
               IF i = 0 THEN [pos |-> at, last |-> 8, next |-> 8]
               ELSE LET s     == h[i - 1]
                        r     == ReadSe(s.pos)
                        scale == (s.last + r.value + 256) % 256
                    IN IF s.next = 0 THEN s
                       ELSE [pos |-> r.pos, next |-> scale,
                             last |-> IF scale = 0 THEN s.last ELSE scale]
           V == ScaleStates  first == [pos |-> at, last |-> 8, next |-> 8]
           step == [k \in 1..n |-> [x \in V |-> AfterScale(x)]]
<1>1. first \in V  BY DEF ScaleStates
<1>2. step \in [1..n -> [V -> V]]  BY AfterScaleType
<1>3. PICK f \in [0..n -> V] : f[0] = first /\ \A k \in 1..n : f[k] = step[k][f[k - 1]]
  <2> DEFINE m == n
  <2>1. m \in Nat /\ first \in V /\ step \in [1..m -> [V -> V]]  BY <1>1, <1>2
  <2> HIDE DEF m, V, first, step
  <2>2. \E f \in [0..m -> V] : f[0] = first /\ \A k \in 1..m : f[k] = step[k][f[k - 1]]
        BY ONLY <2>1, Recursion, SMT
  <2> QED BY <2>2 DEF m
<1>12. \A h, k : k # 0 => Def(h, k) = AfterScale(h[k - 1])  BY DEF AfterScale
<1>4. ASSUME NEW k \in 1..n PROVE f[k] = AfterScale(f[k - 1])
  <2>1. k - 1 \in 0..n  OBVIOUS
  <2> HIDE DEF V
  <2>2. f[k - 1] \in V /\ f[k] = step[k][f[k - 1]]  BY <1>3, <2>1
  <2> QED BY <2>2
<1>5. f = [k \in 0..n |-> Def(f, k)]
  <2>1. ASSUME NEW k \in 0..n PROVE f[k] = Def(f, k)
    <3>1. CASE k = 0  BY <1>3, <3>1
    <3>2. CASE k # 0
      <4>1. k \in 1..n  BY <3>2
      <4> HIDE DEF Def
      <4> QED BY <1>4, <1>12, <3>2, <4>1
    <3> QED BY <3>1, <3>2
  <2> HIDE DEF Def, V
  <2> QED BY <1>3, <2>1
<1> DEFINE g == CHOOSE h : h = [k \in 0..n |-> Def(h, k)]
<1>6. g = [k \in 0..n |-> Def(g, k)]
  <2> HIDE DEF Def
  <2> QED BY <1>5
<1>7. SkipScalingList(at, n) = g[n].pos  BY Zenon DEF SkipScalingList
<1> HIDE DEF g
<1>8. g[0] = first  BY <1>6
<1>9. \A k \in 1..n : g[k] = AfterScale(g[k - 1])
  <2> SUFFICES ASSUME NEW k \in 1..n PROVE g[k] = AfterScale(g[k - 1])
      OBVIOUS
  <2>1. k \in 0..n /\ k # 0  OBVIOUS
  <2> HIDE DEF Def
  <2>2. g[k] = Def(g, k)  BY <1>6, <2>1
  <2> QED BY <1>12, <2>1, <2>2
<1>10. \A k \in 0..n : g[k] \in V
  <2> HIDE DEF V, first
  <2>1. \A k \in 1..n : g[k - 1] \in V => g[k] = step[k][g[k - 1]]  BY <1>9
  <2>2. g[0] \in V  BY <1>1, <1>8
  <2> HIDE DEF step
  <2> QED BY <1>2, <2>1, <2>2, StaysIn, Zenon
<1>11. g \in [0..n -> ScaleStates]
  <2> HIDE DEF Def
  <2> QED BY <1>6, <1>10
<1>13. ScaleByScale(g, at, n)  BY <1>7, <1>8, <1>9 DEF ScaleByScale
<1> QED BY <1>11, <1>13

ScaleByDelta(scale, deltas, n) ==
    /\ scale[0] = 8 /\ \A k \in 0..n : scale[k] \in Int
    /\ \A k \in 1..n : scale[k] = (scale[k - 1] + deltas[k] + 256) % 256

LEMMA ScalesUnfold ==
    ASSUME NEW n \in Nat, NEW deltas, Len(deltas) = n, deltas \in [1..n -> Int]
    PROVE  ScaleByDelta(Scales(deltas), deltas, n)
<1> DEFINE Def(h, k) == IF k = 0 THEN 8 ELSE (h[k - 1] + deltas[k] + 256) % 256
           V == Int  first == 8
           step == [k \in 1..n |-> [x \in V |-> (x + deltas[k] + 256) % 256]]
<1>1. first \in V  OBVIOUS
<1>2. step \in [1..n -> [V -> V]]
  <2>1. ASSUME NEW k \in 1..n, NEW x \in V PROVE (x + deltas[k] + 256) % 256 \in V
    <3> DEFINE d == deltas[k]
    <3>1. d \in Int  OBVIOUS
    <3> HIDE DEF d
    <3>2. (x + d + 256) % 256 \in Int  BY <3>1
    <3> QED BY <3>2 DEF d
  <2> QED BY <2>1
<1>3. PICK f \in [0..n -> V] : f[0] = first /\ \A k \in 1..n : f[k] = step[k][f[k - 1]]
  <2> DEFINE m == n
  <2>1. m \in Nat /\ first \in V /\ step \in [1..m -> [V -> V]]  BY <1>1, <1>2
  <2> HIDE DEF m, V, first, step
  <2>2. \E f \in [0..m -> V] : f[0] = first /\ \A k \in 1..m : f[k] = step[k][f[k - 1]]
        BY ONLY <2>1, Recursion, SMT
  <2> QED BY <2>2 DEF m
<1>4. ASSUME NEW k \in 1..n PROVE f[k] = (f[k - 1] + deltas[k] + 256) % 256
  <2>1. k - 1 \in 0..n  OBVIOUS
  <2>2. f[k - 1] \in V /\ f[k] = step[k][f[k - 1]]
    <3> HIDE DEF V, first, step
    <3> QED BY <1>3, <2>1
  <2> QED BY <2>2
<1>5. f = [k \in 0..n |-> Def(f, k)]
  <2>1. ASSUME NEW k \in 0..n PROVE f[k] = Def(f, k)
    <3>1. CASE k = 0  BY <1>3, <3>1
    <3>2. CASE k # 0  BY <1>4, <3>2
    <3> QED BY <3>1, <3>2
  <2> HIDE DEF Def, V
  <2> QED BY <1>3, <2>1
<1> DEFINE g == Scales(deltas)
<1>6. g = [k \in 0..n |-> Def(g, k)]
  <2> DEFINE c == CHOOSE h : h = [k \in 0..n |-> Def(h, k)]
  <2>1. c = [k \in 0..n |-> Def(c, k)]
    <3> HIDE DEF Def
    <3> QED BY <1>5
  <2>2. Scales(deltas) = c  BY Zenon DEF Scales
  <2> HIDE DEF c, g, Def
  <2>3. g = c  BY <2>2, Zenon DEF g
  <2> QED BY <2>1, <2>3
<1> HIDE DEF g
<1>8. g[0] = first  BY <1>6
<1>9. ASSUME NEW k \in 1..n PROVE g[k] = (g[k - 1] + deltas[k] + 256) % 256
  <2>1. k \in 0..n /\ k # 0  OBVIOUS
  <2>2. g[k] = Def(g, k)
    <3> HIDE DEF Def
    <3> QED BY <1>6, <2>1
  <2> QED BY <2>1, <2>2
<1>10. \A k \in 0..n : g[k] \in V
  <2>1. \A k \in 1..n : g[k - 1] \in V => g[k] = step[k][g[k - 1]]  BY <1>9
  <2>2. g[0] \in V  BY <1>1, <1>8
  <2> HIDE DEF step, V, first
  <2> QED BY <1>2, <2>1, <2>2, StaysIn, Zenon
<1> QED BY <1>8, <1>9, <1>10 DEF g, ScaleByDelta

\* Behind a throw nothing is skipped.
LEMMA SkipsNothing ==
    ASSUME NEW n \in Nat, bits \in BitStrings
    PROVE  SkipScalingList(-1, n) = -1
<1>1. PICK skip \in [0..n -> ScaleStates] : ScaleByScale(skip, -1, n)
  <2> DEFINE at == -1
  <2>1. at \in Int  OBVIOUS
  <2> HIDE DEF at
  <2>2. \E skip \in [0..n -> ScaleStates] : ScaleByScale(skip, at, n)
        BY <2>1, SkipUnfolds, Zenon
  <2> QED BY <2>2 DEF at
<1> DEFINE T == {i \in 0..n : skip[i].pos = -1}
<1>2. 0 \in T  BY <1>1 DEF ScaleByScale
<1>3. ASSUME NEW i \in 1..n, i - 1 \in T PROVE i \in T
  <2> DEFINE s == skip[i - 1]  p == s.pos
  <2>1. p = -1  BY <1>3
  <2>2. skip[i] = AfterScale(s)  BY <1>1 DEF ScaleByScale
  <2>3. ReadSe(p) = Thrown
    <3> HIDE DEF p
    <3>1. p \in Int /\ p < 0  BY <2>1
    <3> QED BY <3>1, ElementType DEF Kinds
  <2>4. skip[i] = s \/ skip[i].pos = ReadSe(p).pos  BY <2>2 DEF AfterScale
  <2> QED BY <2>1, <2>3, <2>4 DEF Thrown
<1>4. n \in T
  <2> HIDE DEF T
  <2>1. \A i \in 0..n : i \in T  BY <1>2, <1>3, BoundedInduction, Zenon
  <2> QED BY <2>1
<1> QED BY <1>1, <1>4 DEF ScaleByScale

LEMMA SkipType ==
    ASSUME NEW at \in Int, NEW n \in Nat, bits \in BitStrings
    PROVE  SkipScalingList(at, n) \in Int
<1>1. PICK skip \in [0..n -> ScaleStates] : ScaleByScale(skip, at, n)
      BY SkipUnfolds, Zenon
<1>2. skip[n] \in ScaleStates /\ SkipScalingList(at, n) = skip[n].pos
      BY <1>1 DEF ScaleByScale
<1> QED BY <1>2 DEF ScaleStates

Deltas(deltas) == Codes([k \in DOMAIN deltas |-> SE(deltas[k])])

\* A list is passed as it was written, or it has not all arrived.
LEMMA SkipsList ==
    ASSUME NEW at \in Nat, NEW size \in Nat, NEW deltas, ScalingList(deltas, size),
           deltas # <<>>, bits \in BitStrings, Ahead(at, Deltas(deltas))
    PROVE  \/ SkipScalingList(at, size) = at + Len(Deltas(deltas))
           \/ Threw(SkipScalingList(at, size))
<1> DEFINE n == Len(deltas)  sc == Scales(deltas)
           pieces == [k \in 1..n |-> Ue(Signed(deltas[k]))]
<1>1. /\ n \in Nat /\ n <= size /\ n # 0 /\ deltas \in [1..n -> Int] /\ DOMAIN deltas = 1..n
      /\ \A k \in 1..n : CodableSigned(deltas[k])
      /\ \A k \in 1..(n - 1) : sc[k] # 0
      /\ n = size \/ sc[n] = 0
  <2>1. /\ deltas \in Seq(-128..127) /\ n <= size
        /\ \A k \in 1..n : CodableSigned(deltas[k])
        /\ \A k \in 1..(n - 1) : sc[k] # 0
        /\ n = size \/ sc[n] = 0
        BY DEF ScalingList
  <2>2. n \in Nat /\ n # 0 /\ DOMAIN deltas = 1..n  BY <2>1, EmptySeq
  <2>3. deltas \in [1..n -> Int]
    <3> DEFINE D == -128..127
    <3>1. deltas \in Seq(D) /\ \A d \in D : d \in Int  BY <2>1
    <3> HIDE DEF D
    <3>2. deltas \in [1..n -> D]  BY <3>1
    <3> HIDE DEF n
    <3> QED BY <3>1, <3>2
  <2> HIDE DEF n, sc
  <2> QED BY <2>1, <2>2, <2>3
<1>2. /\ Deltas(deltas) = Concat(pieces)
      /\ pieces \in [1..n -> BitStrings] /\ Len(pieces) = n
  <2> DEFINE es == [k \in DOMAIN deltas |-> SE(deltas[k])]
  <2>1. ASSUME NEW k \in 1..n
        PROVE  /\ Code(es[k]) = Ue(Signed(deltas[k])) /\ Ue(Signed(deltas[k])) \in BitStrings
    <3> DEFINE e == es[k]
    <3>1. e.kind = "se" /\ e.value = deltas[k]  BY <1>1 DEF SE
    <3>2. Valid(e)  BY <1>1, <3>1 DEF Valid
    <3> HIDE DEF e
    <3>3. Code(e) = Ue(Signed(e.value)) /\ Code(e) \in BitStrings  BY <3>1, <3>2, CodeIs
    <3> QED BY <3>1, <3>3 DEF e
  <2>2. Codes(es) = Concat([k \in DOMAIN es |-> Code(es[k])])  BY DEF Codes
  <2>3. DOMAIN es = 1..n  BY <1>1
  <2> HIDE DEF es
  <2>4. [k \in DOMAIN es |-> Code(es[k])] = pieces  BY <2>1, <2>3
  <2>5. Deltas(deltas) = Codes(es)  BY DEF Deltas, es
  <2>6. pieces \in [1..n -> BitStrings] /\ Len(pieces) = n
    <3> HIDE DEF n
    <3> QED BY <1>1, <2>1
  <2> QED BY <2>2, <2>4, <2>5, <2>6
<1> HIDE DEF n, sc
<1>3. PICK ends \in [0..n -> Nat] : AheadOf(at, ends, pieces, n)
  <2> HIDE DEF pieces
  <2> QED BY <1>1, <1>2, AheadPieces, Zenon
<1>4. PICK skip \in [0..size -> ScaleStates] : ScaleByScale(skip, at, size)
  <2>1. at \in Int  OBVIOUS
  <2> QED BY <2>1, SkipUnfolds, Zenon
<1>5. /\ sc[0] = 8 /\ \A k \in 0..n : sc[k] \in Int
      /\ \A k \in 1..n : sc[k] = (sc[k - 1] + deltas[k] + 256) % 256
  <2>1. n = Len(deltas) /\ sc = Scales(deltas)  BY DEF n, sc
  <2>2. ScaleByDelta(sc, deltas, n)  BY <1>1, <2>1, ScalesUnfold, Zenon
  <2> QED BY <2>2 DEF ScaleByDelta
<1>6. ASSUME NEW i \in 1..size, Threw(skip[i - 1].pos) PROVE Threw(skip[i].pos)
  <2> DEFINE s == skip[i - 1]  p == s.pos
  <2>1. p = -1 /\ ~whole  BY <1>6 DEF Threw
  <2>2. skip[i] = AfterScale(s)  BY <1>4 DEF ScaleByScale
  <2>3. ReadSe(p) = Thrown
    <3> HIDE DEF p
    <3>1. p \in Int /\ p < 0  BY <2>1
    <3> QED BY <3>1, ElementType DEF Kinds
  <2>4. skip[i] = s \/ skip[i].pos = ReadSe(p).pos  BY <2>2 DEF AfterScale
  <2> QED BY <2>1, <2>3, <2>4 DEF Thrown, Threw
<1> DEFINE Good(i) ==
               \/ /\ skip[i].pos = at + ends[i] /\ skip[i].next = sc[i]
                  /\ sc[i] # 0 => skip[i].last = sc[i]
               \/ Threw(skip[i].pos)
           T == {i \in 0..n : Good(i)}
<1>7. 0 \in T
  <2>1. skip[0] = [pos |-> at, last |-> 8, next |-> 8] /\ ends[0] = 0
        BY <1>3, <1>4 DEF ScaleByScale, AheadOf
  <2>2. sc[0] = 8 /\ 0 \in 0..n  BY <1>1, <1>5
  <2>3. skip[0].pos = at /\ skip[0].next = 8 /\ skip[0].last = 8 /\ ends[0] = 0
        BY ONLY <2>1
  <2>4. at + ends[0] = at  BY <2>3
  <2> QED BY <2>2, <2>3, <2>4, Zenon
<1>8. ASSUME NEW i \in 1..n, i - 1 \in T PROVE i \in T
  <2> DEFINE s == skip[i - 1]  p == s.pos  l == s.last  r == ReadSe(p)  d == deltas[i]
             len == Len(Ue(Signed(d)))  scale == (l + r.value + 256) % 256
  <2>1. i \in 1..size /\ i - 1 \in 0..n /\ i \in 0..n  BY <1>1
  <2>2. CASE Threw(p)  BY <1>6, <2>1, <2>2
  <2>3. CASE /\ p = at + ends[i - 1] /\ s.next = sc[i - 1]
             /\ sc[i - 1] # 0 => l = sc[i - 1]
    <3>1. sc[i - 1] # 0
      <4>1. CASE i = 1  BY <1>5, <4>1
      <4>2. CASE i # 1
        <5>1. i - 1 \in 1..(n - 1)  BY <4>2
        <5> QED BY <1>1, <5>1
      <4> QED BY <4>1, <4>2
    <3>2. skip[i] = AfterScale(s)  BY <1>4, <2>1 DEF ScaleByScale
    <3>3. skip[i] = [pos |-> r.pos, next |-> scale, last |-> IF scale = 0 THEN l ELSE scale]
          BY <2>3, <3>1, <3>2 DEF AfterScale
    <3>4. Ahead(p, Ue(Signed(d))) /\ ends[i] = ends[i - 1] + len
          BY <1>3, <2>3 DEF AheadOf
    <3>5. p \in Nat /\ ends[i - 1] \in Nat
      <4>1. ends[i - 1] \in Nat  BY <2>1
      <4> QED BY <2>3, <4>1
    <3>6. CodableSigned(d)  BY <1>1
    <3>7. \/ r = [pos |-> p + len, value |-> d]
          \/ (r = Thrown /\ ~whole)
      <4> HIDE DEF d, p
      <4> QED BY <3>4, <3>5, <3>6, ReadsSe DEF len, r
    <3>8. CASE r = Thrown /\ ~whole
      <4>1. Threw(skip[i].pos)  BY <3>3, <3>8 DEF Threw, Thrown
      <4> QED BY <2>1, <4>1
    <3>9. CASE r = [pos |-> p + len, value |-> d]
      <4>1. r.pos = p + len /\ r.value = d  BY <3>9
      <4>2. scale = sc[i]  BY <1>5, <2>3, <3>1, <4>1
      <4>3. p + len = at + ends[i]
        <5> DEFINE a == ends[i - 1]  b == ends[i]
        <5>1. a \in Nat /\ p = at + a /\ b = a + len /\ len \in Int
          <6>1. len \in Nat
            <7>1. Codable(Signed(d))  BY <3>6 DEF CodableSigned, Signed
            <7>2. Ue(Signed(d)) \in BitStrings  BY <7>1, UeCode
            <7> QED BY <7>2 DEF BitStrings
          <6> QED BY <2>3, <3>4, <3>5, <6>1
        <5> HIDE DEF a, b, p, len
        <5>2. p + len = at + b  BY <5>1
        <5> QED BY <5>2 DEF b
      <4> HIDE DEF scale, r, p, len
      <4>4. /\ skip[i].pos = at + ends[i] /\ skip[i].next = sc[i]
            /\ sc[i] # 0 => skip[i].last = sc[i]
            BY <3>3, <4>1, <4>2, <4>3
      <4> QED BY <2>1, <4>4
    <3> QED BY <3>7, <3>8, <3>9
  <2> QED BY <1>8, <2>2, <2>3
<1>9. n \in T
  <2> HIDE DEF T
  <2>1. \A k \in 0..n : k \in T  BY <1>1, <1>7, <1>8, BoundedInduction, Zenon
  <2> QED BY <1>1, <2>1
<1> DEFINE Fine(s) == (s.pos = at + ends[n] /\ (n # size => s.next = 0)) \/ Threw(s.pos)
           m == size - n
           R == {j \in 0..m : Fine(skip[n + j])}
<1>10. 0 \in R
  <2>1. Fine(skip[n])  BY <1>1, <1>9
  <2>2. n + 0 = n /\ 0 \in 0..m  BY <1>1
  <2> HIDE DEF Fine, m
  <2> QED BY <2>1, <2>2
<1>11. ASSUME NEW j \in 1..m, j - 1 \in R PROVE j \in R
  <2> DEFINE i == n + j  s == skip[i - 1]
  <2>1. i \in 1..size /\ i - 1 = n + (j - 1) /\ n # size /\ j \in 0..m  BY <1>1
  <2>2. Fine(s)  BY <1>11, <2>1
  <2>3. CASE Threw(s.pos)
    <3>1. Threw(skip[i].pos)  BY <1>6, <2>1, <2>3
    <3> QED BY <2>1, <3>1
  <2>4. CASE s.pos = at + ends[n] /\ s.next = 0
    <3>1. skip[i] = AfterScale(s)
      <4> HIDE DEF i
      <4> QED BY <1>4, <2>1 DEF ScaleByScale
    <3>2. skip[i] = s  BY <2>4, <3>1 DEF AfterScale
    <3> QED BY <2>1, <2>2, <3>2
  <2> HIDE DEF s
  <2> QED BY <2>1, <2>2, <2>3, <2>4
<1>12. Fine(skip[size])
  <2>1. m \in Nat /\ n + m = size  BY <1>1
  <2> HIDE DEF m, R
  <2>2. \A k \in 0..m : k \in R  BY <1>10, <1>11, <2>1, BoundedInduction, Zenon
  <2>3. m \in R  BY <2>1, <2>2
  <2>4. Fine(skip[n + m])
    <3> HIDE DEF Fine
    <3> QED BY <2>3 DEF R
  <2> QED BY <2>1, <2>4
<1>13. SkipScalingList(at, size) = skip[size].pos  BY <1>4 DEF ScaleByScale
<1>14. ends[n] = Len(Deltas(deltas))  BY <1>2, <1>3 DEF AheadOf
<1> QED BY <1>12, <1>13, <1>14

LEMMA CodesType ==
    ASSUME NEW n \in Nat, NEW es, DOMAIN es = 1..n, \A k \in 1..n : Valid(es[k])
    PROVE  Codes(es) \in BitStrings
<1> DEFINE S == {0, 1}  pieces == [k \in 1..n |-> Code(es[k])]
<1>1. Codes(es) = Concat(pieces)  BY DEF Codes
<1>2. pieces \in [1..n -> Seq(S)] /\ Len(pieces) = n
  <2>1. \A k \in 1..n : Code(es[k]) \in Seq(S)  BY CodeIs DEF BitStrings
  <2> HIDE DEF S
  <2> QED BY <2>1
<1> HIDE DEF S, pieces
<1>3. Concat(pieces) \in Seq(S)  BY <1>2, PiecesLie, Zenon
<1> QED BY <1>1, <1>3 DEF S, BitStrings

LEMMA OneFlag ==
    ASSUME NEW v \in {0, 1}, bits \in BitStrings
    PROVE  /\ Codes(<<U1(v)>>) \in BitStrings
           /\ \A at \in Nat : Ahead(at, Codes(<<U1(v)>>)) =>
                  \/ ReadU(at, 1) = [pos |-> at + Len(Codes(<<U1(v)>>)), value |-> v]
                  \/ ReadU(at, 1) = Thrown /\ ~whole
<1> DEFINE n == 1  e == U1(v)  es == <<e>>  pieces == <<Code(e)>>
<1>1. Valid(e) /\ e.kind = "u1" /\ e.value = v  BY DEF Valid, U1
<1>2. n \in Nat /\ DOMAIN es = 1..n /\ Len(es) = n /\ \A k \in 1..n : es[k] = e  OBVIOUS
<1>3. Codes(es) \in BitStrings
  <2> HIDE DEF n, e, es
  <2> QED BY <1>1, <1>2, CodesType
<1>4. Codes(es) = Concat(pieces)
  <2>1. [k \in DOMAIN es |-> Code(es[k])] = pieces
    <3> HIDE DEF e
    <3> QED OBVIOUS
  <2> QED BY <2>1, Zenon DEF Codes
<1>5. Code(e) \in BitStrings /\ n \in 1..n /\ n - 1 = 0 /\ pieces[n] = Code(e)
  <2>1. Code(e) \in BitStrings  BY <1>1, CodeIs
  <2> HIDE DEF e
  <2> QED BY <2>1
<1>6. Len(pieces) = n /\ pieces \in [1..n -> BitStrings]
  <2> DEFINE c == Code(e)
  <2>1. c \in BitStrings  BY <1>5
  <2> HIDE DEF c
  <2>2. Len(<<c>>) = 1 /\ <<c>> \in [1..1 -> BitStrings]  BY <2>1
  <2> QED BY <2>2 DEF c
<1> HIDE DEF n, e, es, pieces
<1>7. ASSUME NEW at \in Nat, Ahead(at, Codes(es))
      PROVE  \/ ReadU(at, 1) = [pos |-> at + Len(Codes(es)), value |-> v]
             \/ ReadU(at, 1) = Thrown /\ ~whole
  <2>1. PICK ends \in [0..n -> Nat] : AheadOf(at, ends, pieces, n)
        BY <1>2, <1>4, <1>6, <1>7, AheadPieces, Zenon
  <2>2. /\ ends[0] = 0 /\ ends[n] = Len(Codes(es))
        /\ ends[n] = ends[0] + Len(Code(e)) /\ Ahead(at + ends[0], Code(e))
        BY <1>4, <1>5, <2>1 DEF AheadOf
  <2>3. Ahead(at, Code(e)) /\ Len(Codes(es)) = Len(Code(e))
    <3>1. Len(Code(e)) \in Nat  BY <1>5 DEF BitStrings
    <3>2. at + 0 = at /\ 0 + Len(Code(e)) = Len(Code(e))  BY <3>1
    <3> QED BY <2>2, <3>2
  <2>4. Element(at, e.kind) = ReadU(at, 1)  BY <1>1 DEF Element
  <2>5. \/ Element(at, e.kind) = [pos |-> at + Len(Code(e)), value |-> e.value]
        \/ Element(at, e.kind) = Thrown /\ ~whole
        BY <1>1, <2>3, ReadsElement
  <2> QED BY <1>1, <2>3, <2>4, <2>5
<1> QED BY <1>3, <1>7, Zenon DEF es, e

LEMMA DeltasType ==
    ASSUME NEW size \in Nat, NEW deltas, ScalingList(deltas, size)
    PROVE  Deltas(deltas) \in BitStrings
<1> DEFINE n == Len(deltas)  es == [k \in DOMAIN deltas |-> SE(deltas[k])]
<1>1. n \in Nat /\ DOMAIN deltas = 1..n /\ \A k \in 1..n : CodableSigned(deltas[k])
  <2>1. deltas \in Seq(-128..127)  BY DEF ScalingList
  <2> QED BY <2>1 DEF ScalingList
<1>2. DOMAIN es = 1..n /\ \A k \in 1..n : Valid(es[k])
  <2> HIDE DEF n
  <2> QED BY <1>1 DEF Valid, SE
<1>3. Codes(es) \in BitStrings
  <2> HIDE DEF n, es
  <2> QED BY <1>1, <1>2, CodesType, Zenon
<1> QED BY <1>3 DEF Deltas

ListSize(i) == IF i <= 6 THEN 16 ELSE 64

AfterList(at, i) ==
    LET flag == ReadU(at, 1)
    IN IF flag.value = 1 THEN SkipScalingList(flag.pos, ListSize(i)) ELSE flag.pos

ListByList(skip, at, n) ==
    /\ skip[0] = at /\ SkipScalingLists(at, n) = skip[n]
    /\ \A i \in 1..n : skip[i] = AfterList(skip[i - 1], i)

LEMMA AfterListType ==
    ASSUME NEW at \in Int, NEW i, bits \in BitStrings
    PROVE  AfterList(at, i) \in Int /\ (at = -1 => AfterList(at, i) = -1)
<1> DEFINE flag == ReadU(at, 1)  p == flag.pos  size == ListSize(i)
<1>1. flag \in [pos : Int, value : Int] /\ (at < 0 => flag = Thrown)
  <2>1. "u1" \in Kinds /\ Element(at, "u1") = ReadU(at, 1)  BY DEF Kinds, Element
  <2> QED BY <2>1, ElementType
<1>2. size \in Nat  BY DEF ListSize
<1>3. AfterList(at, i) = IF flag.value = 1 THEN SkipScalingList(p, size) ELSE p
      BY DEF AfterList
<1> HIDE DEF flag, size
<1>4. p \in Int  BY <1>1
<1>5. AfterList(at, i) \in Int
  <2> HIDE DEF p
  <2>1. SkipScalingList(p, size) \in Int  BY <1>2, <1>4, SkipType
  <2> QED BY <1>3, <1>4, <2>1
<1>6. at = -1 => AfterList(at, i) = -1
  <2> SUFFICES ASSUME at = -1 PROVE AfterList(at, i) = -1
      OBVIOUS
  <2>1. flag.value = 0 /\ p = -1  BY <1>1 DEF Thrown
  <2> HIDE DEF p
  <2> QED BY <1>3, <2>1
<1> QED BY <1>5, <1>6

LEMMA SkipListsUnfolds ==
    ASSUME NEW at \in Int, NEW n \in Nat, bits \in BitStrings
    PROVE  \E skip \in [0..n -> Int] : ListByList(skip, at, n)
<1> DEFINE Def(h, i) ==
               IF i = 0 THEN at
               ELSE LET flag == ReadU(h[i - 1], 1)
                    IN IF flag.value = 1
                       THEN SkipScalingList(flag.pos, IF i <= 6 THEN 16 ELSE 64)
                       ELSE flag.pos
           V == Int  first == at
           step == [k \in 1..n |-> [x \in V |-> AfterList(x, k)]]
<1>1. first \in V  OBVIOUS
<1>2. step \in [1..n -> [V -> V]]  BY AfterListType
<1>3. PICK f \in [0..n -> V] : f[0] = first /\ \A k \in 1..n : f[k] = step[k][f[k - 1]]
  <2> DEFINE m == n
  <2>1. m \in Nat /\ first \in V /\ step \in [1..m -> [V -> V]]  BY <1>1, <1>2
  <2> HIDE DEF m, V, first, step
  <2>2. \E f \in [0..m -> V] : f[0] = first /\ \A k \in 1..m : f[k] = step[k][f[k - 1]]
        BY ONLY <2>1, Recursion, SMT
  <2> QED BY <2>2 DEF m
<1>12. \A h, k : k # 0 => Def(h, k) = AfterList(h[k - 1], k)  BY DEF AfterList, ListSize
<1>4. ASSUME NEW k \in 1..n PROVE f[k] = AfterList(f[k - 1], k)
  <2>1. k - 1 \in 0..n  OBVIOUS
  <2> HIDE DEF V
  <2>2. f[k - 1] \in V /\ f[k] = step[k][f[k - 1]]  BY <1>3, <2>1
  <2> QED BY <2>2
<1>5. f = [k \in 0..n |-> Def(f, k)]
  <2>1. ASSUME NEW k \in 0..n PROVE f[k] = Def(f, k)
    <3>1. CASE k = 0  BY <1>3, <3>1
    <3>2. CASE k # 0
      <4>1. k \in 1..n  BY <3>2
      <4> HIDE DEF Def
      <4> QED BY <1>4, <1>12, <3>2, <4>1
    <3> QED BY <3>1, <3>2
  <2> HIDE DEF Def, V
  <2> QED BY <1>3, <2>1
<1> DEFINE g == CHOOSE h : h = [k \in 0..n |-> Def(h, k)]
<1>6. g = [k \in 0..n |-> Def(g, k)]
  <2> HIDE DEF Def
  <2> QED BY <1>5
<1>7. SkipScalingLists(at, n) = g[n]  BY Zenon DEF SkipScalingLists
<1> HIDE DEF g
<1>8. g[0] = first  BY <1>6
<1>9. \A k \in 1..n : g[k] = AfterList(g[k - 1], k)
  <2> SUFFICES ASSUME NEW k \in 1..n PROVE g[k] = AfterList(g[k - 1], k)
      OBVIOUS
  <2>1. k \in 0..n /\ k # 0  OBVIOUS
  <2> HIDE DEF Def
  <2>2. g[k] = Def(g, k)  BY <1>6, <2>1
  <2> QED BY <1>12, <2>1, <2>2
<1>10. \A k \in 0..n : g[k] \in V
  <2> HIDE DEF V, first
  <2>1. \A k \in 1..n : g[k - 1] \in V => g[k] = step[k][g[k - 1]]  BY <1>9
  <2>2. g[0] \in V  BY <1>1, <1>8
  <2> HIDE DEF step
  <2> QED BY <1>2, <2>1, <2>2, StaysIn, Zenon
<1>11. g \in [0..n -> Int]
  <2> HIDE DEF Def
  <2> QED BY <1>6, <1>10
<1>13. ListByList(g, at, n)  BY <1>7, <1>8, <1>9 DEF ListByList
<1> QED BY <1>11, <1>13

\* Behind a throw no list is skipped.
LEMMA ListsNothing ==
    ASSUME NEW n \in Nat, bits \in BitStrings
    PROVE  SkipScalingLists(-1, n) = -1
<1>1. PICK skip \in [0..n -> Int] : ListByList(skip, -1, n)
  <2> DEFINE at == -1
  <2>1. at \in Int  OBVIOUS
  <2> HIDE DEF at
  <2>2. \E skip \in [0..n -> Int] : ListByList(skip, at, n)
        BY <2>1, SkipListsUnfolds, Zenon
  <2> QED BY <2>2 DEF at
<1> DEFINE T == {i \in 0..n : skip[i] = -1}
<1>2. 0 \in T  BY <1>1 DEF ListByList
<1>3. ASSUME NEW i \in 1..n, i - 1 \in T PROVE i \in T
  <2> DEFINE p == skip[i - 1]
  <2>1. p = -1 /\ skip[i] = AfterList(p, i)  BY <1>1, <1>3 DEF ListByList
  <2> HIDE DEF p
  <2>2. p \in Int  BY <2>1
  <2>3. AfterList(p, i) = -1  BY <2>1, <2>2, AfterListType
  <2> QED BY <2>1, <2>3
<1>4. n \in T
  <2> HIDE DEF T
  <2>1. \A i \in 0..n : i \in T  BY <1>2, <1>3, BoundedInduction, Zenon
  <2> QED BY <2>1
<1> QED BY <1>1, <1>4 DEF ListByList

LEMMA ListIs ==
    ASSUME NEW size \in Nat, NEW deltas, ScalingList(deltas, size), bits \in BitStrings
    PROVE  ListCode(deltas) \in BitStrings
<1>1. CASE deltas = <<>>  BY <1>1, OneFlag DEF ListCode
<1>2. CASE deltas # <<>>
  <2>1. ListCode(deltas) = Codes(<<U1(1)>>) \o Deltas(deltas)  BY <1>2 DEF ListCode, Deltas
  <2>2. Codes(<<U1(1)>>) \in BitStrings /\ Deltas(deltas) \in BitStrings
        BY DeltasType, OneFlag
  <2> QED BY <2>1, <2>2, BitsJoin
<1> QED BY <1>1, <1>2

LEMMA PassesList ==
    ASSUME NEW at \in Nat, NEW i, NEW deltas, ScalingList(deltas, ListSize(i)),
           bits \in BitStrings, Ahead(at, ListCode(deltas))
    PROVE  AfterList(at, i) = at + Len(ListCode(deltas)) \/ Threw(AfterList(at, i))
<1> DEFINE flag == ReadU(at, 1)  size == ListSize(i)
<1>1. AfterList(at, i) = IF flag.value = 1 THEN SkipScalingList(flag.pos, size) ELSE flag.pos
      BY DEF AfterList
<1>2. size \in Nat  BY DEF ListSize
<1>3. CASE deltas = <<>>
  <2> DEFINE code == Codes(<<U1(0)>>)
  <2>1. ListCode(deltas) = code  BY <1>3 DEF ListCode
  <2>2. \/ flag = [pos |-> at + Len(code), value |-> 0]
        \/ flag = Thrown /\ ~whole
        BY <2>1, OneFlag
  <2> HIDE DEF flag, code
  <2> QED BY <1>1, <2>1, <2>2 DEF Thrown, Threw
<1>4. CASE deltas # <<>>
  <2> DEFINE front == Codes(<<U1(1)>>)  back == Deltas(deltas)  p == at + Len(front)
  <2>1. ListCode(deltas) = front \o back  BY <1>4 DEF ListCode, Deltas
  <2>2. front \in BitStrings /\ back \in BitStrings  BY <1>2, DeltasType, OneFlag
  <2>9. /\ \A x \in Nat : Ahead(x, front) =>
                  \/ ReadU(x, 1) = [pos |-> x + Len(front), value |-> 1]
                  \/ ReadU(x, 1) = Thrown /\ ~whole
        BY OneFlag
  <2> HIDE DEF front, back
  <2>3. Ahead(at, front) /\ Ahead(p, back) /\ p \in Nat
        BY <2>1, <2>2, AheadParts
  <2>4. Len(front \o back) = Len(front) + Len(back) /\ Len(front) \in Nat /\ Len(back) \in Nat
        BY <2>2, BitsJoin
  <2>5. \/ flag = [pos |-> p, value |-> 1]
        \/ flag = Thrown /\ ~whole
        BY <2>3, <2>9
  <2> HIDE DEF flag, p, size
  <2>6. CASE flag = Thrown /\ ~whole  BY <1>1, <2>6 DEF Thrown, Threw
  <2>7. CASE flag = [pos |-> p, value |-> 1]
    <3>1. AfterList(at, i) = SkipScalingList(p, size)  BY <1>1, <2>7
    <3>2. \/ SkipScalingList(p, size) = p + Len(back)
          \/ Threw(SkipScalingList(p, size))
          BY <1>2, <1>4, <2>3, SkipsList DEF size, back
    <3>3. p + Len(back) = at + Len(ListCode(deltas))  BY <2>1, <2>4 DEF p
    <3> QED BY <3>1, <3>2, <3>3
  <2> QED BY <2>5, <2>6, <2>7
<1> QED BY <1>3, <1>4

LEMMA SkipsLists ==
    ASSUME NEW at \in Nat, NEW n \in Nat, NEW lists,
           \A i \in 1..n : ScalingList(lists[i], ListSize(i)),
           bits \in BitStrings, Ahead(at, Concat([i \in 1..n |-> ListCode(lists[i])]))
    PROVE  LET code == Concat([i \in 1..n |-> ListCode(lists[i])])
               end  == SkipScalingLists(at, n)
           IN  end = at + Len(code) \/ Threw(end)
<1> DEFINE pieces == [i \in 1..n |-> ListCode(lists[i])]
<1>1. pieces \in [1..n -> BitStrings] /\ Len(pieces) = n
  <2>1. ASSUME NEW i \in 1..n PROVE ListCode(lists[i]) \in BitStrings
    <3>1. ListSize(i) \in Nat  BY DEF ListSize
    <3> QED BY <3>1, ListIs
  <2> QED BY <2>1
<1>2. \A i \in 1..n : pieces[i] = ListCode(lists[i])  OBVIOUS
<1>10. Ahead(at, Concat(pieces))  OBVIOUS
<1> HIDE DEF pieces
<1>3. PICK ends \in [0..n -> Nat] : AheadOf(at, ends, pieces, n)
      BY <1>1, <1>10, AheadPieces, Zenon
<1>4. PICK skip \in [0..n -> Int] : ListByList(skip, at, n)
  <2>1. at \in Int  OBVIOUS
  <2> QED BY <2>1, SkipListsUnfolds, Zenon
<1> DEFINE T == {i \in 0..n : skip[i] = at + ends[i] \/ Threw(skip[i])}
<1>5. 0 \in T
  <2>1. skip[0] = at /\ ends[0] = 0  BY <1>3, <1>4 DEF ListByList, AheadOf
  <2> QED BY <2>1
<1>6. ASSUME NEW i \in 1..n, i - 1 \in T PROVE i \in T
  <2> DEFINE p == skip[i - 1]  deltas == lists[i]  len == Len(ListCode(deltas))
  <2>1. i - 1 \in 0..n /\ i \in 0..n /\ p \in Int /\ skip[i] = AfterList(p, i)
        BY <1>4 DEF ListByList
  <2>2. CASE Threw(p)
    <3>1. p = -1 /\ ~whole  BY <2>2 DEF Threw
    <3>2. AfterList(p, i) = -1
      <4> HIDE DEF p
      <4> QED BY <2>1, <3>1, AfterListType
    <3> QED BY <2>1, <3>1, <3>2 DEF Threw
  <2>3. CASE p = at + ends[i - 1]
    <3> DEFINE a == ends[i - 1]  b == ends[i]
    <3>1. Ahead(at + a, ListCode(deltas)) /\ b = a + len /\ a \in Nat
          BY <1>2, <1>3, <2>1 DEF AheadOf
    <3>2. ScalingList(deltas, ListSize(i))  OBVIOUS
    <3> HIDE DEF deltas, a, b
    <3>3. at + a \in Nat  BY <3>1
    <3>4. \/ AfterList(at + a, i) = (at + a) + len
          \/ Threw(AfterList(at + a, i))
          BY <3>1, <3>2, <3>3, PassesList
    <3>5. len \in Nat
      <4>1. ListSize(i) \in Nat  BY DEF ListSize
      <4>2. ListCode(deltas) \in BitStrings  BY <3>2, <4>1, ListIs
      <4> QED BY <4>2 DEF BitStrings
    <3> HIDE DEF len
    <3>6. (at + a) + len = at + b  BY <3>1, <3>5
    <3>7. p = at + a  BY <2>3 DEF a
    <3>8. skip[i] = at + b \/ Threw(skip[i])  BY <2>1, <3>4, <3>6, <3>7
    <3> QED BY <2>1, <3>8 DEF b
  <2> QED BY <1>6, <2>2, <2>3
<1>7. n \in T
  <2> HIDE DEF T
  <2>1. \A i \in 0..n : i \in T  BY <1>5, <1>6, BoundedInduction, Zenon
  <2> QED BY <2>1
<1>8. ends[n] = Len(Concat(pieces)) /\ SkipScalingLists(at, n) = skip[n]
      BY <1>3, <1>4 DEF AheadOf, ListByList
<1>9. SkipScalingLists(at, n) = at + Len(Concat(pieces)) \/ Threw(SkipScalingLists(at, n))
      BY <1>7, <1>8
<1> QED BY <1>9 DEF pieces

-----------------------------------------------------------------------------
(* The parser, a group of elements per step.                               *)

\* These elements are written where these kinds are read.
Writes(es, kinds, n) ==
    /\ DOMAIN es = 1..n /\ \A k \in 1..n : Valid(es[k])
    /\ Len(kinds) = n /\ kinds \in [1..n -> Kinds]
    /\ \A k \in 1..n : kinds[k] = es[k].kind

\* What a step has read, and what is still to be read behind it.
HasRead(r, es, n, back) ==
    \/ /\ r.pos \in Nat /\ Ahead(r.pos, back)
       /\ \A k \in 1..n : r.values[k] = es[k].value
    \/ Threw(r.pos)

LEMMA ReadsHead ==
    ASSUME NEW at \in Nat, NEW n \in Nat, NEW es, NEW kinds, Writes(es, kinds, n),
           NEW back \in BitStrings, bits \in BitStrings, Ahead(at, Codes(es) \o back)
    PROVE  /\ ReadAll(at, kinds) \in Readings /\ Len(ReadAll(at, kinds).values) = n
           /\ HasRead(ReadAll(at, kinds), es, n, back)
<1> DEFINE r == ReadAll(at, kinds)  front == Codes(es)
<1>1. front \in BitStrings  BY CodesType DEF Writes
<1>2. Ahead(at, front) /\ Ahead(at + Len(front), back) /\ at + Len(front) \in Nat
  <2>1. Ahead(at, front \o back)  OBVIOUS
  <2> HIDE DEF front
  <2> QED BY <1>1, <2>1, AheadParts
<1>3. /\ r \in Readings /\ Len(r.values) = n
      /\ \/ r.pos = at + Len(front) /\ \A k \in 1..n : r.values[k] = es[k].value
         \/ Threw(r.pos)
      BY <1>2, ReadsAll DEF Writes
<1> HIDE DEF r, front
<1>4. HasRead(r, es, n, back)  BY <1>2, <1>3 DEF HasRead
<1> QED BY <1>3, <1>4 DEF r

LEMMA HeadType ==
    ASSUME NEW n \in Nat, NEW es, NEW kinds, Writes(es, kinds, n), NEW back \in BitStrings
    PROVE  Codes(es) \o back \in BitStrings
<1>1. Codes(es) \in BitStrings  BY CodesType DEF Writes
<1> QED BY <1>1, BitsJoin

LEMMA ElementsAre ==
    /\ \A v : U1(v).kind = "u1" /\ U1(v).value = v /\ (v \in {0, 1} => Valid(U1(v)))
    /\ \A v : U8(v).kind = "u8" /\ U8(v).value = v /\ (v \in 0..255 => Valid(U8(v)))
    /\ \A v : UE(v).kind = "ue" /\ UE(v).value = v /\ (Codable(v) => Valid(UE(v)))
    /\ \A v : SE(v).kind = "se" /\ SE(v).value = v /\ (CodableSigned(v) => Valid(SE(v)))
BY DEF U1, U8, UE, SE, Valid

-----------------------------------------------------------------------------
(* What each group consists of.                                            *)

LEMMA WritesTwo ==
    ASSUME NEW a, NEW b, Valid(a), Valid(b), NEW c, NEW d, c = a.kind, d = b.kind,
           c \in Kinds, d \in Kinds
    PROVE  Writes(<<a, b>>, <<c, d>>, 2)
<1> DEFINE es == <<a, b>>  kinds == <<c, d>>
<1>1. DOMAIN es = 1..2 /\ Len(kinds) = 2 /\ kinds \in [1..2 -> Kinds]  OBVIOUS
<1>2. ASSUME NEW k \in 1..2 PROVE Valid(es[k]) /\ kinds[k] = es[k].kind
  <2>1. CASE k = 1  BY <2>1
  <2>2. CASE k = 2  BY <2>2
  <2> QED BY <2>1, <2>2
<1> QED BY <1>1, <1>2 DEF Writes

LEMMA WritesFour ==
    ASSUME NEW a1, NEW a2, NEW a3, NEW a4, Valid(a1), Valid(a2), Valid(a3), Valid(a4),
           NEW c1 \in Kinds, NEW c2 \in Kinds, NEW c3 \in Kinds, NEW c4 \in Kinds,
           c1 = a1.kind, c2 = a2.kind, c3 = a3.kind, c4 = a4.kind
    PROVE  Writes(<<a1, a2, a3, a4>>, <<c1, c2, c3, c4>>, 4)
<1> DEFINE es == <<a1, a2, a3, a4>>  kinds == <<c1, c2, c3, c4>>
<1>1. DOMAIN es = 1..4 /\ Len(kinds) = 4 /\ kinds \in [1..4 -> Kinds]  OBVIOUS
<1>2. ASSUME NEW k \in 1..4 PROVE Valid(es[k]) /\ kinds[k] = es[k].kind
  <2>1. CASE k = 1  BY <2>1
  <2>2. CASE k = 2  BY <2>2
  <2>3. CASE k = 3  BY <2>3
  <2>4. CASE k = 4  BY <2>4
  <2> QED BY <2>1, <2>2, <2>3, <2>4
<1> QED BY <1>1, <1>2 DEF Writes

LEMMA WritesFive ==
    ASSUME NEW a1, NEW a2, NEW a3, NEW a4, NEW a5,
           Valid(a1), Valid(a2), Valid(a3), Valid(a4), Valid(a5),
           NEW c1 \in Kinds, NEW c2 \in Kinds, NEW c3 \in Kinds, NEW c4 \in Kinds,
           NEW c5 \in Kinds,
           c1 = a1.kind, c2 = a2.kind, c3 = a3.kind, c4 = a4.kind, c5 = a5.kind
    PROVE  Writes(<<a1, a2, a3, a4, a5>>, <<c1, c2, c3, c4, c5>>, 5)
<1> DEFINE es == <<a1, a2, a3, a4, a5>>  kinds == <<c1, c2, c3, c4, c5>>
<1>1. DOMAIN es = 1..5 /\ Len(kinds) = 5 /\ kinds \in [1..5 -> Kinds]  OBVIOUS
<1>2. ASSUME NEW k \in 1..5 PROVE Valid(es[k]) /\ kinds[k] = es[k].kind
  <2>1. CASE k = 1  BY <2>1
  <2>2. CASE k = 2  BY <2>2
  <2>3. CASE k = 3  BY <2>3
  <2>4. CASE k = 4  BY <2>4
  <2>5. CASE k = 5  BY <2>5
  <2> QED BY <2>1, <2>2, <2>3, <2>4, <2>5
<1> QED BY <1>1, <1>2 DEF Writes

LEMMA WritesMany ==
    ASSUME NEW n \in Nat, NEW es, DOMAIN es = 1..n,
           \A k \in 1..n : Valid(es[k]) /\ es[k].kind = "se"
    PROVE  Writes(es, [k \in 1..n |-> "se"], n)
BY DEF Writes, Kinds

ProfileHead(f) == <<U8(f.profile), U8(f.octets[1]), U8(f.octets[2]), UE(f.numbers[1])>>
DepthHead(f)   == <<UE(f.numbers[2]), UE(f.numbers[3]), U1(f.flags[2]), U1(f.matrix)>>
OrderHead(f)   == <<UE(f.numbers[4]), UE(f.poc)>>
Order1Head(f)  == <<U1(f.flags[3]), SE(f.offsets[1]), SE(f.offsets[2]), UE(Len(f.offsets) - 2)>>
OffsetsHead(f) == [i \in 1..(Len(f.offsets) - 2) |-> SE(f.offsets[i + 2])]
SizeHead(f)    == <<UE(f.numbers[6]), U1(f.flags[4]), UE(f.wide - 1), UE(f.high - 1),
                    U1(f.frameMbs)>>
CropHead(f)    == <<U1(f.flags[6]), U1(IF f.crop = <<0, 0, 0, 0>> THEN 0 ELSE 1)>>
CropsHead(f)   == [i \in 1..4 |-> UE(f.crop[i])]

LEMMA GroupsAre ==
    ASSUME NEW f, WellFormed(f)
    PROVE  /\ Writes(ProfileHead(f), <<"u8", "u8", "u8", "ue">>, 4)
           /\ Writes(DepthHead(f), <<"ue", "ue", "u1", "u1">>, 4)
           /\ Writes(OrderHead(f), <<"ue", "ue">>, 2)
           /\ Writes(Order1Head(f), <<"u1", "se", "se", "ue">>, 4)
           /\ Len(f.offsets) - 2 \in Nat
           /\ Writes(OffsetsHead(f), [i \in 1..(Len(f.offsets) - 2) |-> "se"], Len(f.offsets) - 2)
           /\ Writes(SizeHead(f), <<"ue", "u1", "ue", "ue", "u1">>, 5)
           /\ Writes(CropHead(f), <<"u1", "u1">>, 2)
           /\ Writes(CropsHead(f), <<"ue", "ue", "ue", "ue">>, 4)
<1>1. /\ f.profile \in 0..255 /\ f.octets[1] \in 0..255 /\ f.octets[2] \in 0..255
      /\ Codable(f.numbers[1]) /\ Codable(f.numbers[2]) /\ Codable(f.numbers[3])
      /\ Codable(f.numbers[4]) /\ Codable(f.numbers[5]) /\ Codable(f.numbers[6])
      /\ f.flags[1] \in {0, 1} /\ f.flags[2] \in {0, 1} /\ f.flags[3] \in {0, 1}
      /\ f.flags[4] \in {0, 1} /\ f.flags[5] \in {0, 1} /\ f.flags[6] \in {0, 1}
      /\ Codable(f.poc) /\ f.matrix \in {0, 1} /\ f.frameMbs \in {0, 1}
      /\ f.offsets \in Seq(Int) /\ Len(f.offsets) >= 2 /\ Codable(Len(f.offsets) - 2)
      /\ \A i \in 1..Len(f.offsets) : CodableSigned(f.offsets[i])
      /\ CodableSigned(f.offsets[1]) /\ CodableSigned(f.offsets[2])
      /\ Codable(f.wide - 1) /\ Codable(f.high - 1)
      /\ Codable(f.crop[1]) /\ Codable(f.crop[2]) /\ Codable(f.crop[3]) /\ Codable(f.crop[4])
  <2>1. /\ f.profile \in 0..255 /\ \A i \in 1..2 : f.octets[i] \in 0..255
        /\ {f.matrix, f.frameMbs} \subseteq {0, 1}
        /\ \A i \in 1..6 : Codable(f.numbers[i]) /\ f.flags[i] \in {0, 1}
        /\ Codable(f.poc) /\ Codable(f.wide - 1) /\ Codable(f.high - 1)
        /\ f.offsets \in Seq(Int) /\ Len(f.offsets) >= 2 /\ Codable(Len(f.offsets) - 2)
        /\ \A i \in 1..Len(f.offsets) : CodableSigned(f.offsets[i])
        /\ \A i \in 1..4 : Codable(f.crop[i])
        BY Zenon DEF WellFormed
  <2>2. /\ Codable(f.numbers[1]) /\ Codable(f.numbers[2]) /\ Codable(f.numbers[3])
        /\ Codable(f.numbers[4]) /\ Codable(f.numbers[5]) /\ Codable(f.numbers[6])
        /\ f.flags[1] \in {0, 1} /\ f.flags[2] \in {0, 1} /\ f.flags[3] \in {0, 1}
        /\ f.flags[4] \in {0, 1} /\ f.flags[5] \in {0, 1} /\ f.flags[6] \in {0, 1}
    <3>1. \A i \in 1..6 : Codable(f.numbers[i]) /\ f.flags[i] \in {0, 1}  BY <2>1
    <3> QED BY ONLY <3>1
  <2>3. /\ f.octets[1] \in 0..255 /\ f.octets[2] \in 0..255
        /\ f.matrix \in {0, 1} /\ f.frameMbs \in {0, 1}
        /\ Codable(f.crop[1]) /\ Codable(f.crop[2]) /\ Codable(f.crop[3]) /\ Codable(f.crop[4])
    <3>1. /\ \A i \in 1..2 : f.octets[i] \in 0..255
          /\ {f.matrix, f.frameMbs} \subseteq {0, 1} /\ \A i \in 1..4 : Codable(f.crop[i])
          BY <2>1
    <3> DEFINE o == f.octets  c == f.crop
    <3>2. (\A i \in 1..2 : o[i] \in 0..255) /\ \A i \in 1..4 : Codable(c[i])  BY <3>1
    <3> HIDE DEF o, c
    <3>3. o[1] \in 0..255 /\ o[2] \in 0..255  BY ONLY <3>2
    <3>4. Codable(c[1]) /\ Codable(c[2]) /\ Codable(c[3]) /\ Codable(c[4])  BY ONLY <3>2
    <3>5. f.matrix \in {0, 1} /\ f.frameMbs \in {0, 1}  BY ONLY <3>1
    <3> QED BY <3>3, <3>4, <3>5 DEF o, c
  <2>4. CodableSigned(f.offsets[1]) /\ CodableSigned(f.offsets[2])
    <3>1. 1 \in 1..Len(f.offsets) /\ 2 \in 1..Len(f.offsets)
      <4>1. f.offsets \in Seq(Int) /\ Len(f.offsets) >= 2  BY <2>1
      <4> QED BY ONLY <4>1
    <3> QED BY <2>1, <3>1
  <2> QED BY <2>1, <2>2, <2>3, <2>4
<1>2. "u1" \in Kinds /\ "u8" \in Kinds /\ "ue" \in Kinds /\ "se" \in Kinds  BY DEF Kinds
<1>3. Writes(ProfileHead(f), <<"u8", "u8", "u8", "ue">>, 4)
  <2>1. /\ Valid(U8(f.profile)) /\ U8(f.profile).kind = "u8"
        /\ Valid(U8(f.octets[1])) /\ U8(f.octets[1]).kind = "u8"
        /\ Valid(U8(f.octets[2])) /\ U8(f.octets[2]).kind = "u8"
        /\ Valid(UE(f.numbers[1])) /\ UE(f.numbers[1]).kind = "ue"
        BY <1>1, ElementsAre
  <2> QED BY <1>2, <2>1, WritesFour, Zenon DEF ProfileHead
<1>4. Writes(DepthHead(f), <<"ue", "ue", "u1", "u1">>, 4)
  <2>1. /\ Valid(UE(f.numbers[2])) /\ UE(f.numbers[2]).kind = "ue"
        /\ Valid(UE(f.numbers[3])) /\ UE(f.numbers[3]).kind = "ue"
        /\ Valid(U1(f.flags[2])) /\ U1(f.flags[2]).kind = "u1"
        /\ Valid(U1(f.matrix)) /\ U1(f.matrix).kind = "u1"
        BY <1>1, ElementsAre
  <2> QED BY <1>2, <2>1, WritesFour, Zenon DEF DepthHead
<1>5. Writes(OrderHead(f), <<"ue", "ue">>, 2)
  <2>1. /\ Valid(UE(f.numbers[4])) /\ UE(f.numbers[4]).kind = "ue"
        /\ Valid(UE(f.poc)) /\ UE(f.poc).kind = "ue"
        BY <1>1, ElementsAre
  <2> QED BY <1>2, <2>1, WritesTwo, Zenon DEF OrderHead
<1>6. Writes(Order1Head(f), <<"u1", "se", "se", "ue">>, 4)
  <2>1. /\ Valid(U1(f.flags[3])) /\ U1(f.flags[3]).kind = "u1"
        /\ Valid(SE(f.offsets[1])) /\ SE(f.offsets[1]).kind = "se"
        /\ Valid(SE(f.offsets[2])) /\ SE(f.offsets[2]).kind = "se"
        /\ Valid(UE(Len(f.offsets) - 2)) /\ UE(Len(f.offsets) - 2).kind = "ue"
        BY <1>1, ElementsAre
  <2> QED BY <1>2, <2>1, WritesFour, Zenon DEF Order1Head
<1>7. Writes(SizeHead(f), <<"ue", "u1", "ue", "ue", "u1">>, 5)
  <2>1. /\ Valid(UE(f.numbers[6])) /\ UE(f.numbers[6]).kind = "ue"
        /\ Valid(U1(f.flags[4])) /\ U1(f.flags[4]).kind = "u1"
        /\ Valid(UE(f.wide - 1)) /\ UE(f.wide - 1).kind = "ue"
        /\ Valid(UE(f.high - 1)) /\ UE(f.high - 1).kind = "ue"
        /\ Valid(U1(f.frameMbs)) /\ U1(f.frameMbs).kind = "u1"
        BY <1>1, ElementsAre
  <2> QED BY <1>2, <2>1, WritesFive, Zenon DEF SizeHead
<1>8. Writes(CropHead(f), <<"u1", "u1">>, 2)
  <2>1. /\ Valid(U1(f.flags[6])) /\ U1(f.flags[6]).kind = "u1"
        /\ Valid(U1(IF f.crop = <<0, 0, 0, 0>> THEN 0 ELSE 1)) /\ U1(IF f.crop = <<0, 0, 0, 0>> THEN 0 ELSE 1).kind = "u1"
        BY <1>1, ElementsAre
  <2> QED BY <1>2, <2>1, WritesTwo, Zenon DEF CropHead
<1>9. Writes(CropsHead(f), <<"ue", "ue", "ue", "ue">>, 4)
  <2>1. /\ Valid(UE(f.crop[1])) /\ UE(f.crop[1]).kind = "ue"
        /\ Valid(UE(f.crop[2])) /\ UE(f.crop[2]).kind = "ue"
        /\ Valid(UE(f.crop[3])) /\ UE(f.crop[3]).kind = "ue"
        /\ Valid(UE(f.crop[4])) /\ UE(f.crop[4]).kind = "ue"
        BY <1>1, ElementsAre
  <2>2. CropsHead(f) = <<UE(f.crop[1]), UE(f.crop[2]), UE(f.crop[3]), UE(f.crop[4])>>
        BY DEF CropsHead
  <2>3. Writes(<<UE(f.crop[1]), UE(f.crop[2]), UE(f.crop[3]), UE(f.crop[4])>>,
               <<"ue", "ue", "ue", "ue">>, 4)
        BY <1>2, <2>1, WritesFour, Zenon
  <2> QED BY <2>2, <2>3, Zenon
<1>10. /\ Len(f.offsets) - 2 \in Nat
       /\ Writes(OffsetsHead(f), [i \in 1..(Len(f.offsets) - 2) |-> "se"], Len(f.offsets) - 2)
  <2> DEFINE n == Len(f.offsets) - 2
  <2>1. n \in Nat /\ Len(f.offsets) \in Nat
    <3>1. f.offsets \in Seq(Int) /\ Len(f.offsets) >= 2  BY <1>1
    <3>2. Len(f.offsets) \in Nat  BY ONLY <3>1
    <3> QED BY ONLY <3>1, <3>2
  <2>2. ASSUME NEW k \in 1..n PROVE Valid(SE(f.offsets[k + 2])) /\ SE(f.offsets[k + 2]).kind = "se"
    <3> DEFINE l == Len(f.offsets)
    <3>1. k + 2 \in 1..l
      <4>1. l \in Nat /\ k \in 1..(l - 2)  BY <2>1
      <4> HIDE DEF l
      <4> QED BY ONLY <4>1
    <3> QED BY <1>1, <3>1, ElementsAre
  <2>3. OffsetsHead(f) = [i \in 1..n |-> SE(f.offsets[i + 2])]  BY DEF OffsetsHead
  <2> HIDE DEF n
  <2>4. Writes(OffsetsHead(f), [i \in 1..n |-> "se"], n)
    <3> DEFINE es == OffsetsHead(f)
    <3>1. DOMAIN es = 1..n /\ \A k \in 1..n : Valid(es[k]) /\ es[k].kind = "se"
          BY <2>2, <2>3
    <3> HIDE DEF es
    <3>2. Writes(es, [i \in 1..n |-> "se"], n)  BY <2>1, <3>1, WritesMany
    <3> QED BY <3>2 DEF es
  <2> QED BY <2>1, <2>4 DEF n
<1> QED BY <1>3, <1>4, <1>5, <1>6, <1>7, <1>8, <1>9, <1>10

\* One element, and what follows it.
LEMMA ReadsOne ==
    ASSUME NEW at \in Nat, NEW e, Valid(e), NEW back \in BitStrings, bits \in BitStrings,
           Ahead(at, Codes(<<e>>) \o back)
    PROVE  \/ /\ Element(at, e.kind).pos \in Nat /\ Ahead(Element(at, e.kind).pos, back)
              /\ Element(at, e.kind).value = e.value
           \/ Element(at, e.kind) = Thrown /\ ~whole
<1> DEFINE n == 1  es == <<e>>  pieces == <<Code(e)>>  c == Code(e)  r == Element(at, e.kind)
<1>1. n \in Nat /\ DOMAIN es = 1..n /\ \A k \in 1..n : es[k] = e  OBVIOUS
<1>2. Codes(es) \in BitStrings
  <2> HIDE DEF n, es
  <2> QED BY <1>1, CodesType
<1>3. Codes(es) = Concat(pieces)
  <2>1. [k \in DOMAIN es |-> Code(es[k])] = pieces  OBVIOUS
  <2> QED BY <2>1, Zenon DEF Codes
<1>4. c \in BitStrings  BY CodeIs
<1>5. n \in 1..n /\ n - 1 = 0 /\ pieces[n] = c  OBVIOUS
<1>6. Len(pieces) = n /\ pieces \in [1..n -> BitStrings]
  <2> HIDE DEF c
  <2>1. Len(<<c>>) = 1 /\ <<c>> \in [1..1 -> BitStrings]  BY <1>4
  <2> QED BY <2>1 DEF c
<1>7. Ahead(at, Codes(es) \o back)  OBVIOUS
<1> HIDE DEF n, es, pieces
<1>8. Ahead(at, Codes(es)) /\ Ahead(at + Len(Codes(es)), back) /\ at + Len(Codes(es)) \in Nat
      BY <1>2, <1>7, AheadParts
<1>9. PICK ends \in [0..n -> Nat] : AheadOf(at, ends, pieces, n)
  <2>1. Ahead(at, Concat(pieces))  BY <1>3, <1>8
  <2> QED BY <1>1, <1>6, <2>1, AheadPieces, Zenon
<1>10. /\ ends[0] = 0 /\ ends[n] = Len(Codes(es))
       /\ ends[n] = ends[0] + Len(c) /\ Ahead(at + ends[0], c)
       BY <1>3, <1>5, <1>9 DEF AheadOf
<1>11. Ahead(at, c) /\ Len(Codes(es)) = Len(c)
  <2>1. Len(c) \in Nat  BY <1>4 DEF BitStrings
  <2>2. at + 0 = at /\ 0 + Len(c) = Len(c)  BY <2>1
  <2> QED BY <1>10, <2>2
<1>12. \/ r = [pos |-> at + Len(c), value |-> e.value]
       \/ r = Thrown /\ ~whole
       BY <1>11, ReadsElement
<1> DEFINE p == at + Len(c)
<1>13. CASE r = [pos |-> p, value |-> e.value]
  <2>1. p \in Nat /\ Ahead(p, back)  BY <1>8, <1>11
  <2> HIDE DEF p, r
  <2>2. r.pos = p /\ r.value = e.value  BY <1>13
  <2>3. r.pos \in Nat /\ Ahead(r.pos, back) /\ r.value = e.value  BY <2>1, <2>2
  <2> QED BY <2>3 DEF r
<1>14. CASE r = Thrown /\ ~whole  BY <1>14
<1> QED BY <1>12, <1>13, <1>14

LEMMA ReadsOneUe ==
    ASSUME NEW at \in Nat, NEW v, Codable(v), NEW back \in BitStrings, bits \in BitStrings,
           Ahead(at, Codes(<<UE(v)>>) \o back)
    PROVE  \/ ReadUe(at).pos \in Nat /\ Ahead(ReadUe(at).pos, back) /\ ReadUe(at).value = v
           \/ ReadUe(at) = Thrown /\ ~whole
<1> DEFINE e == UE(v)
<1>1. Valid(e) /\ e.kind = "ue" /\ e.value = v  BY ElementsAre
<1>2. Ahead(at, Codes(<<e>>) \o back)  OBVIOUS
<1> HIDE DEF e
<1>3. Element(at, e.kind) = ReadUe(at)  BY <1>1 DEF Element
<1> DEFINE r == Element(at, e.kind)
<1>4. \/ r.pos \in Nat /\ Ahead(r.pos, back) /\ r.value = e.value
      \/ r = Thrown /\ ~whole
      BY <1>1, <1>2, ReadsOne
<1> QED BY <1>1, <1>3, <1>4

LEMMA ReadsOneFlag ==
    ASSUME NEW at \in Nat, NEW v \in {0, 1}, NEW back \in BitStrings, bits \in BitStrings,
           Ahead(at, Codes(<<U1(v)>>) \o back)
    PROVE  \/ ReadU(at, 1).pos \in Nat /\ Ahead(ReadU(at, 1).pos, back)
           \/ ReadU(at, 1) = Thrown /\ ~whole
<1> DEFINE e == U1(v)
<1>1. Valid(e) /\ e.kind = "u1" /\ e.value = v  BY ElementsAre
<1>2. Ahead(at, Codes(<<e>>) \o back)  OBVIOUS
<1> HIDE DEF e
<1>3. Element(at, e.kind) = ReadU(at, 1)  BY <1>1 DEF Element
<1> DEFINE r == Element(at, e.kind)
<1>4. \/ r.pos \in Nat /\ Ahead(r.pos, back) /\ r.value = e.value
      \/ r = Thrown /\ ~whole
      BY <1>1, <1>2, ReadsOne
<1> QED BY <1>1, <1>3, <1>4

LEMMA OneType == ASSUME NEW e, Valid(e) PROVE Codes(<<e>>) \in BitStrings
<1> DEFINE n == 1  es == <<e>>
<1>1. n \in Nat /\ DOMAIN es = 1..n /\ \A k \in 1..n : es[k] = e  OBVIOUS
<1>2. Codes(es) \in BitStrings
  <2> HIDE DEF n, es
  <2> QED BY <1>1, CodesType
<1> QED BY <1>2

\* A small number has a code.
LEMMA SmallCode == ASSUME NEW v \in 0..254 PROVE Codable(v)
<1> DEFINE w == v + 1
<1>1. w \in 0..255 /\ w \in Nat  OBVIOUS
<1> HIDE DEF w
<1>2. Half(w)[8] = 0  BY <1>1, ByteHas8Digits
<1>3. \A k \in 1..32 : Half(w)[k] = Half(w)[k - 1] \div 2  BY <1>1, HalfUnfolds
<1> DEFINE N == 23  T == {k \in 0..N : Half(w)[8 + k] = 0}
<1>4. N \in Nat /\ 0 \in T  BY <1>2
<1>5. ASSUME NEW k \in 1..N, k - 1 \in T PROVE k \in T
  <2> DEFINE a == Half(w)[8 + k - 1]  b == Half(w)[8 + k]
  <2>1. 8 + k \in 1..32 /\ 8 + (k - 1) = 8 + k - 1  OBVIOUS
  <2>2. a = 0 /\ b = a \div 2
    <3>1. Half(w)[8 + (k - 1)] = 0  BY <1>5
    <3> QED BY <1>3, <2>1, <3>1
  <2> HIDE DEF a, b
  <2>3. b = 0  BY <2>2
  <2> QED BY <2>3 DEF b
<1> HIDE DEF N, T
<1>6. \A k \in 0..N : k \in T  BY <1>4, <1>5, BoundedInduction, Zenon
<1>7. 23 \in T  BY <1>6 DEF N
<1>8. Half(w)[31] = 0
  <2>1. Half(w)[8 + 23] = 0  BY <1>7 DEF T
  <2> QED BY <2>1
<1> QED BY <1>8 DEF w, Codable

NoBits == <<>> \in BitStrings /\ \A s \in BitStrings : <<>> \o s = s

LEMMA NoBitsHolds == NoBits
<1> DEFINE S == {0, 1}
<1>1. <<>> \in Seq(S) /\ \A s \in Seq(S) : <<>> \o s = s
  <2> HIDE DEF S
  <2> QED BY ConcatEmptySeq
<1> QED BY <1>1 DEF BitStrings, NoBits

PartsAreBits(f) ==
    /\ f.rest \in BitStrings
    /\ CropsPart(f) \in BitStrings /\ CropPart(f) \in BitStrings /\ SizePart(f) \in BitStrings
    /\ OffsetsPart(f) \in BitStrings
    /\ Order0Part(f) \in BitStrings /\ Order1Part(f) \in BitStrings /\ OrderPart(f) \in BitStrings
    /\ ListsPart(f) \in BitStrings /\ DepthPart(f) \in BitStrings
    /\ ChromaPart(f) \in BitStrings /\ Encoded(f) \in BitStrings

LEMMA ListsType ==
    ASSUME NEW f, WellFormed(f), bits \in BitStrings
    PROVE  ListsPart(f) \in BitStrings
<1> DEFINE n == ListCount(f)  S == {0, 1}  pieces == [i \in 1..n |-> ListCode(f.lists[i])]
<1>1. n \in Nat /\ n <= 12  BY DEF ListCount
<1>2. pieces \in [1..n -> Seq(S)] /\ Len(pieces) = n
  <2>1. ASSUME NEW i \in 1..n PROVE ListCode(f.lists[i]) \in BitStrings
    <3>1. ListSize(i) \in Nat  BY DEF ListSize
    <3>2. i \in 1..12  BY <1>1
    <3>3. ScalingList(f.lists[i], ListSize(i))  BY <3>2, Zenon DEF WellFormed, ListSize
    <3> QED BY <3>1, <3>3, ListIs
  <2> HIDE DEF n
  <2> QED BY <1>1, <2>1 DEF BitStrings
<1> HIDE DEF n, S
<1>3. Concat(pieces) \in Seq(S)
  <2> HIDE DEF pieces
  <2> QED BY <1>1, <1>2, PiecesLie, Zenon
<1>4. Concat(pieces) \in BitStrings  BY <1>3 DEF S, BitStrings
<1>5. ListsPart(f) = IF f.matrix = 0 THEN <<>> ELSE Concat(pieces)  BY DEF ListsPart, n
<1> QED BY <1>4, <1>5, NoBitsHolds DEF NoBits

LEMMA PartsType ==
    ASSUME NEW f, WellFormed(f), bits \in BitStrings
    PROVE  PartsAreBits(f)
<1>1. f.rest \in BitStrings  BY DEF WellFormed, BitStrings
<1>2. /\ f.chroma \in 0..3
      /\ Codable(f.numbers[5]) /\ f.flags[1] \in {0, 1} /\ f.flags[5] \in {0, 1}
  <2>1. f.chroma \in 0..3 /\ \A i \in 1..6 : Codable(f.numbers[i]) /\ f.flags[i] \in {0, 1}
        BY Zenon DEF WellFormed
  <2> QED BY <2>1
<1>3. /\ Codes(<<UE(f.chroma)>>) \in BitStrings /\ Codes(<<UE(f.numbers[5])>>) \in BitStrings
      /\ Codes(<<U1(f.flags[1])>>) \in BitStrings /\ Codes(<<U1(f.flags[5])>>) \in BitStrings
  <2>1. Codable(f.chroma)  BY <1>2, SmallCode
  <2>2. Valid(UE(f.chroma)) /\ Valid(UE(f.numbers[5])) /\ Valid(U1(f.flags[1]))
        /\ Valid(U1(f.flags[5]))
        BY <1>2, <2>1, ElementsAre
  <2> QED BY <2>2, OneType
<1>4. /\ Codes(ProfileHead(f)) \in BitStrings /\ Codes(DepthHead(f)) \in BitStrings
      /\ Codes(OrderHead(f)) \in BitStrings /\ Codes(Order1Head(f)) \in BitStrings
      /\ Codes(OffsetsHead(f)) \in BitStrings /\ Codes(SizeHead(f)) \in BitStrings
      /\ Codes(CropHead(f)) \in BitStrings /\ Codes(CropsHead(f)) \in BitStrings
  <2>1. 2 \in Nat /\ 4 \in Nat /\ 5 \in Nat  OBVIOUS
  <2>2. ASSUME NEW n \in Nat, NEW es, NEW kinds, Writes(es, kinds, n)
        PROVE  Codes(es) \in BitStrings
        BY <2>2, CodesType DEF Writes
  <2> QED BY <2>1, <2>2, GroupsAre, Zenon
<1>5. \A a, b : a \in BitStrings /\ b \in BitStrings => a \o b \in BitStrings  BY BitsJoin
<1>6. <<>> \in BitStrings  BY NoBitsHolds DEF NoBits
<1>7. CropsPart(f) \in BitStrings
  <2>1. CropsPart(f) = (IF f.crop = <<0, 0, 0, 0>> THEN <<>> ELSE Codes(CropsHead(f))) \o f.rest
        BY DEF CropsPart, CropsHead
  <2> QED BY <1>1, <1>4, <1>5, <1>6, <2>1
<1>8. CropPart(f) \in BitStrings
  <2>1. CropPart(f) = Codes(CropHead(f)) \o CropsPart(f)  BY DEF CropPart, CropHead
  <2> QED BY <1>4, <1>5, <1>7, <2>1
<1>9. SizePart(f) \in BitStrings
  <2>1. SizePart(f) = Codes(SizeHead(f))
            \o ((IF f.frameMbs = 0 THEN Codes(<<U1(f.flags[5])>>) ELSE <<>>) \o CropPart(f))
        BY DEF SizePart, SizeHead
  <2> QED BY <1>3, <1>4, <1>5, <1>6, <1>8, <2>1
<1>10. OffsetsPart(f) \in BitStrings
  <2>1. OffsetsPart(f) = Codes(OffsetsHead(f)) \o SizePart(f)  BY DEF OffsetsPart, OffsetsHead
  <2> QED BY <1>4, <1>5, <1>9, <2>1
<1>11. Order0Part(f) \in BitStrings  BY <1>3, <1>5, <1>9 DEF Order0Part
<1>12. Order1Part(f) \in BitStrings
  <2>1. Order1Part(f) = Codes(Order1Head(f)) \o OffsetsPart(f)  BY DEF Order1Part, Order1Head
  <2> QED BY <1>4, <1>5, <1>10, <2>1
<1>13. OrderPart(f) \in BitStrings
  <2> DEFINE rest == CASE f.poc = 0 -> Order0Part(f) [] f.poc = 1 -> Order1Part(f)
                       [] OTHER -> SizePart(f)
  <2>1. OrderPart(f) = Codes(OrderHead(f)) \o rest  BY DEF OrderPart, OrderHead
  <2>2. rest \in BitStrings  BY <1>9, <1>11, <1>12
  <2> HIDE DEF rest
  <2> QED BY <1>4, <1>5, <2>1, <2>2
<1>14. ListsPart(f) \in BitStrings  BY ListsType
<1>15. DepthPart(f) \in BitStrings
  <2>1. DepthPart(f) = Codes(DepthHead(f)) \o (ListsPart(f) \o OrderPart(f))
        BY DEF DepthPart, DepthHead
  <2> QED BY <1>4, <1>5, <1>13, <1>14, <2>1
<1>16. ChromaPart(f) \in BitStrings
  <2>1. ChromaPart(f) = Codes(<<UE(f.chroma)>>)
            \o ((IF f.chroma = 3 THEN Codes(<<U1(f.flags[1])>>) ELSE <<>>) \o DepthPart(f))
        BY DEF ChromaPart
  <2> QED BY <1>3, <1>5, <1>6, <1>15, <2>1
<1>17. Encoded(f) \in BitStrings
  <2>1. Encoded(f) = Codes(ProfileHead(f))
            \o (IF f.profile \in HighProfiles THEN ChromaPart(f) ELSE OrderPart(f))
        BY DEF Encoded, ProfileHead
  <2> QED BY <1>4, <1>5, <1>13, <1>16, <2>1
<1> QED BY <1>1, <1>7, <1>8, <1>9, <1>10, <1>11, <1>12, <1>13, <1>14, <1>15, <1>16, <1>17
        DEF PartsAreBits

-----------------------------------------------------------------------------
(* The inductive invariant: what the encoder wrote from the group on that   *)
(* is read next lies before the reader, and what has been read is what it   *)
(* meant.                                                                   *)

Reading == {"profile", "chroma", "depth", "order", "order0", "order1", "size", "crop"}

Part(p, f) ==
    CASE p = "profile" -> Encoded(f)    [] p = "chroma" -> ChromaPart(f)
      [] p = "depth"   -> DepthPart(f)  [] p = "order"  -> OrderPart(f)
      [] p = "order0"  -> Order0Part(f) [] p = "order1" -> Order1Part(f)
      [] p = "size"    -> SizePart(f)   [] p = "crop"   -> CropPart(f)

AsMeant(p, v, f) ==
    /\ p \in {"chroma", "depth"} => f.profile \in HighProfiles
    /\ p \in {"depth", "order", "order0", "order1", "size", "crop"} => v.chroma = Chroma(f)
    /\ p = "crop" => v.wide = f.wide /\ v.high = f.high /\ v.frameMbs = f.frameMbs

SpsInv ==
    /\ fields \in Fields /\ bits \in BitStrings /\ phase \in Reading \cup {"arrives", "done"}
    /\ values \in [chroma : Int, wide : Int, high : Int, frameMbs : Int]
    /\ phase = "arrives" => pos = 0
    /\ phase # "done" => dims = NoDims
    /\ phase \in Reading => pos \in Nat /\ Ahead(pos, Part(phase, fields))
                            /\ AsMeant(phase, values, fields)
    /\ SizeIsEncoders

\* A group that has been read leads to the next one, or the reader throws.
LEMMA GoesToInv ==
    ASSUME SpsInv, phase \in Reading, NEW to \in Reading, NEW at, GoesTo(to, at),
           values' \in [chroma : Int, wide : Int, high : Int, frameMbs : Int],
           \/ at \in Nat /\ Ahead(at, Part(to, fields)) /\ AsMeant(to, values', fields)
           \/ Threw(at)
    PROVE  SpsInv'
<1>1. /\ pos' = at /\ phase' = (IF at < 0 THEN "done" ELSE to)
      /\ fields' = fields /\ whole' = whole /\ bits' = bits /\ dims' = dims
      BY DEF GoesTo
<1>2. /\ fields \in Fields /\ bits \in BitStrings /\ dims = NoDims
      BY DEF SpsInv, Reading
<1>3. CASE Threw(at)
  <2>1. at = -1 /\ ~whole  BY <1>3 DEF Threw
  <2>2. phase' = "done" /\ dims' = NoDims /\ ~whole'  BY <1>1, <1>2, <2>1
  <2>3. SizeIsEncoders'  BY <2>2 DEF SizeIsEncoders
  <2> QED BY <1>1, <1>2, <2>2, <2>3 DEF SpsInv, Reading
<1>4. CASE at \in Nat /\ Ahead(at, Part(to, fields)) /\ AsMeant(to, values', fields)
  <2>1. phase' = to /\ to # "done" /\ to # "arrives"  BY <1>1, <1>4 DEF Reading
  <2>2. Ahead(pos, Part(phase, fields))'  BY <1>1, <1>4, <2>1 DEF Ahead
  <2>3. AsMeant(phase, values, fields)'  BY <1>1, <1>4, <2>1
  <2>4. SizeIsEncoders'  BY <2>1 DEF SizeIsEncoders
  <2> QED BY <1>1, <1>2, <1>4, <2>1, <2>2, <2>3, <2>4 DEF SpsInv
<1> QED BY <1>3, <1>4

-----------------------------------------------------------------------------
(* One lemma per step of the parser.                                       *)

SizeValues == [chroma : Int, wide : Int, high : Int, frameMbs : Int]

LEMMA WhileReading ==
    ASSUME SpsInv, phase \in Reading
    PROVE  /\ fields \in Fields /\ WellFormed(fields) /\ PartsAreBits(fields)
           /\ bits \in BitStrings /\ values \in SizeValues /\ pos \in Nat
           /\ Ahead(pos, Part(phase, fields)) /\ AsMeant(phase, values, fields)
<1>1. WellFormed(fields)  BY SpsAssumption DEF SpsInv
<1>2. PartsAreBits(fields)  BY <1>1, PartsType DEF SpsInv
<1> QED BY <1>1, <1>2 DEF SpsInv, SizeValues

LEMMA ProfileStep == ASSUME SpsInv, ReadProfile PROVE SpsInv'
<1> DEFINE f == fields  es == ProfileHead(f)  kinds == <<"u8", "u8", "u8", "ue">>
           r == ReadAll(pos, kinds)
           back == IF f.profile \in HighProfiles THEN ChromaPart(f) ELSE OrderPart(f)
           to == IF HasChromaInfo(r.values[1]) THEN "chroma" ELSE "order"
<1>1. phase = "profile" /\ GoesTo(to, r.pos) /\ values' = [values EXCEPT !.chroma = 1]
      BY DEF ReadProfile
<1>2. /\ WellFormed(f) /\ PartsAreBits(f) /\ bits \in BitStrings /\ values \in SizeValues
      /\ pos \in Nat /\ Ahead(pos, Encoded(f))
      BY <1>1, WhileReading DEF Reading, Part
<1>3. Encoded(f) = Codes(es) \o back  BY DEF Encoded, ProfileHead
<1>4. back \in BitStrings  BY <1>2 DEF PartsAreBits
<1>5. HasRead(r, es, 4, back)
  <2>1. Writes(es, kinds, 4) /\ 4 \in Nat  BY <1>2, GroupsAre
  <2> HIDE DEF es, kinds, back
  <2> QED BY <1>2, <1>3, <1>4, <2>1, ReadsHead
<1>6. es[1].value = f.profile  BY DEF ProfileHead, U8
<1> HIDE DEF r, es, kinds
<1>7. values' \in SizeValues /\ values'.chroma = 1  BY <1>1, <1>2 DEF SizeValues
<1>8. to \in Reading  BY DEF Reading
<1>9. ASSUME ~Threw(r.pos)
      PROVE  r.pos \in Nat /\ Ahead(r.pos, Part(to, f)) /\ AsMeant(to, values', f)
  <2>1. r.pos \in Nat /\ Ahead(r.pos, back) /\ r.values[1] = f.profile
        BY <1>5, <1>6, <1>9 DEF HasRead
  <2>2. CASE f.profile \in HighProfiles
    <3>1. to = "chroma"  BY <2>1, <2>2 DEF HasChromaInfo, HighProfiles
    <3> HIDE DEF to
    <3> QED BY <2>1, <2>2, <3>1 DEF Part, AsMeant
  <2>3. CASE f.profile \notin HighProfiles
    <3>1. to = "order"  BY <2>1, <2>3 DEF HasChromaInfo, HighProfiles
    <3>2. Chroma(f) = 1  BY <2>3 DEF Chroma
    <3> HIDE DEF to
    <3> QED BY <1>7, <2>1, <2>3, <3>1, <3>2 DEF Part, AsMeant
  <2> QED BY <2>2, <2>3
<1> HIDE DEF to
<1> QED BY <1>1, <1>7, <1>8, <1>9, GoesToInv DEF Reading, SizeValues

LEMMA ChromaStep == ASSUME SpsInv, ReadChroma PROVE SpsInv'
<1> DEFINE f == fields  r == ReadUe(pos)  flag == ReadU(r.pos, 1)
           middle == IF f.chroma = 3 THEN Codes(<<U1(f.flags[1])>>) ELSE <<>>
           back == middle \o DepthPart(f)
           at == IF r.value = 3 THEN flag.pos ELSE r.pos
<1>1. phase = "chroma" /\ GoesTo("depth", at) /\ values' = [values EXCEPT !.chroma = r.value]
      BY DEF ReadChroma
<1>2. /\ WellFormed(f) /\ PartsAreBits(f) /\ bits \in BitStrings /\ values \in SizeValues
      /\ pos \in Nat /\ Ahead(pos, ChromaPart(f)) /\ f.profile \in HighProfiles
      BY <1>1, WhileReading DEF Reading, Part, AsMeant
<1>3. ChromaPart(f) = Codes(<<UE(f.chroma)>>) \o back  BY DEF ChromaPart
<1>4. f.chroma \in 0..3 /\ Codable(f.chroma) /\ f.flags[1] \in {0, 1}
  <2>1. f.chroma \in 0..3 /\ \A i \in 1..6 : f.flags[i] \in {0, 1}
        BY <1>2, Zenon DEF WellFormed
  <2> QED BY <2>1, SmallCode
<1>5. middle \in BitStrings
  <2>1. Codes(<<U1(f.flags[1])>>) \in BitStrings  BY <1>2, <1>4, OneFlag
  <2> QED BY <2>1, NoBitsHolds DEF NoBits
<1>6. back \in BitStrings
  <2> HIDE DEF middle
  <2> QED BY <1>2, <1>5, BitsJoin DEF PartsAreBits
<1>7. \/ r.pos \in Nat /\ Ahead(r.pos, back) /\ r.value = f.chroma
      \/ r = Thrown /\ ~whole
  <2>1. Ahead(pos, Codes(<<UE(f.chroma)>>) \o back)  BY <1>2, <1>3
  <2> HIDE DEF back
  <2> QED BY <1>2, <1>4, <1>6, <2>1, ReadsOneUe
<1>8. r \in [pos : Int, value : Int]
  <2>1. pos \in Int /\ "ue" \in Kinds  BY <1>2 DEF Kinds
  <2> QED BY <1>2, <2>1, ElementType
<1> HIDE DEF r
<1>9. values' \in SizeValues /\ values'.chroma = r.value  BY <1>1, <1>2, <1>8 DEF SizeValues
<1>10. CASE r = Thrown /\ ~whole
  <2>1. at = -1  BY <1>10 DEF Thrown
  <2>2. Threw(at)  BY <1>10, <2>1 DEF Threw
  <2> HIDE DEF at
  <2> QED BY <1>1, <1>9, <2>2, GoesToInv DEF Reading, SizeValues
<1>11. CASE r.pos \in Nat /\ Ahead(r.pos, back) /\ r.value = f.chroma
  <2>1. Threw(at) \/ (at \in Nat /\ Ahead(at, DepthPart(f)))
    <3>1. CASE f.chroma = 3
      <4> DEFINE v == f.flags[1]  p == r.pos  rest == DepthPart(f)
      <4>1. /\ p \in Nat /\ v \in {0, 1} /\ Ahead(p, Codes(<<U1(v)>>) \o rest)
            /\ rest \in BitStrings /\ at = flag.pos
            BY <1>2, <1>4, <1>11, <3>1 DEF PartsAreBits
      <4>2. \/ flag.pos \in Nat /\ Ahead(flag.pos, rest)
            \/ flag = Thrown /\ ~whole
        <5> HIDE DEF v, p, rest
        <5>1. \/ ReadU(p, 1).pos \in Nat /\ Ahead(ReadU(p, 1).pos, rest)
              \/ ReadU(p, 1) = Thrown /\ ~whole
              BY <1>2, <4>1, ReadsOneFlag
        <5> QED BY <5>1 DEF p
      <4> HIDE DEF at, flag, rest
      <4> QED BY <4>1, <4>2 DEF Threw, Thrown, rest
    <3>2. CASE f.chroma # 3
      <4>1. at = r.pos  BY <1>11, <3>2
      <4>2. back = DepthPart(f)
        <5>1. middle = <<>>  BY <3>2
        <5> QED BY <1>2, <5>1, NoBitsHolds DEF NoBits, PartsAreBits
      <4> HIDE DEF at, back
      <4> QED BY <1>11, <4>1, <4>2
    <3> QED BY <3>1, <3>2
  <2>2. AsMeant("depth", values', f)  BY <1>2, <1>9, <1>11 DEF AsMeant, Chroma
  <2> HIDE DEF at
  <2>3. Part("depth", f) = DepthPart(f)  BY DEF Part
  <2> QED BY <1>1, <1>9, <2>1, <2>2, <2>3, GoesToInv DEF Reading, SizeValues
<1> QED BY <1>7, <1>10, <1>11

LEMMA DepthStep == ASSUME SpsInv, ReadDepth PROVE SpsInv'
<1> DEFINE f == fields  es == DepthHead(f)  kinds == <<"ue", "ue", "u1", "u1">>
           r == ReadAll(pos, kinds)  back == ListsPart(f) \o OrderPart(f)
           count == IF values.chroma # 3 THEN 8 ELSE 12
           at == IF r.values[4] # 1 THEN r.pos ELSE SkipScalingLists(r.pos, count)
<1>1. phase = "depth" /\ GoesTo("order", at) /\ values' = values
      BY DEF ReadDepth
<1>2. /\ WellFormed(f) /\ PartsAreBits(f) /\ bits \in BitStrings /\ values \in SizeValues
      /\ pos \in Nat /\ Ahead(pos, DepthPart(f)) /\ f.profile \in HighProfiles
      /\ values.chroma = Chroma(f)
      BY <1>1, WhileReading DEF Reading, Part, AsMeant
<1>3. DepthPart(f) = Codes(es) \o back  BY DEF DepthPart, DepthHead
<1>4. ListsPart(f) \in BitStrings /\ OrderPart(f) \in BitStrings /\ back \in BitStrings
      BY <1>2, BitsJoin DEF PartsAreBits
<1>5. HasRead(r, es, 4, back)
  <2>1. Writes(es, kinds, 4) /\ 4 \in Nat  BY <1>2, GroupsAre
  <2> HIDE DEF es, kinds, back
  <2> QED BY <1>2, <1>3, <1>4, <2>1, ReadsHead
<1>6. es[4].value = f.matrix  BY DEF DepthHead, U1
<1> HIDE DEF r, es, kinds
<1>7. count \in Nat /\ count = ListCount(f)  BY <1>2 DEF ListCount, Chroma
<1>8. CASE Threw(r.pos)
  <2>1. r.pos = -1 /\ ~whole  BY <1>8 DEF Threw
  <2>2. SkipScalingLists(-1, count) = -1
    <3> HIDE DEF count
    <3> QED BY <1>2, <1>7, ListsNothing
  <2>3. Threw(at)  BY <2>1, <2>2 DEF Threw
  <2> HIDE DEF at
  <2> QED BY <1>1, <1>2, <2>3, GoesToInv DEF Reading, SizeValues
<1>9. CASE r.pos \in Nat /\ Ahead(r.pos, back) /\ r.values[4] = f.matrix
  <2> DEFINE p == r.pos
  <2>1. Threw(at) \/ (at \in Nat /\ Ahead(at, OrderPart(f)))
    <3>0. f.matrix \in {0, 1}  BY <1>2 DEF WellFormed
    <3>1. CASE f.matrix = 0
      <4>1. at = p  BY <1>9, <3>1
      <4>2. back = OrderPart(f)
        <5>1. ListsPart(f) = <<>>  BY <3>1 DEF ListsPart
        <5> QED BY <1>4, <5>1, NoBitsHolds DEF NoBits
      <4> HIDE DEF at, back
      <4> QED BY <1>9, <4>1, <4>2
    <3>2. CASE f.matrix = 1
      <4> DEFINE lists == f.lists  end == SkipScalingLists(p, count)
                 code == Concat([i \in 1..count |-> ListCode(lists[i])])
      <4>1. ListsPart(f) = code  BY <1>7, <3>2 DEF ListsPart
      <4>2. Ahead(p, code) /\ Ahead(p + Len(code), OrderPart(f)) /\ p + Len(code) \in Nat
        <5>1. Ahead(p, code \o OrderPart(f)) /\ code \in BitStrings  BY <1>4, <1>9, <4>1
        <5>2. p \in Nat  BY <1>9
        <5> HIDE DEF code, p
        <5> QED BY <1>2, <1>4, <5>1, <5>2, AheadParts
      <4>3. \A i \in 1..count : ScalingList(lists[i], ListSize(i))
        <5>1. \A i \in 1..12 : ScalingList(lists[i], ListSize(i))
              BY <1>2, Zenon DEF WellFormed, ListSize
        <5> QED BY <5>1
      <4>4. end = p + Len(code) \/ Threw(end)
        <5>1. p \in Nat  BY <1>9
        <5> HIDE DEF lists, p, count
        <5> QED BY <1>2, <1>7, <4>2, <4>3, <5>1, SkipsLists
      <4>5. at = end  BY <1>9, <3>2
      <4> HIDE DEF at, end, code, p
      <4> QED BY <4>2, <4>4, <4>5
    <3> QED BY <3>0, <3>1, <3>2
  <2>2. AsMeant("order", values', f)  BY <1>1, <1>2 DEF AsMeant
  <2>3. Part("order", f) = OrderPart(f)  BY DEF Part
  <2> HIDE DEF at
  <2> QED BY <1>1, <1>2, <2>1, <2>2, <2>3, GoesToInv DEF Reading, SizeValues
<1> QED BY <1>5, <1>6, <1>8, <1>9 DEF HasRead

-----------------------------------------------------------------------------
LEMMA OrderStep == ASSUME SpsInv, ReadOrder PROVE SpsInv'
<1> DEFINE f == fields  es == OrderHead(f)  kinds == <<"ue", "ue">>  r == ReadAll(pos, kinds)
           back == CASE f.poc = 0 -> Order0Part(f) [] f.poc = 1 -> Order1Part(f)
                     [] OTHER -> SizePart(f)
           to == CASE r.values[2] = 0 -> "order0" [] r.values[2] = 1 -> "order1"
                   [] OTHER -> "size"
<1>1. phase = "order" /\ GoesTo(to, r.pos) /\ values' = values
      BY DEF ReadOrder
<1>2. /\ WellFormed(f) /\ PartsAreBits(f) /\ bits \in BitStrings /\ values \in SizeValues
      /\ pos \in Nat /\ Ahead(pos, OrderPart(f)) /\ values.chroma = Chroma(f)
      BY <1>1, WhileReading DEF Reading, Part, AsMeant
<1>3. OrderPart(f) = Codes(es) \o back  BY DEF OrderPart, OrderHead
<1>4. back \in BitStrings  BY <1>2 DEF PartsAreBits
<1>5. HasRead(r, es, 2, back)
  <2>1. Writes(es, kinds, 2) /\ 2 \in Nat  BY <1>2, GroupsAre
  <2> HIDE DEF es, kinds, back
  <2> QED BY <1>2, <1>3, <1>4, <2>1, ReadsHead
<1>6. es[2].value = f.poc  BY DEF OrderHead, UE
<1> HIDE DEF r, es, kinds
<1>7. to \in Reading  BY DEF Reading
<1>8. ASSUME ~Threw(r.pos)
      PROVE  r.pos \in Nat /\ Ahead(r.pos, Part(to, f)) /\ AsMeant(to, values', f)
  <2>1. r.pos \in Nat /\ Ahead(r.pos, back) /\ r.values[2] = f.poc
        BY <1>5, <1>6, <1>8 DEF HasRead
  <2>2. Part(to, f) = back  BY <2>1 DEF Part
  <2>3. AsMeant(to, values', f)  BY <1>1, <1>2 DEF AsMeant
  <2> HIDE DEF to, back
  <2> QED BY <2>1, <2>2, <2>3
<1> HIDE DEF to
<1> QED BY <1>1, <1>2, <1>7, <1>8, GoesToInv DEF Reading, SizeValues

LEMMA Order0Step == ASSUME SpsInv, ReadOrder0 PROVE SpsInv'
<1> DEFINE f == fields  r == ReadUe(pos)  back == SizePart(f)
<1>1. phase = "order0" /\ GoesTo("size", r.pos) /\ values' = values
      BY DEF ReadOrder0
<1>2. /\ WellFormed(f) /\ PartsAreBits(f) /\ bits \in BitStrings /\ values \in SizeValues
      /\ pos \in Nat /\ Ahead(pos, Order0Part(f)) /\ values.chroma = Chroma(f)
      BY <1>1, WhileReading DEF Reading, Part, AsMeant
<1>3. back \in BitStrings  BY <1>2 DEF PartsAreBits
<1>4. Ahead(pos, Codes(<<UE(f.numbers[5])>>) \o back)  BY <1>2 DEF Order0Part
<1>5. Codable(f.numbers[5])
  <2>1. \A i \in 1..6 : Codable(f.numbers[i])  BY <1>2, Zenon DEF WellFormed
  <2> QED BY <2>1
<1>6. \/ r.pos \in Nat /\ Ahead(r.pos, back)
      \/ r = Thrown /\ ~whole
  <2> HIDE DEF back
  <2> QED BY <1>2, <1>3, <1>4, <1>5, ReadsOneUe
<1> HIDE DEF r
<1>7. Threw(r.pos) \/ (r.pos \in Nat /\ Ahead(r.pos, back))  BY <1>6 DEF Threw, Thrown
<1>8. Part("size", f) = back /\ AsMeant("size", values', f)  BY <1>1, <1>2 DEF Part, AsMeant
<1> QED BY <1>1, <1>2, <1>7, <1>8, GoesToInv DEF Reading, SizeValues

\* No element for a count that is none.
LEMMA KindsOf ==
    ASSUME NEW v \in Int
    PROVE  \E n \in Nat : /\ [i \in 1..v |-> "se"] \in [1..n -> Kinds]
                          /\ Len([i \in 1..v |-> "se"]) = n
<1>1. CASE v \in Nat  BY <1>1 DEF Kinds
<1>2. CASE v \notin Nat
  <2>1. 1..v = 1..0  BY <1>2
  <2>2. [i \in 1..v |-> "se"] = [i \in 1..0 |-> "se"]  BY <2>1
  <2>3. [i \in 1..0 |-> "se"] \in [1..0 -> Kinds] /\ Len([i \in 1..0 |-> "se"]) = 0
        BY DEF Kinds
  <2> QED BY <2>2, <2>3
<1> QED BY <1>1, <1>2

LEMMA Order1Step == ASSUME SpsInv, ReadOrder1 PROVE SpsInv'
<1> DEFINE f == fields  es == Order1Head(f)  kinds == <<"u1", "se", "se", "ue">>
           r == ReadAll(pos, kinds)  v == r.values[4]
           at == ReadAll(r.pos, [i \in 1..v |-> "se"]).pos
<1>1. phase = "order1" /\ GoesTo("size", at) /\ values' = values
      BY DEF ReadOrder1
<1>2. /\ WellFormed(f) /\ PartsAreBits(f) /\ bits \in BitStrings /\ values \in SizeValues
      /\ pos \in Nat /\ Ahead(pos, Order1Part(f)) /\ values.chroma = Chroma(f)
      BY <1>1, WhileReading DEF Reading, Part, AsMeant
<1>3. Order1Part(f) = Codes(es) \o OffsetsPart(f)  BY DEF Order1Part, Order1Head
<1>4. OffsetsPart(f) \in BitStrings /\ SizePart(f) \in BitStrings  BY <1>2 DEF PartsAreBits
<1>5. /\ HasRead(r, es, 4, OffsetsPart(f))
      /\ r \in Readings /\ Len(r.values) = 4
  <2> DEFINE n == 4  back == OffsetsPart(f)
  <2>1. Writes(es, kinds, n) /\ n \in Nat  BY <1>2, GroupsAre
  <2>2. Ahead(pos, Codes(es) \o back) /\ back \in BitStrings  BY <1>2, <1>3, <1>4
  <2> HIDE DEF es, kinds, back, n
  <2>3. r \in Readings /\ Len(r.values) = n /\ HasRead(r, es, n, back)
        BY <1>2, <2>1, <2>2, ReadsHead
  <2> QED BY <2>3 DEF n, back
<1>6. es[4].value = Len(f.offsets) - 2  BY DEF Order1Head, UE
<1> HIDE DEF r, es, kinds
<1>7. v \in Int
  <2>1. r.values \in Seq(Int) /\ 4 \in 1..Len(r.values)  BY <1>5 DEF Readings
  <2> QED BY <2>1
<1>8. Threw(at) \/ (at \in Nat /\ Ahead(at, SizePart(f)))
  <2>1. CASE Threw(r.pos)
    <3>1. r.pos = -1 /\ ~whole  BY <2>1 DEF Threw
    <3> DEFINE some == [i \in 1..v |-> "se"]
    <3>2. PICK n \in Nat : some \in [1..n -> Kinds] /\ Len(some) = n  BY <1>7, KindsOf
    <3> HIDE DEF some, v
    <3>3. ReadAll(-1, some).pos = -1  BY <1>2, <3>2, ReadsNothing
    <3>4. at = -1  BY <3>1, <3>3 DEF some
    <3> QED BY <3>1, <3>4 DEF Threw
  <2>2. CASE r.pos \in Nat /\ Ahead(r.pos, OffsetsPart(f)) /\ v = Len(f.offsets) - 2
    <3> DEFINE n == Len(f.offsets) - 2  all == OffsetsHead(f)  some == [i \in 1..n |-> "se"]
               p == r.pos  rest == SizePart(f)
    <3>1. n \in Nat /\ Writes(all, some, n)  BY <1>2, GroupsAre
    <3>2. Ahead(p, Codes(all) \o rest) /\ p \in Nat /\ rest \in BitStrings
          BY <1>4, <2>2 DEF OffsetsPart, OffsetsHead
    <3>3. at = ReadAll(p, some).pos  BY <2>2
    <3> HIDE DEF n, all, some, p, rest, at
    <3>4. HasRead(ReadAll(p, some), all, n, rest)  BY <1>2, <3>1, <3>2, ReadsHead
    <3> QED BY <3>3, <3>4 DEF HasRead, rest
  <2> QED BY <1>5, <1>6, <2>1, <2>2 DEF HasRead
<1>9. Part("size", f) = SizePart(f) /\ AsMeant("size", values', f)
      BY <1>1, <1>2 DEF Part, AsMeant
<1> HIDE DEF at
<1> QED BY <1>1, <1>2, <1>8, <1>9, GoesToInv DEF Reading, SizeValues

LEMMA SizeStep == ASSUME SpsInv, ReadSize PROVE SpsInv'
<1> DEFINE f == fields  es == SizeHead(f)  kinds == <<"ue", "u1", "ue", "ue", "u1">>
           r == ReadAll(pos, kinds)  flag == ReadU(r.pos, 1)
           middle == IF f.frameMbs = 0 THEN Codes(<<U1(f.flags[5])>>) ELSE <<>>
           back == middle \o CropPart(f)
           at == IF r.values[5] = 0 THEN flag.pos ELSE r.pos
<1>1. /\ phase = "size" /\ GoesTo("crop", at)
      /\ values' = [chroma |-> values.chroma, wide |-> r.values[3] + 1,
                    high |-> r.values[4] + 1, frameMbs |-> r.values[5]]
      BY DEF ReadSize
<1>2. /\ WellFormed(f) /\ PartsAreBits(f) /\ bits \in BitStrings /\ values \in SizeValues
      /\ pos \in Nat /\ Ahead(pos, SizePart(f)) /\ values.chroma = Chroma(f)
      BY <1>1, WhileReading DEF Reading, Part, AsMeant
<1>3. SizePart(f) = Codes(es) \o back  BY DEF SizePart, SizeHead
<1>4. f.frameMbs \in {0, 1} /\ f.flags[5] \in {0, 1} /\ f.wide \in Int /\ f.high \in Int
  <2>1. /\ {f.matrix, f.frameMbs} \subseteq {0, 1} /\ \A i \in 1..6 : f.flags[i] \in {0, 1}
        /\ {f.wide, f.high} \subseteq 1..kMaxMbs
        BY <1>2, Zenon DEF WellFormed
  <2> QED BY <2>1
<1>5. middle \in BitStrings
  <2>1. Codes(<<U1(f.flags[5])>>) \in BitStrings  BY <1>2, <1>4, OneFlag
  <2> QED BY <2>1, NoBitsHolds DEF NoBits
<1>6. back \in BitStrings
  <2> HIDE DEF middle
  <2> QED BY <1>2, <1>5, BitsJoin DEF PartsAreBits
<1>7. HasRead(r, es, 5, back) /\ r \in Readings /\ Len(r.values) = 5
  <2> DEFINE n == 5
  <2>1. Writes(es, kinds, n) /\ n \in Nat  BY <1>2, GroupsAre
  <2>2. Ahead(pos, Codes(es) \o back)  BY <1>2, <1>3
  <2> HIDE DEF es, kinds, back, n
  <2>3. r \in Readings /\ Len(r.values) = n /\ HasRead(r, es, n, back)
        BY <1>2, <1>6, <2>1, <2>2, ReadsHead
  <2> QED BY <2>3 DEF n
<1>8. es[3].value = f.wide - 1 /\ es[4].value = f.high - 1 /\ es[5].value = f.frameMbs
      BY DEF SizeHead, UE, U1
<1> HIDE DEF r, es, kinds
<1> DEFINE v3 == r.values[3]  v4 == r.values[4]  v5 == r.values[5]
<1>9. v3 \in Int /\ v4 \in Int /\ v5 \in Int
  <2> DEFINE vs == r.values
  <2>1. vs \in Seq(Int) /\ Len(vs) = 5  BY <1>7 DEF Readings
  <2> HIDE DEF vs
  <2>4. \A i \in 1..Len(vs) : vs[i] \in Int
    <3>1. vs \in Seq(Int)  BY <2>1
    <3> QED BY ONLY <3>1, ElementOfSeq
  <2>2. \A i \in 1..5 : vs[i] \in Int  BY <2>1, <2>4
  <2>3. vs[3] \in Int /\ vs[4] \in Int /\ vs[5] \in Int  BY <2>2
  <2> QED BY <2>3 DEF vs
<1>10. /\ values' \in SizeValues /\ values'.chroma = values.chroma
       /\ values'.wide = v3 + 1 /\ values'.high = v4 + 1 /\ values'.frameMbs = v5
  <2> DEFINE wide == v3 + 1  high == v4 + 1
  <2>2. wide \in Int /\ high \in Int  BY <1>9
  <2>3. values' = [chroma |-> values.chroma, wide |-> wide, high |-> high, frameMbs |-> v5]
        BY <1>1
  <2>4. values.chroma \in Int  BY <1>2 DEF SizeValues
  <2> HIDE DEF v3, v4, v5, wide, high
  <2>5. values' \in SizeValues /\ values'.chroma = values.chroma
        /\ values'.wide = wide /\ values'.high = high /\ values'.frameMbs = v5
        BY <1>9, <2>2, <2>3, <2>4 DEF SizeValues
  <2> QED BY <2>5 DEF wide, high
<1>11. CASE Threw(r.pos)
  <2>1. r.pos = -1 /\ ~whole  BY <1>11 DEF Threw
  <2>2. flag = Thrown
    <3>1. -1 \in Int /\ "u1" \in Kinds /\ Element(-1, "u1") = ReadU(-1, 1)  BY DEF Kinds, Element
    <3> DEFINE m == -1
    <3>2. m \in Int /\ m < 0  OBVIOUS
    <3> HIDE DEF m
    <3>3. Element(m, "u1") = Thrown  BY <1>2, <3>1, <3>2, ElementType
    <3> QED BY <2>1, <3>1, <3>3 DEF m
  <2>3. Threw(at)  BY <2>1, <2>2 DEF Threw, Thrown
  <2> HIDE DEF at
  <2> QED BY <1>1, <1>10, <2>3, GoesToInv DEF Reading, SizeValues
<1>12. CASE /\ r.pos \in Nat /\ Ahead(r.pos, back)
            /\ v3 = f.wide - 1 /\ v4 = f.high - 1 /\ v5 = f.frameMbs
  <2>1. Threw(at) \/ (at \in Nat /\ Ahead(at, CropPart(f)))
    <3>1. CASE f.frameMbs = 0
      <4> DEFINE v == f.flags[5]  p == r.pos  rest == CropPart(f)
      <4>1. /\ p \in Nat /\ v \in {0, 1} /\ Ahead(p, Codes(<<U1(v)>>) \o rest)
            /\ rest \in BitStrings /\ at = flag.pos
            BY <1>2, <1>4, <1>12, <3>1 DEF PartsAreBits
      <4>2. \/ flag.pos \in Nat /\ Ahead(flag.pos, rest)
            \/ flag = Thrown /\ ~whole
        <5> HIDE DEF v, p, rest
        <5>1. \/ ReadU(p, 1).pos \in Nat /\ Ahead(ReadU(p, 1).pos, rest)
              \/ ReadU(p, 1) = Thrown /\ ~whole
              BY <1>2, <4>1, ReadsOneFlag
        <5> QED BY <5>1 DEF p
      <4> HIDE DEF at, flag, rest
      <4> QED BY <4>1, <4>2 DEF Threw, Thrown, rest
    <3>2. CASE f.frameMbs # 0
      <4>1. at = r.pos  BY <1>12, <3>2
      <4>2. back = CropPart(f)
        <5>1. middle = <<>>  BY <3>2
        <5> QED BY <1>2, <5>1, NoBitsHolds DEF NoBits, PartsAreBits
      <4> HIDE DEF at, back
      <4> QED BY <1>12, <4>1, <4>2
    <3> QED BY <3>1, <3>2
  <2>2. AsMeant("crop", values', f)
    <3>1. v3 + 1 = f.wide /\ v4 + 1 = f.high /\ v5 = f.frameMbs  BY <1>4, <1>12
    <3> HIDE DEF v3, v4, v5
    <3> QED BY <1>2, <1>10, <3>1 DEF AsMeant
  <2> HIDE DEF at
  <2>3. Part("crop", f) = CropPart(f)  BY DEF Part
  <2> QED BY <1>1, <1>10, <2>1, <2>2, <2>3, GoesToInv DEF Reading, SizeValues
<1> QED BY <1>7, <1>8, <1>11, <1>12 DEF HasRead

-----------------------------------------------------------------------------
EncodersSize(f) ==
    IF Width(f) <= 0 \/ Height(f) <= 0 THEN NoDims ELSE <<Width(f), Height(f)>>

LEMMA UnitsAre ==
    ASSUME NEW f, Chroma(f) \in 0..3, f.frameMbs \in {0, 1}
    PROVE  /\ CropUnits(Chroma(f), f.frameMbs)[1] = UnitX(f)
           /\ CropUnits(Chroma(f), f.frameMbs)[2] = UnitY(f)
           /\ UnitX(f) \in Int /\ UnitY(f) \in Int
<1> DEFINE c == Chroma(f)  m == f.frameMbs
<1>1. c \in 0..3 /\ m \in {0, 1}  OBVIOUS
<1>2. UnitX(f) = (IF c \in {0, 3} THEN 1 ELSE 2) /\ UnitY(f) = (IF c # 1 THEN 1 ELSE 2) * (2 - m)
      BY DEF UnitX, UnitY
<1> DEFINE k == 2 - m
<1>3. CropUnits(c, m) = IF c = 0 THEN <<1, k>>
                        ELSE <<IF c \in {1, 2} THEN 2 ELSE 1, (IF c = 1 THEN 2 ELSE 1) * k>>
      BY DEF CropUnits
<1>4. k \in Int  BY <1>1
<1> HIDE DEF c, m, k
<1>5. 1 * k = k  BY <1>4
<1> DEFINE double == 2 * k
<1>6. double \in Int  BY <1>4
<1>7. /\ CropUnits(c, m)[1] = IF c \in {0, 3} THEN 1 ELSE 2
      /\ CropUnits(c, m)[2] = IF c # 1 THEN k ELSE double
  <2>1. CropUnits(c, m) = IF c = 0 THEN <<1, k>>
                          ELSE <<IF c \in {1, 2} THEN 2 ELSE 1, IF c = 1 THEN double ELSE k>>
        BY <1>3, <1>5
  <2> HIDE DEF double
  <2> QED BY <1>1, <2>1
<1>8. UnitX(f) = (IF c \in {0, 3} THEN 1 ELSE 2) /\ UnitY(f) = (IF c # 1 THEN k ELSE double)
      BY <1>2, <1>5 DEF k
<1>9. /\ CropUnits(c, m)[1] = UnitX(f) /\ CropUnits(c, m)[2] = UnitY(f)
      /\ UnitX(f) \in Int /\ UnitY(f) \in Int
  <2> HIDE DEF double
  <2> QED BY <1>4, <1>6, <1>7, <1>8
<1> QED BY <1>9 DEF c, m

LEMMA SizeIs ==
    ASSUME NEW f, WellFormed(f), values.chroma = Chroma(f), values.wide = f.wide,
           values.high = f.high, values.frameMbs = f.frameMbs,
           NEW c, \A i \in 1..4 : c[i] = f.crop[i]
    PROVE  SizeOf(c) = EncodersSize(f)
<1>1. /\ Chroma(f) \in 0..3 /\ f.frameMbs \in {0, 1} /\ f.wide \in Int /\ f.high \in Int
      /\ \A i \in 1..4 : f.crop[i] \in Int
  <2>1. /\ f.chroma \in 0..3 /\ {f.matrix, f.frameMbs} \subseteq {0, 1}
        /\ {f.wide, f.high} \subseteq 1..kMaxMbs /\ \A i \in 1..4 : Codable(f.crop[i])
        BY Zenon DEF WellFormed
  <2>2. Chroma(f) \in 0..3  BY <2>1 DEF Chroma
  <2> QED BY <2>1, <2>2 DEF Codable
<1> DEFINE x == UnitX(f)  y == UnitY(f)  unit == CropUnits(Chroma(f), f.frameMbs)
           a == c[1] + c[2]  b == c[3] + c[4]  w == f.wide  h == f.high  m == f.frameMbs
<1>2. unit[1] = x /\ unit[2] = y /\ x \in Int /\ y \in Int  BY <1>1, UnitsAre
<1>3. /\ a = f.crop[1] + f.crop[2] /\ b = f.crop[3] + f.crop[4] /\ a \in Int /\ b \in Int
  <2>1. c[1] = f.crop[1] /\ c[2] = f.crop[2] /\ c[3] = f.crop[3] /\ c[4] = f.crop[4]  OBVIOUS
  <2>2. f.crop[1] \in Int /\ f.crop[2] \in Int /\ f.crop[3] \in Int /\ f.crop[4] \in Int
        BY <1>1
  <2> QED BY <2>1, <2>2
<1> DEFINE cutX == x * a  cutY == y * b
           width == w * 16 - cutX  height == (2 - m) * h * 16 - cutY
<1>4. SizeOf(c) = IF width <= 0 \/ height <= 0 THEN NoDims ELSE <<width, height>>
  <2>1. SizeOf(c) = IF \/ w * 16 - unit[1] * a <= 0
                       \/ (2 - m) * h * 16 - unit[2] * b <= 0
                    THEN NoDims
                    ELSE <<w * 16 - unit[1] * a, (2 - m) * h * 16 - unit[2] * b>>
        BY DEF SizeOf
  <2> HIDE DEF unit, a, b, w, h, m, x, y
  <2> QED BY <1>2, <2>1
<1>5. Width(f) = 16 * w - cutX /\ Height(f) = 16 * h * (2 - m) - cutY
  <2>1. Width(f) = 16 * w - x * (f.crop[1] + f.crop[2])  BY DEF Width
  <2>2. Height(f) = 16 * h * (2 - m) - y * (f.crop[3] + f.crop[4])  BY DEF Height
  <2> HIDE DEF a, b, w, h, m, x, y
  <2> QED BY <1>3, <2>1, <2>2
<1>6. cutX \in Int /\ cutY \in Int /\ w \in Int /\ h \in Int /\ m \in {0, 1}
  <2> HIDE DEF a, b, x, y
  <2> QED BY <1>1, <1>2, <1>3
<1> HIDE DEF cutX, cutY, w, h, m
<1>7. width = 16 * w - cutX /\ height = 16 * h * (2 - m) - cutY
  <2>1. CASE m = 0  BY <1>6, <2>1
  <2>2. CASE m = 1  BY <1>6, <2>2
  <2> QED BY <1>6, <2>1, <2>2
<1>8. width = Width(f) /\ height = Height(f)  BY <1>5, <1>7
<1> HIDE DEF width, height
<1> QED BY <1>4, <1>8 DEF EncodersSize

LEMMA CropStep == ASSUME SpsInv, ReadCrop PROVE SpsInv'
<1> DEFINE f == fields  es == CropHead(f)  kinds == <<"u1", "u1">>  r == ReadAll(pos, kinds)
           four == <<"ue", "ue", "ue", "ue">>  crop == ReadAll(r.pos, four)
           back == CropsPart(f)  zero == <<0, 0, 0, 0>>
           given == r.values[2]
<1>1. /\ phase = "crop" /\ phase' = "done"
      /\ pos' = (IF given = 1 THEN crop.pos ELSE r.pos)
      /\ dims' = (IF pos' < 0 THEN NoDims
                  ELSE SizeOf(IF given = 1 THEN crop.values ELSE zero))
      /\ fields' = fields /\ whole' = whole /\ bits' = bits /\ values' = values
      BY DEF ReadCrop
<1>2. /\ WellFormed(f) /\ PartsAreBits(f) /\ bits \in BitStrings /\ values \in SizeValues
      /\ pos \in Nat /\ Ahead(pos, CropPart(f)) /\ values.chroma = Chroma(f)
      /\ values.wide = f.wide /\ values.high = f.high /\ values.frameMbs = f.frameMbs
      /\ fields \in Fields
      BY <1>1, WhileReading DEF Reading, Part, AsMeant
<1>3. back \in BitStrings /\ f.rest \in BitStrings  BY <1>2 DEF PartsAreBits
<1>4. HasRead(r, es, 2, back)
  <2> DEFINE n == 2
  <2>1. Writes(es, kinds, n) /\ n \in Nat  BY <1>2, GroupsAre
  <2>2. Ahead(pos, Codes(es) \o back)  BY <1>2 DEF CropPart, CropHead
  <2> HIDE DEF es, kinds, back, n
  <2>3. HasRead(r, es, n, back)  BY <1>2, <1>3, <2>1, <2>2, ReadsHead
  <2> QED BY <2>3 DEF n
<1>5. es[2].value = (IF f.crop = zero THEN 0 ELSE 1)  BY DEF CropHead, U1
<1>6. Writes(CropsHead(f), four, 4)  BY <1>2, GroupsAre
<1>7. ReadAll(-1, four).pos = -1
  <2> DEFINE n == 4
  <2>1. n \in Nat /\ Len(four) = n /\ four \in [1..n -> Kinds]  BY <1>6 DEF Writes
  <2> HIDE DEF n, four
  <2> QED BY <1>2, <2>1, ReadsNothing
<1> HIDE DEF r, es, kinds, four
<1>8. dims' = EncodersSize(f) \/ (dims' = NoDims /\ ~whole)
  <2>1. CASE Threw(r.pos)
    <3>1. pos' = -1 /\ ~whole  BY <1>1, <1>7, <2>1 DEF Threw
    <3> QED BY <1>1, <3>1
  <2>2. CASE r.pos \in Nat /\ Ahead(r.pos, back) /\ given = (IF f.crop = zero THEN 0 ELSE 1)
    <3>1. CASE f.crop = zero
      <4>1. given = 0 /\ pos' = r.pos /\ ~(r.pos < 0)  BY <1>1, <2>2, <3>1
      <4>2. dims' = SizeOf(zero)  BY <1>1, <4>1
      <4>3. \A i \in 1..4 : zero[i] = f.crop[i]  BY <3>1
      <4> HIDE DEF zero
      <4>4. SizeOf(zero) = EncodersSize(f)  BY <1>2, <4>3, SizeIs
      <4> QED BY <4>2, <4>4
    <3>2. CASE f.crop # zero
      <4>1. given = 1 /\ pos' = crop.pos  BY <1>1, <2>2, <3>2
      <4> DEFINE all == CropsHead(f)  n == 4  p == r.pos  rest == f.rest  vs == crop.values
      <4>2. Ahead(p, Codes(all) \o rest) /\ p \in Nat /\ n \in Nat
            BY <2>2, <3>2 DEF CropsPart, CropsHead
      <4>3. Writes(all, four, n)  BY <1>6
      <4> HIDE DEF all, p, rest, n
      <4>4. HasRead(ReadAll(p, four), all, n, rest)
            BY <1>2, <1>3, <4>2, <4>3, ReadsHead DEF rest
      <4>5. HasRead(crop, all, n, rest)  BY <4>4 DEF p
      <4> HIDE DEF crop
      <4>6. CASE Threw(crop.pos)
        <5>1. pos' = -1 /\ ~whole  BY <4>1, <4>6 DEF Threw
        <5> QED BY <1>1, <5>1
      <4>7. CASE crop.pos \in Nat /\ \A i \in 1..n : vs[i] = all[i].value
        <5>1. dims' = SizeOf(vs)  BY <1>1, <4>1, <4>7
        <5>2. ASSUME NEW i \in 1..4 PROVE vs[i] = f.crop[i]
          <6>1. all[i].value = f.crop[i]  BY DEF all, CropsHead, UE
          <6>2. vs[i] = all[i].value  BY <4>7 DEF n
          <6> QED BY <6>1, <6>2
        <5> HIDE DEF vs
        <5>3. SizeOf(vs) = EncodersSize(f)  BY <1>2, <5>2, SizeIs
        <5> QED BY <5>1, <5>3
      <4> QED BY <4>5, <4>6, <4>7 DEF HasRead
    <3> QED BY <3>1, <3>2
  <2> QED BY <1>4, <1>5, <2>1, <2>2 DEF HasRead
<1>9. SizeIsEncoders'
  <2>1. Width(fields)' = Width(f) /\ Height(fields)' = Height(f)  BY <1>1
  <2> QED BY <1>1, <1>8, <2>1 DEF SizeIsEncoders, EncodersSize
<1> QED BY <1>1, <1>2, <1>9 DEF SpsInv, SizeValues, Reading

-----------------------------------------------------------------------------
(* The bytes of a parameter set are back behind the parser's strip.        *)

ByteStrings == Seq(0..255)

ZerosOf(zeros, bytes, n) ==
    /\ \A k \in 0..n : zeros[k] \in 0..2
    /\ zeros[0] = 0
    /\ \A k \in 1..n : zeros[k] = IF bytes[k] # 0 THEN 0
                                  ELSE IF zeros[k - 1] = 2 THEN 1 ELSE zeros[k - 1] + 1

LEMMA ZerosUnfold ==
    ASSUME NEW bytes \in ByteStrings, NEW N \in Nat, Len(bytes) = N
    PROVE  ZerosOf(Zeros(bytes), bytes, N)
<1> DEFINE Def(h, k) == IF k = 0 THEN 0 ELSE IF bytes[k] # 0 THEN 0
                        ELSE IF h[k - 1] = 2 THEN 1 ELSE h[k - 1] + 1
           V == 0..2  first == 0
           step == [k \in 1..N |-> [x \in V |-> IF bytes[k] # 0 THEN 0
                                                ELSE IF x = 2 THEN 1 ELSE x + 1]]
<1>1. first \in V  OBVIOUS
<1>2. step \in [1..N -> [V -> V]]  OBVIOUS
<1>3. PICK f \in [0..N -> V] : f[0] = first /\ \A k \in 1..N : f[k] = step[k][f[k - 1]]
  <2> HIDE DEF V, first, step
  <2> DEFINE n == N
  <2>1. n \in Nat /\ first \in V /\ step \in [1..n -> [V -> V]]  BY <1>1, <1>2
  <2> HIDE DEF n
  <2>2. \E f \in [0..n -> V] : f[0] = first /\ \A k \in 1..n : f[k] = step[k][f[k - 1]]
        BY ONLY <2>1, Recursion, SMT
  <2> QED BY <2>2 DEF n
<1>5. f = [k \in 0..N |-> Def(f, k)]
  <2>1. ASSUME NEW k \in 0..N PROVE f[k] = Def(f, k)
    <3>1. CASE k = 0  BY <1>3, <3>1
    <3>2. CASE k # 0
      <4>1. k \in 1..N /\ f[k - 1] \in V  BY <3>2
      <4> QED BY <1>3, <3>2, <4>1
    <3> QED BY <3>1, <3>2
  <2> HIDE DEF Def, V
  <2> QED BY <1>3, <2>1
<1> DEFINE g == CHOOSE h : h = [k \in 0..N |-> Def(h, k)]
<1>6. g = [k \in 0..N |-> Def(g, k)]
  <2> HIDE DEF Def
  <2> QED BY <1>5
<1>7. Zeros(bytes) = g  BY Zenon DEF Zeros
<1> HIDE DEF g
<1>8. g[0] = 0  BY <1>6
<1>9. ASSUME NEW k \in 1..N PROVE g[k] = Def(g, k)
  <2>1. k \in 0..N  OBVIOUS
  <2> HIDE DEF Def
  <2> QED BY <1>6, <2>1
<1>10. \A k \in 0..N : g[k] \in V
  <2>1. \A k \in 1..N : g[k - 1] \in V => g[k] = step[k][g[k - 1]]  BY <1>9
  <2>2. g[0] \in V  BY <1>8
  <2> HIDE DEF V
  <2> HIDE DEF step
  <2> QED BY <1>2, <2>1, <2>2, StaysIn, Zenon
<1>11. ZerosOf(g, bytes, N)  BY <1>8, <1>9, <1>10 DEF ZerosOf
<1> QED BY <1>7, <1>11

StripStates == [out : ByteStrings, zeroRun : Nat]

AfterByte(s, b) ==
    IF s.zeroRun >= 2 /\ b = 3 THEN [out |-> s.out, zeroRun |-> 0]
    ELSE [out |-> Append(s.out, b), zeroRun |-> IF b = 0 THEN s.zeroRun + 1 ELSE 0]

Strips(strip, nalu, n) ==
    /\ StripEmulationPrevention(nalu) = strip[n].out
    /\ strip[0] = [out |-> <<>>, zeroRun |-> 0]
    /\ \A k \in 1..n : strip[k] = AfterByte(strip[k - 1], nalu[k + 1])

LEMMA AfterByteType ==
    ASSUME NEW s \in StripStates, NEW b \in 0..255
    PROVE  AfterByte(s, b) \in StripStates
<1> DEFINE S == 0..255
<1>1. s.out \in Seq(S) /\ s.zeroRun \in Nat /\ b \in S  BY DEF StripStates, ByteStrings
<1> HIDE DEF S
<1>2. Append(s.out, b) \in Seq(S)  BY <1>1, AppendProperties
<1>3. Append(s.out, b) \in ByteStrings /\ s.out \in ByteStrings  BY <1>1, <1>2 DEF S, ByteStrings
<1> HIDE DEF S
<1> DEFINE all == Append(s.out, b)
<1> HIDE DEF all
<1> QED BY <1>1, <1>3 DEF StripStates, AfterByte, all

LEMMA StripUnfolds ==
    ASSUME NEW nalu \in ByteStrings, NEW N \in Nat, Len(nalu) = N + 1
    PROVE  \E strip \in [0..N -> StripStates] : Strips(strip, nalu, N)
<1> DEFINE Def(h, k) ==
               IF k = 0 THEN [out |-> <<>>, zeroRun |-> 0]
               ELSE LET s == h[k - 1]
                        b == nalu[k + 1]
                    IN IF s.zeroRun >= 2 /\ b = 3 THEN [s EXCEPT !.zeroRun = 0]
                       ELSE [out |-> Append(s.out, b),
                             zeroRun |-> IF b = 0 THEN s.zeroRun + 1 ELSE 0]
           V == StripStates  first == [out |-> <<>>, zeroRun |-> 0]
           step == [k \in 1..N |-> [x \in V |-> AfterByte(x, nalu[k + 1])]]
<1>1. first \in V
  <2>1. <<>> \in ByteStrings  BY DEF ByteStrings
  <2> QED BY <2>1 DEF StripStates
<1>0. \A k \in 1..N : nalu[k + 1] \in 0..255
  <2>1. \A k \in 1..N : k + 1 \in 1..Len(nalu)  OBVIOUS
  <2> DEFINE S == 0..255
  <2>2. nalu \in Seq(S)  BY DEF ByteStrings
  <2> HIDE DEF S
  <2>3. \A i \in 1..Len(nalu) : nalu[i] \in S  BY <2>2, ElementOfSeq
  <2> QED BY <2>1, <2>3 DEF S
<1>2. step \in [1..N -> [V -> V]]
  <2>1. \A k \in 1..N : \A x \in V : AfterByte(x, nalu[k + 1]) \in V  BY <1>0, AfterByteType
  <2> HIDE DEF V
  <2> QED BY <2>1
<1>4. ASSUME NEW h, NEW k \in 1..N, h[k - 1] \in V
      PROVE  Def(h, k) = AfterByte(h[k - 1], nalu[k + 1])
  <2> DEFINE s == h[k - 1]
  <2>1. s = [out |-> s.out, zeroRun |-> s.zeroRun]  BY <1>4 DEF StripStates
  <2> HIDE DEF s
  <2>2. [s EXCEPT !.zeroRun = 0] = [out |-> s.out, zeroRun |-> 0]  BY <2>1
  <2>3. k # 0  OBVIOUS
  <2> QED BY <2>2, <2>3 DEF s, AfterByte
<1>3. PICK f \in [0..N -> V] : f[0] = first /\ \A k \in 1..N : f[k] = step[k][f[k - 1]]
  <2> HIDE DEF V, first, step
  <2> DEFINE n == N
  <2>1. n \in Nat /\ first \in V /\ step \in [1..n -> [V -> V]]  BY <1>1, <1>2
  <2> HIDE DEF n
  <2>2. \E f \in [0..n -> V] : f[0] = first /\ \A k \in 1..n : f[k] = step[k][f[k - 1]]
        BY ONLY <2>1, Recursion, SMT
  <2> QED BY <2>2 DEF n
<1>5. f = [k \in 0..N |-> Def(f, k)]
  <2>1. ASSUME NEW k \in 0..N PROVE f[k] = Def(f, k)
    <3>1. CASE k = 0  BY <1>3, <3>1
    <3>2. CASE k # 0
      <4>1. k \in 1..N /\ k - 1 \in 0..N  BY <3>2
      <4> HIDE DEF V, Def
      <4>2. f[k - 1] \in V /\ f[k] = step[k][f[k - 1]]  BY <1>3, <4>1
      <4>3. Def(f, k) = AfterByte(f[k - 1], nalu[k + 1])  BY <1>4, <4>1, <4>2
      <4> QED BY <4>1, <4>2, <4>3
    <3> QED BY <3>1, <3>2
  <2> HIDE DEF Def, V
  <2> QED BY <1>3, <2>1
<1> DEFINE g == CHOOSE h : h = [k \in 0..N |-> Def(h, k)]
<1>6. g = [k \in 0..N |-> Def(g, k)]
  <2> HIDE DEF Def
  <2> QED BY <1>5
<1>7. StripEmulationPrevention(nalu) = g[N].out
  <2> DEFINE n == Len(nalu) - 1
             G == CHOOSE h : h = [k \in 0..n |-> Def(h, k)]
  <2>1. StripEmulationPrevention(nalu) = G[n].out  BY Zenon DEF StripEmulationPrevention
  <2>2. n = N  OBVIOUS
  <2>3. G = g  BY <2>2, Zenon
  <2> HIDE DEF n, G, g
  <2> QED BY <2>1, <2>2, <2>3
<1> HIDE DEF g
<1>8. g[0] = first  BY <1>6
<1>9. ASSUME NEW k \in 1..N PROVE g[k] = Def(g, k)
  <2>1. k \in 0..N  OBVIOUS
  <2> HIDE DEF Def
  <2> QED BY <1>6, <2>1
<1> HIDE DEF Def
<1>10. \A k \in 0..N : g[k] \in V
  <2> HIDE DEF V
  <2>1. \A k \in 1..N : g[k - 1] \in V => g[k] = step[k][g[k - 1]]  BY <1>4, <1>9
  <2>2. g[0] \in V  BY <1>1, <1>8
  <2> HIDE DEF step
  <2> QED BY <1>2, <2>1, <2>2, StaysIn, Zenon
<1>11. ASSUME NEW k \in 1..N PROVE g[k] = AfterByte(g[k - 1], nalu[k + 1])
  <2>1. k - 1 \in 0..N  OBVIOUS
  <2> HIDE DEF V
  <2> QED BY <1>4, <1>9, <1>10, <2>1
<1>12. g \in [0..N -> V]
  <2> HIDE DEF V
  <2> QED BY <1>6, <1>10
<1>13. Strips(g, nalu, N)  BY <1>7, <1>8, <1>11 DEF Strips
<1> QED BY <1>12, <1>13

PieceOf(bytes, k) ==
    IF Zeros(bytes)[k - 1] = 2 /\ bytes[k] <= 3 THEN <<3, bytes[k]>> ELSE <<bytes[k]>>

\* What the protection puts for each byte.
Pieces(bytes, n) == [k \in 1..n |-> PieceOf(bytes, k)]

LEMMA PiecesType ==
    ASSUME NEW bytes \in ByteStrings, NEW N \in Nat, Len(bytes) = N
    PROVE  /\ Pieces(bytes, N) \in [1..N -> ByteStrings] /\ Len(Pieces(bytes, N)) = N
           /\ Protected(bytes) = Concat(Pieces(bytes, N))
           /\ \A k \in 1..N : bytes[k] \in 0..255
<1> DEFINE S == 0..255
<1>1. bytes \in Seq(S)  BY DEF ByteStrings
<1>2. 3 \in S  OBVIOUS
<1> HIDE DEF S
<1>3. \A k \in 1..N : bytes[k] \in S  BY <1>1, ElementOfSeq
<1>4. ASSUME NEW k \in 1..N PROVE PieceOf(bytes, k) \in Seq(S)
  <2>1. bytes[k] \in S  BY <1>3
  <2> DEFINE b == bytes[k]
  <2>2. <<b>> \in Seq(S) /\ <<3, b>> \in Seq(S)
    <3> HIDE DEF b
    <3> QED BY <1>2, <2>1 DEF b
  <2> QED BY <2>2 DEF PieceOf
<1>5. Pieces(bytes, N) \in [1..N -> Seq(S)]  BY <1>4 DEF Pieces
<1>6. Len(Pieces(bytes, N)) = N  BY DEF Pieces
<1>7. DOMAIN bytes = 1..N  BY <1>1, LenProperties
<1>8. Protected(bytes) = Concat(Pieces(bytes, N))
      BY <1>7, Zenon DEF Protected, Pieces, PieceOf
<1> QED BY <1>3, <1>5, <1>6, <1>8 DEF S, ByteStrings

\* Where the strip is after i bytes: k bytes are back.
Tracks(s, bytes, ends, i, k) ==
    /\ Len(s.out) = k /\ \A j \in 1..k : s.out[j] = bytes[j]
    /\ \/ i = ends[k] /\ s.zeroRun = Zeros(bytes)[k]
       \/ /\ k + 1 \in 1..Len(bytes) /\ i = ends[k] + 1 /\ s.zeroRun = 0
          /\ Zeros(bytes)[k] = 2 /\ bytes[k + 1] <= 3

Back(out, bytes, k) == Len(out) = k /\ \A j \in 1..k : out[j] = bytes[j]

LEMMA BackWith ==
    ASSUME NEW out \in ByteStrings, NEW bytes, NEW k \in Nat, Back(out, bytes, k),
           bytes[k + 1] \in 0..255
    PROVE  Back(Append(out, bytes[k + 1]), bytes, k + 1)
<1> DEFINE S == 0..255  b == bytes[k + 1]  all == Append(out, b)
<1>1. out \in Seq(S) /\ b \in S  BY DEF ByteStrings
<1>2. Len(out) = k /\ \A j \in 1..k : out[j] = bytes[j]  BY DEF Back
<1> HIDE DEF S
<1>3. Len(all) = k + 1 /\ all[k + 1] = b /\ \A j \in 1..k : all[j] = out[j]
  <2> HIDE DEF b
  <2> QED BY <1>1, <1>2, Appended
<1> HIDE DEF all
<1>4. \A j \in 1..(k + 1) : all[j] = bytes[j]  BY <1>2, <1>3 DEF b
<1> QED BY <1>3, <1>4 DEF Back, all

\* The byte that comes next, and what has been put for it.
NextPiece(bytes, ends, n, k) ==
    /\ Zeros(bytes)[k - 1] = 2 /\ bytes[k] <= 3 =>
           /\ ends[k] = ends[k - 1] + 2
           /\ Protected(bytes)[ends[k - 1] + 1] = 3
           /\ Protected(bytes)[ends[k - 1] + 2] = bytes[k]
    /\ ~(Zeros(bytes)[k - 1] = 2 /\ bytes[k] <= 3) =>
           /\ ends[k] = ends[k - 1] + 1
           /\ Protected(bytes)[ends[k - 1] + 1] = bytes[k]
    /\ ends[k] <= ends[n] /\ ends[n] = Len(Protected(bytes))

LEMMA NextIs ==
    ASSUME NEW bytes \in ByteStrings, NEW N \in Nat, Len(bytes) = N,
           NEW ends \in [0..N -> Nat], Lie(ends, Pieces(bytes, N), N), NEW k \in 1..N
    PROVE  NextPiece(bytes, ends, N, k)
<1> DEFINE pieces == Pieces(bytes, N)  piece == pieces[k]  P == Protected(bytes)
<1>1. P = Concat(pieces)  BY PiecesType
<1>2. piece = PieceOf(bytes, k)  BY DEF Pieces
<1>3. /\ ends[N] = Len(Concat(pieces))
      /\ ends[k] = ends[k - 1] + Len(piece) /\ ends[k] <= ends[N]
      /\ \A j \in 1..Len(piece) : Concat(pieces)[ends[k - 1] + j] = piece[j]
      BY DEF Lie
<1> DEFINE escaped == Zeros(bytes)[k - 1] = 2 /\ bytes[k] <= 3  b == bytes[k]
<1>4. piece = IF escaped THEN <<3, b>> ELSE <<b>>  BY <1>2 DEF PieceOf
<1> HIDE DEF pieces, piece, P, escaped, b
<1>5. CASE escaped
  <2>1. Len(piece) = 2 /\ piece[1] = 3 /\ piece[2] = b  BY <1>4, <1>5
  <2>2. P[ends[k - 1] + 1] = 3 /\ P[ends[k - 1] + 2] = b  BY <1>1, <1>3, <2>1
  <2> QED BY <1>1, <1>3, <1>5, <2>1, <2>2 DEF escaped, b, P, NextPiece
<1>6. CASE ~escaped
  <2>1. Len(piece) = 1 /\ piece[1] = b  BY <1>4, <1>6
  <2>2. P[ends[k - 1] + 1] = b  BY <1>1, <1>3, <2>1
  <2> QED BY <1>1, <1>3, <1>6, <2>1, <2>2 DEF escaped, b, P, NextPiece
<1> QED BY <1>5, <1>6

LEMMA TracksOn ==
    ASSUME NEW bytes \in ByteStrings, NEW N \in Nat, Len(bytes) = N,
           NEW ends \in [0..N -> Nat], Lie(ends, Pieces(bytes, N), N),
           NEW s \in StripStates, NEW i \in Nat, NEW k \in 0..N, Tracks(s, bytes, ends, i, k),
           i + 1 \in 1..Len(Protected(bytes))
    PROVE  LET next == AfterByte(s, Protected(bytes)[i + 1])
           IN \/ Tracks(next, bytes, ends, i + 1, k)
              \/ k + 1 \in 0..N /\ Tracks(next, bytes, ends, i + 1, k + 1)
<1> DEFINE P == Protected(bytes)  z == Zeros(bytes)  b == bytes[k + 1]  out == s.out
           next == AfterByte(s, P[i + 1])
<1>1. ends[0] = 0 /\ ends[N] = Len(P)
      /\ \A j \in 1..N : ends[j] <= ends[N]
  <2>1. P = Concat(Pieces(bytes, N))  BY PiecesType
  <2> QED BY <2>1 DEF Lie
<1>2. Back(out, bytes, k) /\ out \in ByteStrings /\ s.zeroRun \in Nat
      BY DEF Tracks, Back, StripStates
<1>3. k + 1 \in 1..N
  <2> SUFFICES ASSUME k = N PROVE FALSE
      OBVIOUS
  <2>1. ~(k + 1 \in 1..Len(bytes))  OBVIOUS
  <2>2. i = ends[N]  BY <2>1 DEF Tracks
  <2> HIDE DEF P
  <2> QED BY <1>1, <2>2 DEF P
<1>4. b \in 0..255  BY <1>3, PiecesType
<1> DEFINE m == k + 1
<1>5. z[m] = (IF b # 0 THEN 0 ELSE IF z[k] = 2 THEN 1 ELSE z[k] + 1) /\ z[k] \in 0..2
  <2>1. ZerosOf(z, bytes, N)  BY ZerosUnfold
  <2>2. m \in 1..N /\ m - 1 = k  BY <1>3
  <2> HIDE DEF z, m
  <2>3. z[k] \in 0..2 /\ z[m] = IF bytes[m] # 0 THEN 0
                                ELSE IF z[m - 1] = 2 THEN 1 ELSE z[m - 1] + 1
        BY <2>1, <2>2 DEF ZerosOf
  <2> QED BY <2>2, <2>3 DEF m
<1>6. /\ z[k] = 2 /\ b <= 3 => ends[m] = ends[k] + 2 /\ P[ends[k] + 1] = 3 /\ P[ends[k] + 2] = b
      /\ ~(z[k] = 2 /\ b <= 3) => ends[m] = ends[k] + 1 /\ P[ends[k] + 1] = b
  <2>1. m \in 1..N /\ m - 1 = k  BY <1>3
  <2> HIDE DEF m
  <2>2. /\ z[m - 1] = 2 /\ bytes[m] <= 3 =>
              ends[m] = ends[m - 1] + 2 /\ P[ends[m - 1] + 1] = 3 /\ P[ends[m - 1] + 2] = bytes[m]
        /\ ~(z[m - 1] = 2 /\ bytes[m] <= 3) =>
              ends[m] = ends[m - 1] + 1 /\ P[ends[m - 1] + 1] = bytes[m]
    <3>1. NextPiece(bytes, ends, N, m)  BY <2>1, NextIs
    <3> QED BY <3>1 DEF NextPiece
  <2>3. b = bytes[m]  BY DEF m
  <2> HIDE DEF P, z, b
  <2> QED BY <2>1, <2>2, <2>3
<1>7. Back(Append(out, b), bytes, m)
  <2>1. k \in Nat  OBVIOUS
  <2> QED BY <1>2, <1>4, <2>1, BackWith, Zenon
<1>8. ends[k] \in Nat /\ m \in 0..N  BY <1>3
<1>9. /\ Len(out) = k /\ \A j \in 1..k : out[j] = bytes[j]
      /\ \/ i = ends[k] /\ s.zeroRun = z[k]
         \/ i = ends[k] + 1 /\ s.zeroRun = 0 /\ z[k] = 2 /\ b <= 3
      BY DEF Tracks
<1> DEFINE more == Append(out, b)
<1>10. Len(more) = m /\ \A j \in 1..m : more[j] = bytes[j]  BY <1>7 DEF Back
<1> DEFINE run == IF b = 0 THEN s.zeroRun + 1 ELSE 0
           p == P[i + 1]
<1>11. next = IF s.zeroRun >= 2 /\ p = 3 THEN [out |-> out, zeroRun |-> 0]
              ELSE [out |-> Append(out, p), zeroRun |-> IF p = 0 THEN s.zeroRun + 1 ELSE 0]
      BY DEF AfterByte
<1>12. b = bytes[k + 1] /\ Len(bytes) = N  OBVIOUS
<1> HIDE DEF P, b, out, z, next, more, run, p
<1>13. CASE i = ends[k] + 1 /\ s.zeroRun = 0 /\ z[k] = 2 /\ b <= 3
  <2>1. p = b /\ i + 1 = ends[m]
    <3>1. i + 1 = ends[k] + 2  BY <1>8, <1>13
    <3> QED BY <1>6, <1>13, <3>1 DEF p
  <2>2. next = [out |-> more, zeroRun |-> z[m]]
    <3>1. next = [out |-> more, zeroRun |-> IF b = 0 THEN s.zeroRun + 1 ELSE 0]
          BY <1>11, <1>13, <2>1 DEF more
    <3>2. z[m] = IF b = 0 THEN s.zeroRun + 1 ELSE 0  BY <1>5, <1>13
    <3> QED BY <3>1, <3>2
  <2>3. Tracks(next, bytes, ends, i + 1, m)  BY <1>10, <2>1, <2>2 DEF Tracks, z
  <2> QED BY <1>8, <2>3 DEF next, p, P
<1>14. CASE i = ends[k] /\ s.zeroRun = z[k] /\ z[k] = 2 /\ b <= 3
  <2>1. p = 3  BY <1>6, <1>14 DEF p
  <2>2. next = [out |-> out, zeroRun |-> 0]  BY <1>11, <1>14, <2>1
  <2>3. Tracks(next, bytes, ends, i + 1, k)
        BY <1>3, <1>9, <1>12, <1>14, <2>2 DEF Tracks, z
  <2> QED BY <2>3 DEF next, p, P
<1>15. CASE i = ends[k] /\ s.zeroRun = z[k] /\ ~(z[k] = 2 /\ b <= 3)
  <2>1. p = b /\ i + 1 = ends[m]  BY <1>6, <1>15 DEF p
  <2>2. ~(s.zeroRun >= 2 /\ p = 3)  BY <1>5, <1>15, <2>1
  <2>3. next = [out |-> more, zeroRun |-> z[m]]
    <3>1. next = [out |-> more, zeroRun |-> IF b = 0 THEN s.zeroRun + 1 ELSE 0]
          BY <1>11, <2>1, <2>2 DEF more
    <3>2. z[m] = IF b = 0 THEN s.zeroRun + 1 ELSE 0  BY <1>4, <1>5, <1>15
    <3> QED BY <3>1, <3>2
  <2>4. Tracks(next, bytes, ends, i + 1, m)  BY <1>10, <2>1, <2>3 DEF Tracks, z
  <2> QED BY <1>8, <2>4 DEF next, p, P
<1> QED BY <1>9, <1>13, <1>14, <1>15

\* Of the first n bytes behind the header, what comes out is the first k bytes
\* that were protected; and all of them when nothing is missing.
LEMMA StripIsBack ==
    ASSUME NEW bytes \in ByteStrings, NEW N \in Nat, Len(bytes) = N,
           NEW nalu \in ByteStrings, NEW n \in Nat, Len(nalu) = n + 1,
           n <= Len(Protected(bytes)),
           \A i \in 1..n : nalu[i + 1] = Protected(bytes)[i]
    PROVE  /\ StripEmulationPrevention(nalu) \in ByteStrings
           /\ \E k \in 0..N : /\ Back(StripEmulationPrevention(nalu), bytes, k)
                              /\ n = Len(Protected(bytes)) => k = N
<1> DEFINE pieces == Pieces(bytes, N)  P == Protected(bytes)  S == 0..255
<1>1. pieces \in [1..N -> Seq(S)] /\ Len(pieces) = N /\ P = Concat(pieces)
      BY PiecesType DEF ByteStrings
<1>2. PICK ends \in [0..N -> Nat] : Lie(ends, pieces, N)
  <2> HIDE DEF S, pieces
  <2> QED BY <1>1, PiecesLie, Zenon
<1>3. PICK strip \in [0..n -> StripStates] : Strips(strip, nalu, n)  BY StripUnfolds, Zenon
<1>4. /\ StripEmulationPrevention(nalu) = strip[n].out
      /\ strip[0] = [out |-> <<>>, zeroRun |-> 0]
      /\ \A i \in 1..n : strip[i] = AfterByte(strip[i - 1], nalu[i + 1])
      BY <1>3 DEF Strips
<1>5. ends[0] = 0 /\ ends[N] = Len(P)  BY <1>1, <1>2 DEF Lie
<1>6. Zeros(bytes)[0] = 0  BY ZerosUnfold DEF ZerosOf
<1> DEFINE On(i) == \E k \in 0..N : Tracks(strip[i], bytes, ends, i, k)
           T == {i \in 0..n : On(i)}
<1> HIDE DEF S, pieces, P
<1>7. 0 \in T
  <2>1. Tracks(strip[0], bytes, ends, 0, 0)
    <3>1. Len(<<>>) = 0  OBVIOUS
    <3> QED BY <1>4, <1>5, <1>6, <3>1 DEF Tracks
  <2> HIDE DEF Tracks
  <2> QED BY <2>1
<1>8. ASSUME NEW i \in 1..n, i - 1 \in T PROVE i \in T
  <2> DEFINE j == i - 1  s == strip[j]
  <2>1. PICK k \in 0..N : Tracks(s, bytes, ends, j, k)  BY <1>8
  <2>2. j \in Nat /\ j \in 0..n /\ j + 1 = i  OBVIOUS
  <2>3. s \in StripStates  BY <1>3, <2>2
  <2>5. strip[i] = AfterByte(s, P[i])  BY <1>4 DEF P
  <2>6. Len(P) \in Nat
    <3>1. N \in 0..N  OBVIOUS
    <3> QED BY <1>5, <3>1
  <2>4. j + 1 \in 1..Len(P)  BY <2>2, <2>6 DEF P
  <2> HIDE DEF j, s
  <2>7. \/ Tracks(AfterByte(s, P[j + 1]), bytes, ends, j + 1, k)
        \/ k + 1 \in 0..N /\ Tracks(AfterByte(s, P[j + 1]), bytes, ends, j + 1, k + 1)
    <3> HIDE DEF Tracks
    <3> QED BY <1>2, <2>1, <2>2, <2>3, <2>4, TracksOn DEF P, pieces
  <2>8. AfterByte(s, P[j + 1]) = strip[i]  BY <2>2, <2>5
  <2>9. \/ Tracks(strip[i], bytes, ends, i, k)
        \/ k + 1 \in 0..N /\ Tracks(strip[i], bytes, ends, i, k + 1)
        BY <2>2, <2>7, <2>8
  <2>10. On(i)  BY <2>9
  <2>11. i \in 0..n  OBVIOUS
  <2> HIDE DEF On
  <2> QED BY <2>10, <2>11
<1>9. n \in T
  <2> HIDE DEF T
  <2>1. \A k \in 0..n : k \in T  BY <1>7, <1>8, BoundedInduction, Zenon
  <2> QED BY <2>1
<1>10. PICK k \in 0..N : Tracks(strip[n], bytes, ends, n, k)  BY <1>9
<1>11. strip[n].out \in ByteStrings
  <2>1. strip[n] \in StripStates  BY <1>3
  <2> QED BY <2>1 DEF StripStates
<1>12. Back(strip[n].out, bytes, k)  BY <1>10 DEF Tracks, Back
<1>13. ASSUME n = Len(P), k # N PROVE FALSE
  <2> DEFINE m == k + 1
  <2>1. m \in 1..N /\ m - 1 = k  BY <1>13
  <2> HIDE DEF m
  <2>2. /\ Zeros(bytes)[m - 1] = 2 /\ bytes[m] <= 3 => ends[m] = ends[m - 1] + 2
        /\ ~(Zeros(bytes)[m - 1] = 2 /\ bytes[m] <= 3) => ends[m] = ends[m - 1] + 1
        /\ ends[m] <= ends[N]
    <3>1. NextPiece(bytes, ends, N, m)  BY <1>2, <2>1, NextIs DEF pieces
    <3> QED BY <3>1 DEF NextPiece
  <2>3. \/ n = ends[k]
        \/ n = ends[k] + 1 /\ Zeros(bytes)[k] = 2 /\ bytes[m] <= 3
        BY <1>10 DEF Tracks, m
  <2>4. ends[k] \in Nat /\ ends[m] \in Nat /\ n = ends[N]  BY <1>5, <1>13, <2>1
  <2> DEFINE z == Zeros(bytes)[k]  b == bytes[m]
  <2>5. /\ z = 2 /\ b <= 3 => ends[m] = ends[k] + 2
        /\ ~(z = 2 /\ b <= 3) => ends[m] = ends[k] + 1
        /\ ends[m] <= n
        /\ n = ends[k] \/ (n = ends[k] + 1 /\ z = 2 /\ b <= 3)
        BY <2>1, <2>2, <2>3, <2>4
  <2> HIDE DEF z, b
  <2> QED BY <2>4, <2>5
<1> QED BY <1>4, <1>11, <1>12, <1>13 DEF P

-----------------------------------------------------------------------------
(* The bits of the bytes of a code are the code again.                     *)

LowIs(v, h, b) == v \in Nat /\ v \div 2 = h /\ v % 2 = b

LEMMA LowDigit ==
    ASSUME NEW h \in Nat, NEW b \in {0, 1}, NEW v, v = 2 * h + b
    PROVE  LowIs(v, h, b)
<1>1. CASE b = 0  BY <1>1 DEF LowIs
<1>2. CASE b = 1  BY <1>2 DEF LowIs
<1> QED BY <1>1, <1>2

ByteOf(b) == 128 * b[1] + 64 * b[2] + 32 * b[3] + 16 * b[4]
             + 8 * b[5] + 4 * b[6] + 2 * b[7] + b[8]

DigitsAre(v, b) == \A r \in 0..7 : Half(v)[7 - r] % 2 = b[r + 1]

LEMMA ByteDigits ==
    ASSUME NEW b \in [1..8 -> {0, 1}]
    PROVE  ByteOf(b) \in 0..255 /\ DigitsAre(ByteOf(b), b)
<1> DEFINE x1 == b[1]  x2 == 2 * x1 + b[2]  x3 == 2 * x2 + b[3]  x4 == 2 * x3 + b[4]
           x5 == 2 * x4 + b[5]  x6 == 2 * x5 + b[6]  x7 == 2 * x6 + b[7]  x8 == 2 * x7 + b[8]
           b1 == b[1]  b2 == b[2]  b3 == b[3]  b4 == b[4]
           b5 == b[5]  b6 == b[6]  b7 == b[7]  b8 == b[8]  S == {0, 1}
<1>1. /\ b1 \in S /\ b2 \in S /\ b3 \in S /\ b4 \in S
      /\ b5 \in S /\ b6 \in S /\ b7 \in S /\ b8 \in S
      OBVIOUS
<1> DEFINE v == 128 * b1 + 64 * b2 + 32 * b3 + 16 * b4 + 8 * b5 + 4 * b6 + 2 * b7 + b8
<1>0. v = ByteOf(b)  BY DEF ByteOf
<1>2. v = x8 /\ v \in 0..255
  <2> HIDE DEF b1, b2, b3, b4, b5, b6, b7, b8
  <2>1. v \in 0..255  BY <1>1
  <2>2. x8 = 128 * b1 + 64 * b2 + 32 * b3 + 16 * b4 + 8 * b5 + 4 * b6 + 2 * b7 + b8
        BY <1>1 DEF b1, b2, b3, b4, b5, b6, b7, b8
  <2> QED BY <2>1, <2>2
<1>3. x1 = b1 /\ x2 = 2 * x1 + b2 /\ x3 = 2 * x2 + b3 /\ x4 = 2 * x3 + b4
      /\ x5 = 2 * x4 + b5 /\ x6 = 2 * x5 + b6 /\ x7 = 2 * x6 + b7 /\ x8 = 2 * x7 + b8
      OBVIOUS
<1> HIDE DEF x1, x2, x3, x4, x5, x6, x7, x8, S
<1>4. x1 \in Nat /\ x1 % 2 = b1
  <2>1. x1 = b1 /\ b1 \in {0, 1}  BY <1>1, <1>3 DEF S
  <2> HIDE DEF b1
  <2>2. CASE b1 = 0  BY <2>1, <2>2
  <2>3. CASE b1 = 1  BY <2>1, <2>3
  <2> QED BY <2>1, <2>2, <2>3
<1>5. x2 \in Nat /\ x2 \div 2 = x1 /\ x2 % 2 = b2
  <2>1. LowIs(x2, x1, b2)  BY <1>1, <1>3, <1>4, LowDigit, Zenon DEF S
  <2> QED BY <2>1 DEF LowIs
<1>6. x3 \in Nat /\ x3 \div 2 = x2 /\ x3 % 2 = b3
  <2>1. LowIs(x3, x2, b3)  BY <1>1, <1>3, <1>5, LowDigit, Zenon DEF S
  <2> QED BY <2>1 DEF LowIs
<1>7. x4 \in Nat /\ x4 \div 2 = x3 /\ x4 % 2 = b4
  <2>1. LowIs(x4, x3, b4)  BY <1>1, <1>3, <1>6, LowDigit, Zenon DEF S
  <2> QED BY <2>1 DEF LowIs
<1>8. x5 \in Nat /\ x5 \div 2 = x4 /\ x5 % 2 = b5
  <2>1. LowIs(x5, x4, b5)  BY <1>1, <1>3, <1>7, LowDigit, Zenon DEF S
  <2> QED BY <2>1 DEF LowIs
<1>9. x6 \in Nat /\ x6 \div 2 = x5 /\ x6 % 2 = b6
  <2>1. LowIs(x6, x5, b6)  BY <1>1, <1>3, <1>8, LowDigit, Zenon DEF S
  <2> QED BY <2>1 DEF LowIs
<1>10. x7 \in Nat /\ x7 \div 2 = x6 /\ x7 % 2 = b7
  <2>1. LowIs(x7, x6, b7)  BY <1>1, <1>3, <1>9, LowDigit, Zenon DEF S
  <2> QED BY <2>1 DEF LowIs
<1>11. x8 \in Nat /\ x8 \div 2 = x7 /\ x8 % 2 = b8
  <2>1. LowIs(x8, x7, b8)  BY <1>1, <1>3, <1>10, LowDigit, Zenon DEF S
  <2> QED BY <2>1 DEF LowIs
<1> HIDE DEF b1, b2, b3, b4, b5, b6, b7, b8
<1> DEFINE h(k) == Half(v)[k]
<1>12. v \in Nat  BY <1>2
<1> HIDE DEF v
<1>13. h(0) = v /\ \A k \in 1..32 : h(k) = h(k - 1) \div 2  BY <1>12, HalfUnfolds
<1> HIDE DEF h
<1>14. /\ h(0) = v /\ h(1) = h(0) \div 2 /\ h(2) = h(1) \div 2 /\ h(3) = h(2) \div 2
       /\ h(4) = h(3) \div 2 /\ h(5) = h(4) \div 2 /\ h(6) = h(5) \div 2 /\ h(7) = h(6) \div 2
       BY <1>13
<1>15. /\ h(0) = x8 /\ h(1) = x7 /\ h(2) = x6 /\ h(3) = x5
       /\ h(4) = x4 /\ h(5) = x3 /\ h(6) = x2 /\ h(7) = x1
  <2>1. h(0) = x8  BY <1>2, <1>14
  <2>2. h(1) = x7  BY <1>11, <1>14, <2>1
  <2>3. h(2) = x6  BY <1>10, <1>14, <2>2
  <2>4. h(3) = x5  BY <1>9, <1>14, <2>3
  <2>5. h(4) = x4  BY <1>8, <1>14, <2>4
  <2>6. h(5) = x3  BY <1>7, <1>14, <2>5
  <2>7. h(6) = x2  BY <1>6, <1>14, <2>6
  <2>8. h(7) = x1  BY <1>5, <1>14, <2>7
  <2> QED BY <2>1, <2>2, <2>3, <2>4, <2>5, <2>6, <2>7, <2>8
<1>16. /\ h(7 - 0) % 2 = b[0 + 1] /\ h(7 - 1) % 2 = b[1 + 1] /\ h(7 - 2) % 2 = b[2 + 1]
       /\ h(7 - 3) % 2 = b[3 + 1] /\ h(7 - 4) % 2 = b[4 + 1] /\ h(7 - 5) % 2 = b[5 + 1]
       /\ h(7 - 6) % 2 = b[6 + 1] /\ h(7 - 7) % 2 = b[7 + 1]
       BY <1>4, <1>5, <1>6, <1>7, <1>8, <1>9, <1>10, <1>11, <1>15
       DEF b1, b2, b3, b4, b5, b6, b7, b8
<1>17. ASSUME NEW r \in 0..7 PROVE h(7 - r) % 2 = b[r + 1]
  <2>1. r = 0 \/ r = 1 \/ r = 2 \/ r = 3 \/ r = 4 \/ r = 5 \/ r = 6 \/ r = 7  OBVIOUS
  <2> QED BY <1>16, <2>1
<1>18. DigitsAre(v, b)  BY <1>17 DEF DigitsAre, h
<1> QED BY <1>0, <1>2, <1>18

\* The digits of the byte that begins behind the first 8 * i.
DigitsOf(code, i) ==
    [j \in 1..8 |-> IF 8 * i + j <= Len(code) THEN code[8 * i + j] ELSE 0]

BytesCount(code) == (Len(code) + 7) \div 8

LEMMA BytesType ==
    ASSUME NEW code \in BitStrings
    PROVE  /\ Bytes(code) \in ByteStrings /\ Len(Bytes(code)) = BytesCount(code)
           /\ BytesCount(code) \in Nat /\ 8 * BytesCount(code) >= Len(code)
           /\ 8 * BytesCount(code) <= Len(code) + 7
           /\ \A i \in 1..BytesCount(code) : /\ DigitsOf(code, i - 1) \in [1..8 -> {0, 1}]
                                             /\ Bytes(code)[i] = ByteOf(DigitsOf(code, i - 1))
<1> DEFINE n == BytesCount(code)  len == Len(code)  S == {0, 1}
<1>1. len \in Nat /\ n = (len + 7) \div 8  BY DEF BitStrings, BytesCount
<1>2. n \in Nat /\ 8 * n >= len /\ 8 * n <= len + 7
  <2> HIDE DEF n, len
  <2> QED BY <1>1
<1>3. ASSUME NEW i \in 1..n PROVE DigitsOf(code, i - 1) \in [1..8 -> {0, 1}]
  <2>1. code \in Seq(S)  BY DEF BitStrings
  <2> HIDE DEF S
  <2>2. \A j \in 1..len : code[j] \in S  BY <2>1, ElementOfSeq
  <2>3. i \in Int  BY <1>2
  <2> HIDE DEF n
  <2>4. ASSUME NEW j \in 1..8, 8 * (i - 1) + j <= len PROVE 8 * (i - 1) + j \in 1..len
    <3>1. i \in Nat /\ i >= 1  BY <1>2
    <3> HIDE DEF len
    <3> QED BY <1>1, <2>4, <3>1
  <2>5. ASSUME NEW j \in 1..8
        PROVE  (IF 8 * (i - 1) + j <= Len(code) THEN code[8 * (i - 1) + j] ELSE 0) \in {0, 1}
    <3>1. CASE 8 * (i - 1) + j <= Len(code)  BY <2>2, <2>4, <3>1 DEF S
    <3>2. CASE ~(8 * (i - 1) + j <= Len(code))  BY <3>2
    <3> QED BY <3>1, <3>2
  <2> QED BY <2>5 DEF DigitsOf
<1>4. Bytes(code) = [i \in 1..n |-> ByteOf(DigitsOf(code, i - 1))]
  <2> DEFINE D(i) == DigitsOf(code, i - 1)
             Def(i) == LET bit(j) == IF 8 * (i - 1) + j <= Len(code) THEN code[8 * (i - 1) + j] ELSE 0
                       IN 128 * bit(1) + 64 * bit(2) + 32 * bit(3) + 16 * bit(4)
                          + 8 * bit(5) + 4 * bit(6) + 2 * bit(7) + bit(8)
  <2>1. Bytes(code) = [i \in 1..n |-> Def(i)]  BY Zenon DEF Bytes, BytesCount
  <2>2. ASSUME NEW i \in 1..n PROVE Def(i) = ByteOf(DigitsOf(code, i - 1))
    <3> DEFINE bit(j) == IF 8 * (i - 1) + j <= Len(code) THEN code[8 * (i - 1) + j] ELSE 0
    <3>1. \A j \in 1..8 : D(i)[j] = bit(j)  BY DEF DigitsOf
    <3>2. Def(i) = 128 * bit(1) + 64 * bit(2) + 32 * bit(3) + 16 * bit(4)
                   + 8 * bit(5) + 4 * bit(6) + 2 * bit(7) + bit(8)
          OBVIOUS
    <3> HIDE DEF bit, D, Def
    <3>3. /\ D(i)[1] = bit(1) /\ D(i)[2] = bit(2) /\ D(i)[3] = bit(3) /\ D(i)[4] = bit(4)
          /\ D(i)[5] = bit(5) /\ D(i)[6] = bit(6) /\ D(i)[7] = bit(7) /\ D(i)[8] = bit(8)
          BY <3>1
    <3>4. ByteOf(D(i)) = Def(i)  BY <3>2, <3>3 DEF ByteOf
    <3> QED BY <3>4 DEF D
  <2> HIDE DEF Def, n
  <2> QED BY <2>1, <2>2
<1>5. ASSUME NEW i \in 1..n PROVE ByteOf(DigitsOf(code, i - 1)) \in 0..255
  <2> DEFINE d == DigitsOf(code, i - 1)
  <2>1. d \in [1..8 -> {0, 1}]  BY <1>3
  <2> HIDE DEF d
  <2>2. ByteOf(d) \in 0..255  BY <2>1, ByteDigits
  <2> QED BY <2>2 DEF d
<1>6. Bytes(code) \in ByteStrings /\ Len(Bytes(code)) = n
      /\ \A i \in 1..n : Bytes(code)[i] = ByteOf(DigitsOf(code, i - 1))
  <2> DEFINE B(i) == ByteOf(DigitsOf(code, i - 1))
  <2>1. Bytes(code) = [i \in 1..n |-> B(i)] /\ \A i \in 1..n : B(i) \in 0..255  BY <1>4, <1>5
  <2> HIDE DEF n, B
  <2>2. Bytes(code) \in ByteStrings /\ Len(Bytes(code)) = n
        /\ \A i \in 1..n : Bytes(code)[i] = B(i)
        BY <1>2, <2>1 DEF ByteStrings
  <2> QED BY <2>2 DEF B
<1> QED BY <1>2, <1>3, <1>6

Placed(i, r, n, m) ==
    i \in Nat /\ i + 1 \in 1..n /\ r \in 0..7 /\ 8 * i + (r + 1) = m

LEMMA BitPlace ==
    ASSUME NEW n \in Nat, NEW m \in 1..(8 * n), NEW i, NEW r, i = (m - 1) \div 8, r = (m - 1) % 8
    PROVE  Placed(i, r, n, m)
<1> DEFINE p == m - 1
<1>1. p \in Nat /\ p < 8 * n /\ i = p \div 8 /\ r = p % 8 /\ m = p + 1  OBVIOUS
<1> HIDE DEF p
<1>2. i \in Nat /\ r \in 0..7 /\ 8 * i + r = p  BY <1>1
<1> QED BY <1>1, <1>2 DEF Placed

LEMMA BitsAreCode ==
    ASSUME NEW code \in BitStrings, NEW k \in Nat, NEW out \in ByteStrings,
           Back(out, Bytes(code), k), k <= BytesCount(code)
    PROVE  /\ Bits(out) \in BitStrings /\ Len(Bits(out)) = 8 * k
           /\ \A m \in 1..Len(code) : m <= 8 * k => Bits(out)[m] = code[m]
<1> DEFINE n == 8 * k  S == 0..255
           D(m) == Half(out[(m - 1) \div 8 + 1])[7 - ((m - 1) % 8)] % 2
<1>1. Len(out) = k /\ \A i \in 1..k : out[i] = Bytes(code)[i]  BY DEF Back
<1>2. \A i \in 1..k : out[i] \in Nat
  <2>1. out \in Seq(S)  BY DEF ByteStrings
  <2> HIDE DEF S
  <2>2. \A i \in 1..k : out[i] \in S  BY <1>1, <2>1, ElementOfSeq
  <2> QED BY <2>2 DEF S
<1>3. Bits(out) = [m \in 1..n |-> D(m)]  BY <1>1 DEF Bits
<1>4. ASSUME NEW m \in 1..n
      PROVE  D(m) \in {0, 1} /\ (m <= Len(code) => D(m) = code[m])
  <2> DEFINE i == (m - 1) \div 8  r == (m - 1) % 8  v == out[i + 1]
  <2>1. i \in Nat /\ i + 1 \in 1..k /\ r \in 0..7 /\ 8 * i + (r + 1) = m
    <3>1. m \in 1..(8 * k) /\ i = (m - 1) \div 8 /\ r = (m - 1) % 8  OBVIOUS
    <3> HIDE DEF i, r, n
    <3>2. Placed(i, r, k, m)  BY <3>1, BitPlace, Zenon
    <3> QED BY <3>2 DEF Placed
  <2>2. D(m) = Half(v)[7 - r] % 2  OBVIOUS
  <2> HIDE DEF i, r, D
  <2>3. v \in Nat  BY <1>2, <2>1
  <2> DEFINE d == DigitsOf(code, i)
  <2>4. v = ByteOf(d) /\ d \in [1..8 -> {0, 1}]
    <3> DEFINE j == i + 1
    <3>1. j \in 1..BytesCount(code) /\ j - 1 = i /\ j \in 1..k  BY <2>1, BytesType
    <3> HIDE DEF j
    <3>2. /\ DigitsOf(code, j - 1) \in [1..8 -> {0, 1}]
          /\ Bytes(code)[j] = ByteOf(DigitsOf(code, j - 1))
          BY <3>1, BytesType
    <3>3. out[j] = Bytes(code)[j]  BY <1>1, <3>1
    <3> QED BY <3>1, <3>2, <3>3 DEF j
  <2>5. d[r + 1] = IF 8 * i + (r + 1) <= Len(code) THEN code[8 * i + (r + 1)] ELSE 0
    <3>1. r + 1 \in 1..8  BY <2>1
    <3> QED BY <3>1 DEF DigitsOf
  <2> HIDE DEF v, d
  <2>6. DigitsAre(v, d)  BY <2>4, ByteDigits
  <2>7. D(m) = d[r + 1]  BY <2>1, <2>2, <2>6 DEF DigitsAre
  <2>8. D(m) \in {0, 1}
    <3>1. r + 1 \in 1..8  BY <2>1
    <3> QED BY <2>4, <2>7, <3>1
  <2>9. m <= Len(code) => D(m) = code[m]  BY <2>1, <2>5, <2>7
  <2> QED BY <2>8, <2>9
<1> HIDE DEF D
<1>5. n \in Nat  OBVIOUS
<1> HIDE DEF n
<1>6. Bits(out) \in BitStrings /\ Len(Bits(out)) = n  BY <1>3, <1>4, <1>5 DEF BitStrings
<1>7. \A m \in 1..Len(code) : m <= n => Bits(out)[m] = code[m]
  <2>1. \A m \in 1..Len(code) : m <= n => m \in 1..n
    <3>1. Len(code) \in Nat  BY DEF BitStrings
    <3> QED BY <1>5, <3>1
  <2> QED BY <1>3, <1>4, <2>1
<1> QED BY <1>6, <1>7 DEF n

LEMMA BehindOne ==
    ASSUME NEW S, NEW front \in Seq(S), NEW back \in Seq(S), Len(front) = 1
    PROVE  /\ front \o back \in Seq(S) /\ Len(front \o back) = 1 + Len(back)
           /\ \A i \in 1..Len(back) : (front \o back)[1 + i] = back[i]
<1>1. /\ front \o back \in Seq(S)
      /\ Len(front \o back) = Len(front) + Len(back)
      /\ \A i \in 1..Len(back) : (front \o back)[Len(front) + i] = back[i]
  <2>1. front \in Seq(S) /\ back \in Seq(S)  OBVIOUS
  <2> QED BY ONLY <2>1, Concatenated
<1> QED BY <1>1

LEMMA SetIsBytes ==
    ASSUME NEW f, Encoded(f) \in BitStrings
    PROVE  /\ ParameterSet(f) \in ByteStrings
           /\ Protected(Bytes(Encoded(f))) \in ByteStrings
           /\ Len(ParameterSet(f)) = Len(Protected(Bytes(Encoded(f)))) + 1
           /\ \A i \in 1..Len(Protected(Bytes(Encoded(f)))) :
                  ParameterSet(f)[i + 1] = Protected(Bytes(Encoded(f)))[i]
<1> DEFINE code == Encoded(f)  bytes == Bytes(code)  N == BytesCount(code)  S == 0..255
           P == Protected(bytes)  pieces == Pieces(bytes, N)  header == <<103>>
<1>1. bytes \in ByteStrings /\ Len(bytes) = N /\ N \in Nat  BY BytesType
<1> HIDE DEF code, bytes, N
<1>2. pieces \in [1..N -> Seq(S)] /\ Len(pieces) = N /\ P = Concat(pieces)
      BY <1>1, PiecesType DEF ByteStrings
<1>3. P \in Seq(S)
  <2>1. Concat(pieces) \in Seq(S)
    <3> HIDE DEF S, pieces
    <3> QED BY <1>1, <1>2, PiecesLie, Zenon
  <2> QED BY <1>2, <2>1
<1>4. ParameterSet(f) = header \o P  BY DEF ParameterSet, P, bytes, code
<1>5. header \in Seq(S) /\ Len(header) = 1  OBVIOUS
<1> HIDE DEF S, P, header
<1>6. /\ header \o P \in Seq(S) /\ Len(header \o P) = 1 + Len(P)
      /\ \A i \in 1..Len(P) : (header \o P)[1 + i] = P[i]
  <2> QED BY <1>3, <1>5, BehindOne
<1>7. Len(P) \in Nat  BY <1>3, LenProperties
<1>8. \A i \in 1..Len(P) : ParameterSet(f)[i + 1] = P[i]
  <2>1. \A i \in 1..Len(P) : 1 + i = i + 1  BY <1>7
  <2> QED BY <1>4, <1>6, <2>1
<1>9. Len(ParameterSet(f)) = Len(P) + 1  BY <1>4, <1>6, <1>7
<1>10. ParameterSet(f) \in ByteStrings /\ P \in ByteStrings
       BY <1>3, <1>4, <1>6 DEF S, ByteStrings
<1> QED BY <1>8, <1>9, <1>10 DEF P, bytes, code

\* A parameter set that is whole is looked at.
LEMMA LongEnough ==
    ASSUME NEW f, WellFormed(f), PartsAreBits(f)
    PROVE  Len(ParameterSet(f)) >= 4
<1> DEFINE code == Encoded(f)  bytes == Bytes(code)  N == BytesCount(code)  S == 0..255
           P == Protected(bytes)  pieces == Pieces(bytes, N)
<1>1. /\ code \in BitStrings /\ bytes \in ByteStrings /\ Len(bytes) = N /\ N \in Nat
      /\ 8 * N >= Len(code) /\ Len(ParameterSet(f)) = Len(P) + 1
  <2>1. code \in BitStrings  BY DEF PartsAreBits
  <2>2. Len(ParameterSet(f)) = Len(P) + 1  BY <2>1, SetIsBytes
  <2> QED BY <2>1, <2>2, BytesType
<1>2. Len(code) >= 24 /\ Len(code) \in Nat
  <2> DEFINE es == ProfileHead(f)  cs == [k \in DOMAIN es |-> Code(es[k])]  B == {0, 1}
             back == IF f.profile \in HighProfiles THEN ChromaPart(f) ELSE OrderPart(f)
             n == 4
  <2>1. code = Codes(es) \o back  BY DEF Encoded, ProfileHead
  <2>2. back \in BitStrings  BY DEF PartsAreBits
  <2>3. Writes(es, <<"u8", "u8", "u8", "ue">>, n)  BY GroupsAre
  <2>4. /\ es[1] = U8(f.profile) /\ es[2] = U8(f.octets[1]) /\ es[3] = U8(f.octets[2])
        BY DEF ProfileHead
  <2>5. Code(es[1]) = U(8, f.profile) /\ Code(es[2]) = U(8, f.octets[1])
        /\ Code(es[3]) = U(8, f.octets[2])
    <3>1. Valid(es[1]) /\ Valid(es[2]) /\ Valid(es[3])
      <4>1. \A k \in 1..n : Valid(es[k])  BY <2>3 DEF Writes
      <4>2. 1 \in 1..n /\ 2 \in 1..n /\ 3 \in 1..n  OBVIOUS
      <4> HIDE DEF es, n
      <4> QED BY <4>1, <4>2
    <3>2. /\ es[1].kind = "u8" /\ es[2].kind = "u8" /\ es[3].kind = "u8"
          /\ es[1].value = f.profile /\ es[2].value = f.octets[1] /\ es[3].value = f.octets[2]
          BY <2>4 DEF U8
    <3>3. ASSUME NEW e, Valid(e), e.kind = "u8" PROVE Code(e) = U(8, e.value)  BY <3>3, CodeIs
    <3> HIDE DEF es
    <3> QED BY <3>1, <3>2, <3>3
  <2>6. f.profile \in Nat /\ f.octets[1] \in Nat /\ f.octets[2] \in Nat
    <3>1. f.profile \in 0..255 /\ \A i \in 1..2 : f.octets[i] \in 0..255
          BY Zenon DEF WellFormed
    <3> DEFINE p == f.profile  o == f.octets
    <3>2. p \in 0..255 /\ \A i \in 1..2 : o[i] \in 0..255  BY <3>1
    <3> HIDE DEF p, o
    <3>3. o[1] \in 0..255 /\ o[2] \in 0..255  BY ONLY <3>2
    <3>4. p \in Nat /\ o[1] \in Nat /\ o[2] \in Nat  BY ONLY <3>2, <3>3
    <3> QED BY <3>4 DEF p, o
  <2>7. Len(Code(es[1])) = 8 /\ Len(Code(es[2])) = 8 /\ Len(Code(es[3])) = 8
    <3>1. 8 \in 1..32  OBVIOUS
    <3>2. \A v \in Nat : Len(U(8, v)) = 8  BY <3>1, UBits
    <3> QED BY <2>5, <2>6, <3>2
  <2>8. Len(es) = 4 /\ DOMAIN es = 1..4  BY DEF ProfileHead
  <2>9. Codes(es) = Concat(cs) /\ Codes(es) \in BitStrings
    <3>1. n \in Nat  OBVIOUS
    <3> HIDE DEF n, es
    <3>2. Codes(es) \in BitStrings  BY <2>3, <3>1, CodesType DEF Writes
    <3> QED BY <3>2 DEF Codes
  <2>10. cs \in [1..n -> Seq(B)] /\ Len(cs) = n /\ n \in Nat
    <3>1. \A k \in 1..4 : Code(es[k]) \in BitStrings
      <4>1. n \in Nat  OBVIOUS
      <4>2. \A k \in 1..n : Valid(es[k])  BY <2>3 DEF Writes
      <4>3. \A k \in 1..n : Code(es[k]) \in BitStrings  BY <4>2, CodeIs
      <4> QED BY <4>3
    <3> HIDE DEF es
    <3> QED BY <2>8, <3>1 DEF BitStrings
  <2>11. PICK ends \in [0..n -> Nat] : Lie(ends, cs, n)
    <3> HIDE DEF cs, B, n
    <3> QED BY <2>10, PiecesLie, Zenon
  <2>12. /\ cs[1] = Code(es[1]) /\ cs[2] = Code(es[2]) /\ cs[3] = Code(es[3])
    <3> HIDE DEF es
    <3> QED BY <2>8
  <2> HIDE DEF cs, es
  <2>13. /\ ends[0] = 0 /\ ends[4] = Len(Codes(es))
         /\ \A k \in 1..4 : ends[k] = ends[k - 1] + Len(cs[k]) /\ ends[k] <= ends[4]
         BY <2>9, <2>11 DEF Lie
  <2>14. ends[3] = 24 /\ ends[3] <= ends[4]
    <3>1. /\ ends[1] = ends[0] + 8 /\ ends[2] = ends[1] + 8 /\ ends[3] = ends[2] + 8
          /\ ends[3] <= ends[4]
      <4>1. 1 \in 1..4 /\ 2 \in 1..4 /\ 3 \in 1..4 /\ 1 - 1 = 0 /\ 2 - 1 = 1 /\ 3 - 1 = 2
            OBVIOUS
      <4>2. /\ ends[1] = ends[1 - 1] + Len(cs[1]) /\ ends[2] = ends[2 - 1] + Len(cs[2])
            /\ ends[3] = ends[3 - 1] + Len(cs[3]) /\ ends[3] <= ends[4]
            BY <2>13, <4>1
      <4> QED BY <2>7, <2>12, <4>1, <4>2
    <3> QED BY <2>13, <3>1
  <2>15. Len(Codes(es) \o back) = Len(Codes(es)) + Len(back) /\ Len(back) \in Nat
         /\ Len(Codes(es)) \in Nat
         BY <2>2, <2>9, BitsJoin
  <2> HIDE DEF code, back
  <2> QED BY <2>1, <2>13, <2>14, <2>15
<1> HIDE DEF code, bytes, N
<1>3. N >= 3  BY <1>1, <1>2
<1>4. pieces \in [1..N -> Seq(S)] /\ Len(pieces) = N /\ P = Concat(pieces)
      BY <1>1, PiecesType DEF ByteStrings
<1>5. PICK ends \in [0..N -> Nat] : Lie(ends, pieces, N)
  <2> HIDE DEF S, pieces
  <2> QED BY <1>1, <1>4, PiecesLie, Zenon
<1>6. ASSUME NEW k \in 1..N PROVE ends[k] > ends[k - 1] /\ ends[k] <= ends[N] /\ ends[N] = Len(P)
  <2>1. NextPiece(bytes, ends, N, k)  BY <1>1, <1>5, NextIs
  <2>2. ends[k - 1] \in Nat
    <3>1. k - 1 \in 0..N  BY <1>1
    <3> QED BY <3>1
  <2> QED BY <2>1, <2>2 DEF NextPiece
<1>7. ends[1] > ends[0] /\ ends[2] > ends[1] /\ ends[3] > ends[2] /\ ends[3] <= ends[N]
      /\ ends[N] = Len(P)
  <2>1. 1 \in 1..N /\ 2 \in 1..N /\ 3 \in 1..N /\ 1 - 1 = 0 /\ 2 - 1 = 1 /\ 3 - 1 = 2
        BY <1>1, <1>3
  <2> HIDE DEF P
  <2>2. ends[1] > ends[1 - 1] /\ ends[2] > ends[2 - 1] /\ ends[3] > ends[3 - 1]
        /\ ends[3] <= ends[N] /\ ends[N] = Len(P)
        BY <1>6, <2>1
  <2> QED BY <2>1, <2>2
<1>8. ends[0] \in Nat /\ ends[1] \in Nat /\ ends[2] \in Nat /\ ends[3] \in Nat /\ ends[N] \in Nat
      BY <1>1, <1>3
<1> DEFINE e0 == ends[0]  e1 == ends[1]  e2 == ends[2]  e3 == ends[3]  all == ends[N]
<1>9. /\ e0 \in Nat /\ e1 \in Nat /\ e2 \in Nat /\ e3 \in Nat /\ all \in Nat
      /\ e1 > e0 /\ e2 > e1 /\ e3 > e2 /\ e3 <= all /\ all = Len(P)
      BY <1>7, <1>8
<1> HIDE DEF P, e0, e1, e2, e3, all
<1> QED BY <1>1, <1>9

\* What arrives of what was sent.
LEMMA FrontOf ==
    ASSUME NEW sent \in ByteStrings, NEW cut \in Nat
    PROVE  LET got == SubSeq(sent, 1, Len(sent) - cut)
           IN /\ got \in ByteStrings
              /\ Len(got) = IF cut < Len(sent) THEN Len(sent) - cut ELSE 0
              /\ \A i \in 1..Len(got) : got[i] = sent[i]
<1> DEFINE S == 0..255  m == Len(sent) - cut  got == SubSeq(sent, 1, m)  one == 1
<1>1. sent \in Seq(S)  BY DEF ByteStrings
<1> HIDE DEF S
<1>2. Len(sent) \in Nat  BY <1>1, LenProperties
<1>3. m \in Int /\ one \in Int /\ \A i \in one..m : i \in 1..Len(sent)  BY <1>2
<1>4. \A i \in one..m : sent[i] \in S  BY <1>1, <1>3, ElementOfSeq
<1> HIDE DEF m, one
<1>5. /\ SubSeq(sent, one, m) \in Seq(S)
      /\ Len(SubSeq(sent, one, m)) = IF one <= m THEN m - one + 1 ELSE 0
      /\ \A i \in 1..(m - one + 1) : SubSeq(sent, one, m)[i] = sent[one + i - 1]
      BY <1>3, <1>4, SubSeqProperties
<1>6. one = 1 /\ m = Len(sent) - cut  BY DEF one, m
<1> HIDE DEF got
<1>7. got = SubSeq(sent, one, m)  BY <1>6 DEF got
<1>8. Len(got) = IF cut < Len(sent) THEN Len(sent) - cut ELSE 0  BY <1>2, <1>5, <1>6, <1>7
<1>9. ASSUME NEW i \in 1..Len(got) PROVE got[i] = sent[i]
  <2>1. i \in 1..(m - one + 1) /\ one + i - 1 = i  BY <1>2, <1>5, <1>6, <1>7, <1>8
  <2> QED BY <1>5, <1>7, <2>1
<1>10. got \in ByteStrings  BY <1>5, <1>7 DEF S, ByteStrings
<1> QED BY <1>8, <1>9, <1>10 DEF got, m

\* What the parser reads bit by bit begins with what the encoder wrote.
Arrived(got, code, n) ==
    /\ Bits(StripEmulationPrevention(got)) \in BitStrings
    /\ \A i \in 1..Len(code) : i <= Len(Bits(StripEmulationPrevention(got))) =>
           Bits(StripEmulationPrevention(got))[i] = code[i]
    /\ n = Len(Protected(Bytes(code))) => Len(code) <= Len(Bits(StripEmulationPrevention(got)))

LEMMA CodeArrives ==
    ASSUME NEW f, Encoded(f) \in BitStrings, NEW got \in ByteStrings, NEW n \in Nat,
           Len(got) = n + 1, n <= Len(Protected(Bytes(Encoded(f)))),
           \A i \in 1..(n + 1) : got[i] = ParameterSet(f)[i]
    PROVE  Arrived(got, Encoded(f), n)
<1> DEFINE code == Encoded(f)  bytes == Bytes(code)  P == Protected(bytes)
           N == BytesCount(code)  out == StripEmulationPrevention(got)
<1>1. /\ bytes \in ByteStrings /\ Len(bytes) = N /\ N \in Nat /\ 8 * N >= Len(code)
      /\ code \in BitStrings
      BY BytesType
<1>2. \A i \in 1..Len(P) : ParameterSet(f)[i + 1] = P[i]  BY SetIsBytes
<1>3. \A i \in 1..n : got[i + 1] = P[i]
  <2>0. P \in ByteStrings  BY SetIsBytes
  <2>1. Len(P) \in Nat  BY <2>0 DEF ByteStrings
  <2>2. n <= Len(P)  OBVIOUS
  <2> HIDE DEF P
  <2>3. \A i \in 1..n : i + 1 \in 1..(n + 1) /\ i \in 1..Len(P)  BY <2>1, <2>2
  <2> QED BY <1>2, <2>3
<1>4. n <= Len(P)  OBVIOUS
<1> HIDE DEF bytes, N, code
<1>5. out \in ByteStrings
      BY <1>1, <1>3, <1>4, StripIsBack
<1>6. PICK k \in 0..N : Back(out, bytes, k) /\ (n = Len(P) => k = N)
      BY <1>1, <1>3, <1>4, StripIsBack
<1> HIDE DEF out, P
<1>7. /\ Bits(out) \in BitStrings /\ Len(Bits(out)) = 8 * k
      /\ \A m \in 1..Len(code) : m <= 8 * k => Bits(out)[m] = code[m]
  <2>1. k \in Nat /\ k <= BytesCount(code)  BY <1>1, <1>6 DEF N
  <2> QED BY <1>1, <1>5, <1>6, <2>1, BitsAreCode DEF bytes
<1>8. n = Len(P) => Len(code) <= Len(Bits(out))  BY <1>1, <1>6, <1>7
<1> QED BY <1>7, <1>8 DEF Arrived, out, P, bytes, code

LEMMA ArriveStep == ASSUME SpsInv, NEW cut \in Cuts, Arrive(cut) PROVE SpsInv'
<1> DEFINE f == fields  sent == ParameterSet(f)  got == SubSeq(sent, 1, Len(sent) - cut)
           code == Encoded(f)
<1>1. /\ phase = "arrives" /\ whole' = (cut = 0) /\ BeginParsing(got)  BY DEF Arrive
<1>2. /\ phase' = (IF Len(got) < 4 THEN "done" ELSE "profile")
      /\ bits' = (IF Len(got) < 4 THEN <<>> ELSE Bits(StripEmulationPrevention(got)))
      /\ fields' = fields /\ pos' = pos /\ values' = values /\ dims' = dims
      BY <1>1 DEF BeginParsing
<1>3. /\ fields \in Fields /\ bits \in BitStrings /\ pos = 0 /\ dims = NoDims
      /\ values \in [chroma : Int, wide : Int, high : Int, frameMbs : Int]
      BY <1>1 DEF SpsInv
<1>4. cut \in Nat /\ WellFormed(f)  BY <1>3, SpsAssumption
<1>5. PartsAreBits(f) /\ code \in BitStrings
  <2>1. PartsAreBits(f)  BY <1>3, <1>4, PartsType
  <2> QED BY <2>1 DEF PartsAreBits
<1>6. sent \in ByteStrings /\ Len(sent) = Len(Protected(Bytes(code))) + 1
      BY <1>5, SetIsBytes
<1>7. /\ got \in ByteStrings /\ Len(got) = (IF cut < Len(sent) THEN Len(sent) - cut ELSE 0)
      /\ \A i \in 1..Len(got) : got[i] = sent[i]
  <2> HIDE DEF sent
  <2> QED BY <1>4, <1>6, FrontOf
<1>8. Len(sent) >= 4  BY <1>4, <1>5, LongEnough
<1>9. Len(sent) \in Nat
  <2> HIDE DEF sent
  <2> QED BY <1>6 DEF ByteStrings
<1> HIDE DEF got
<1>10. CASE Len(got) < 4
  <2>1. phase' = "done" /\ bits' = <<>> /\ dims' = NoDims  BY <1>2, <1>3, <1>10
  <2>2. ~whole'
    <3> HIDE DEF sent
    <3>1. cut # 0
      <4> SUFFICES ASSUME cut = 0 PROVE FALSE
          OBVIOUS
      <4>1. Len(got) = Len(sent) - 0 \/ Len(sent) <= 0  BY <1>7, <1>9
      <4> QED BY <1>8, <1>9, <1>10, <4>1
    <3> QED BY <1>1, <3>1, Zenon
  <2>3. bits' \in BitStrings  BY <2>1, NoBitsHolds DEF NoBits
  <2>4. SizeIsEncoders'  BY <2>1, <2>2 DEF SizeIsEncoders
  <2> QED BY <1>2, <1>3, <2>1, <2>3, <2>4 DEF SpsInv, Reading
<1>11. CASE Len(got) >= 4
  <2> DEFINE n == Len(got) - 1
  <2>1. /\ n \in Nat /\ Len(got) = n + 1 /\ n <= Len(Protected(Bytes(code)))
        /\ cut = 0 => n = Len(Protected(Bytes(code)))
    <3>1. Len(got) = Len(sent) - cut  BY <1>7, <1>9, <1>11
    <3> DEFINE all == Len(sent)  prot == Len(Protected(Bytes(code)))
    <3>2. all = prot + 1 /\ prot \in Int
      <4>1. Protected(Bytes(code)) \in ByteStrings  BY <1>5, SetIsBytes
      <4>2. prot \in Nat  BY <4>1 DEF ByteStrings
      <4> QED BY <1>6, <4>2
    <3> HIDE DEF all, prot
    <3>3. all \in Nat /\ Len(got) = all - cut  BY <1>9, <3>1 DEF all
    <3>4. n \in Nat /\ Len(got) = n + 1 /\ n <= prot /\ (cut = 0 => n = prot)
          BY <1>4, <1>11, <3>2, <3>3
    <3> QED BY <3>4 DEF prot
  <2> HIDE DEF n
  <2>2. Arrived(got, code, n)
    <3>1. \A i \in 1..(n + 1) : got[i] = sent[i]  BY <1>7, <2>1
    <3> QED BY <1>5, <1>7, <2>1, <3>1, CodeArrives
  <2>3. phase' = "profile" /\ bits' = Bits(StripEmulationPrevention(got))
    <3>1. ~(Len(got) < 4)  BY <1>11, <2>1
    <3> QED BY <1>2, <3>1
  <2>4. /\ bits' \in BitStrings
        /\ \A i \in 1..Len(code) : i <= Len(bits') => bits'[i] = code[i]
        /\ whole' => Len(code) <= Len(bits')
        BY <1>1, <2>1, <2>2, <2>3 DEF Arrived
  <2>5. Ahead(pos, Part(phase, fields))'
    <3>1. pos' = 0 /\ Part("profile", f) = code  BY <1>2, <1>3 DEF Part
    <3>2. Part(phase', fields') = code  BY <1>2, <2>3, <3>1
    <3>3. Len(code) \in Nat  BY <1>5 DEF BitStrings
    <3> HIDE DEF code
    <3>4. /\ \A i \in 1..Len(code) : 0 + i <= Len(bits') => bits'[0 + i] = code[i]
          /\ whole' => 0 + Len(code) <= Len(bits')
      <4>1. \A i \in 1..Len(code) : 0 + i = i  BY <3>3
      <4> QED BY <2>4, <3>3, <4>1
    <3> QED BY <3>1, <3>2, <3>4 DEF Ahead
  <2>6. AsMeant(phase, values, fields)'  BY <2>3 DEF AsMeant
  <2>7. SizeIsEncoders'  BY <2>3 DEF SizeIsEncoders
  <2> QED BY <1>2, <1>3, <2>3, <2>4, <2>5, <2>6, <2>7 DEF SpsInv, Reading
<1>12. Len(got) \in Nat
  <2> HIDE DEF sent
  <2> QED BY <1>7 DEF ByteStrings
<1> QED BY <1>10, <1>11, <1>12

LEMMA SpsInvInit == SpsInit => SpsInv
<1> SUFFICES ASSUME SpsInit PROVE SpsInv
    OBVIOUS
<1>1. bits \in BitStrings  BY NoBitsHolds DEF SpsInit, NoBits
<1>2. SizeIsEncoders  BY DEF SpsInit, SizeIsEncoders
<1> QED BY <1>1, <1>2 DEF SpsInit, SpsInv, Reading

LEMMA SpsInvNext == SpsInv /\ [SpsNext]_spsVars => SpsInv'
<1> SUFFICES ASSUME SpsInv, [SpsNext]_spsVars PROVE SpsInv'
    OBVIOUS
<1>1. CASE \E cut \in Cuts : Arrive(cut)  BY <1>1, ArriveStep
<1>2. CASE ReadProfile  BY <1>2, ProfileStep
<1>3. CASE ReadChroma   BY <1>3, ChromaStep
<1>4. CASE ReadDepth    BY <1>4, DepthStep
<1>5. CASE ReadOrder    BY <1>5, OrderStep
<1>6. CASE ReadOrder0   BY <1>6, Order0Step
<1>7. CASE ReadOrder1   BY <1>7, Order1Step
<1>8. CASE ReadSize     BY <1>8, SizeStep
<1>9. CASE ReadCrop     BY <1>9, CropStep
<1>10. CASE UNCHANGED spsVars
  <2>1. /\ fields' = fields /\ whole' = whole /\ bits' = bits /\ pos' = pos /\ phase' = phase
        /\ values' = values /\ dims' = dims
        BY <1>10 DEF spsVars
  <2>2. Ahead(pos, Part(phase, fields))' <=> Ahead(pos, Part(phase, fields))
        BY <2>1 DEF Ahead
  <2>3. SizeIsEncoders' <=> SizeIsEncoders  BY <2>1 DEF SizeIsEncoders
  <2> QED BY <2>1, <2>2, <2>3 DEF SpsInv
<1> QED BY <1>1, <1>2, <1>3, <1>4, <1>5, <1>6, <1>7, <1>8, <1>9, <1>10 DEF SpsNext

\* The visible size is the encoder's, for every parameter set and wherever it
\* is cut short (sps.cpp:80-150).
THEOREM SizeIsEncodersCorrect == SpsSpec => []SizeIsEncoders
<1>1. SpsInv => SizeIsEncoders  BY DEF SpsInv
<1> QED BY <1>1, SpsInvInit, SpsInvNext, PTL DEF SpsSpec
==============================================================================
