---------------------------- MODULE Messages_proofs ----------------------------
(***************************************************************************)
(* What the code of model/*.proto writes, it reads: for every message and  *)
(* every number, string and field.                                         *)
(***************************************************************************)
EXTENDS Messages, WellFoundedInduction, SequenceTheorems, FiniteSetTheorems, TLAPS

-----------------------------------------------------------------------------
(* Recursion and induction along a measure.                                *)

(* A set that has every element whose smaller ones it has, has them all. *)
LEMMA MeasureInduction ==
  ASSUME NEW D, NEW m \in [D -> Nat], NEW P,
         \A x \in D : (\A y \in D : m[y] < m[x] => y \in P) => x \in P
  PROVE  D \subseteq P
<1> SUFFICES ASSUME ~ (D \subseteq P) PROVE FALSE
  OBVIOUS
<1> DEFINE Bad == {n \in Nat : \E x \in D : m[x] = n /\ x \notin P}
<1>1. Bad # {} /\ Bad \subseteq Nat
  OBVIOUS
<1>2. PICK n \in Bad : \A k \in Bad : ~ (<<k, n>> \in OpToRel(<, Nat))
  BY <1>1, NatLessThanWellFounded, WFMin
<1>3. \A k \in Bad : ~ (k < n)
  BY <1>1, <1>2 DEF OpToRel
<1>4. PICK x \in D : m[x] = n /\ x \notin P
  OBVIOUS
<1>5. \A y \in D : m[y] < m[x] => y \in P
  BY <1>3, <1>4
<1> QED
  BY <1>4, <1>5

(* A non-empty set of naturals has a least element. *)
LEMMA LeastNatural ==
  ASSUME NEW I, I \subseteq Nat, I # {}
  PROVE  \E i \in I : \A k \in I : i <= k
<1>1. PICK i \in I : \A k \in I : ~ (<<k, i>> \in OpToRel(<, Nat))
  BY NatLessThanWellFounded, WFMin
<1>2. \A k \in I : ~ (k < i)
  BY <1>1 DEF OpToRel
<1> QED
  BY <1>2

(* Induction over the naturals, for a set. *)
LEMMA SetInduction ==
  ASSUME NEW P, 0 \in P, \A n \in Nat : n \in P => n + 1 \in P
  PROVE  Nat \subseteq P
<1> DEFINE m == [n \in Nat |-> n]
<1>1. m \in [Nat -> Nat]
  OBVIOUS
<1>2. ASSUME NEW x \in Nat, \A y \in Nat : m[y] < m[x] => y \in P
      PROVE  x \in P
  <2>1. CASE x = 0
    BY <2>1
  <2>2. CASE x # 0
    <3>1. x - 1 \in Nat /\ x - 1 < x /\ (x - 1) + 1 = x
      BY <2>2
    <3> QED
      BY <3>1, <1>2
  <2> QED
    BY <2>1, <2>2
<1> HIDE DEF m
<1> QED
  BY <1>1, <1>2, MeasureInduction, Zenon

(* A function may be defined by what it is at smaller arguments: from D to *)
(* S, by base on B and elsewhere by a step from its value at the next one. *)
IsRecursion(D, S, m, B, base, next, step) ==
  /\ m \in [D -> Nat] /\ B \subseteq D
  /\ base \in [B -> S] /\ next \in [D \ B -> D] /\ step \in [D \ B -> [S -> S]]
  /\ \A x \in D \ B : m[next[x]] < m[x]

Computes(f, D, S, B, base, next, step) ==
  /\ f \in [D -> S]
  /\ \A x \in D : f[x] = IF x \in B THEN base[x] ELSE step[x][f[next[x]]]

LEMMA Recursion ==
  ASSUME NEW D, NEW S, NEW m, NEW B, NEW base, NEW next, NEW step,
         IsRecursion(D, S, m, B, base, next, step)
  PROVE  \E f : Computes(f, D, S, B, base, next, step)
<1> USE DEF IsRecursion
<1> DEFINE Below(n) == {x \in D : m[x] < n}
           Good(f, n) == /\ f \in [Below(n) -> S]
                         /\ \A x \in Below(n) :
                              f[x] = IF x \in B THEN base[x] ELSE step[x][f[next[x]]]
<1>1. ASSUME NEW n \in Nat, NEW k \in Nat, NEW f, NEW g, Good(f, n), Good(g, k)
      PROVE  \A x \in D : m[x] < n /\ m[x] < k => f[x] = g[x]
  <2> DEFINE P == {x \in D : m[x] < n /\ m[x] < k => f[x] = g[x]}
  <2>1. ASSUME NEW x \in D, \A y \in D : m[y] < m[x] => y \in P
        PROVE  x \in P
    <3> SUFFICES ASSUME m[x] < n, m[x] < k PROVE f[x] = g[x]
      OBVIOUS
    <3>1. CASE x \in B
      BY <3>1, <1>1
    <3>2. CASE x \notin B
      <4>1. next[x] \in D /\ m[next[x]] < m[x] /\ m[x] \in Nat /\ m[next[x]] \in Nat
        BY <3>2
      <4>2. f[next[x]] = g[next[x]]
        BY <4>1, <2>1
      <4> QED
        BY <4>2, <3>2, <1>1
    <3> QED
      BY <3>1, <3>2
  <2>2. D \subseteq P
    <3> HIDE DEF P
    <3> QED
      BY <2>1, MeasureInduction, Zenon
  <2> QED
    BY <2>2
<1>2. \A n \in Nat : \E f : Good(f, n)
  <2> DEFINE P == {n \in Nat : \E f : Good(f, n)}
  <2>1. 0 \in P
    <3>1. Below(0) = {}
      OBVIOUS
    <3>2. Good([x \in {} |-> x], 0)
      BY <3>1
    <3> QED
      BY <3>2
  <2>2. ASSUME NEW n \in Nat, n \in P
        PROVE  n + 1 \in P
    <3>1. PICK f : Good(f, n)
      BY <2>2
    <3> DEFINE g == [x \in Below(n + 1) |->
                       IF x \in B THEN base[x] ELSE step[x][f[next[x]]]]
    <3>2. \A x \in Below(n + 1) \ B : next[x] \in Below(n) /\ next[x] \in Below(n + 1)
      OBVIOUS
    <3>3. \A x \in Below(n) : x \in Below(n + 1) /\ g[x] = f[x]
      BY <3>1
    <3>4. \A x \in Below(n + 1) : g[x] \in S
      <4>1. \A x \in Below(n + 1) \ B : f[next[x]] \in S
        BY <3>1, <3>2
      <4> QED
        BY <4>1
    <3>5. \A x \in Below(n + 1) \ B : g[x] = step[x][g[next[x]]]
      BY <3>2, <3>3
    <3>6. Good(g, n + 1)
      BY <3>4, <3>5
    <3>7. n + 1 \in Nat
      OBVIOUS
    <3> HIDE DEF g, Good
    <3> QED
      BY <3>6, <3>7
  <2> HIDE DEF P
  <2>3. Nat \subseteq P
    BY <2>1, <2>2, SetInduction, Zenon
  <2> QED
    BY <2>3 DEF P
<1> DEFINE F(n) == CHOOSE f : Good(f, n)
           h == [x \in D |-> F(m[x] + 1)[x]]
<1>3. \A n \in Nat : Good(F(n), n)
  BY <1>2
<1>4. \A x \in D : m[x] \in Nat /\ m[x] + 1 \in Nat /\ x \in Below(m[x] + 1)
  OBVIOUS
<1>5. \A x \in D : h[x] \in S
  <2> TAKE x \in D
  <2>1. Good(F(m[x] + 1), m[x] + 1)
    BY <1>3, <1>4
  <2> QED
    BY <2>1, <1>4
<1>6. ASSUME NEW x \in D
      PROVE  h[x] = IF x \in B THEN base[x] ELSE step[x][h[next[x]]]
  <2>1. Good(F(m[x] + 1), m[x] + 1)
    BY <1>3, <1>4
  <2>2. CASE x \in B
    BY <2>1, <2>2, <1>4
  <2>3. CASE x \notin B
    <3>1. next[x] \in D /\ m[next[x]] < m[x]
      BY <2>3
    <3>2. Good(F(m[next[x]] + 1), m[next[x]] + 1)
      BY <3>1, <1>3, <1>4
    <3>3. F(m[x] + 1)[next[x]] = F(m[next[x]] + 1)[next[x]]
      <4> HIDE DEF Good, F
      <4>1. m[next[x]] < m[x] + 1 /\ m[next[x]] < m[next[x]] + 1
        BY <3>1, <1>4
      <4> QED
        BY <2>1, <3>2, <3>1, <4>1, <1>1, <1>4
    <3>4. F(m[x] + 1)[x] = step[x][F(m[x] + 1)[next[x]]]
      BY <2>1, <2>3, <1>4
    <3>5. h[x] = F(m[x] + 1)[x] /\ h[next[x]] = F(m[next[x]] + 1)[next[x]]
      BY <3>1
    <3> HIDE DEF h, F
    <3> QED
      BY <3>3, <3>4, <3>5, <2>3
  <2> QED
    BY <2>2, <2>3
<1>7. h \in [D -> S]
  BY <1>5
<1> HIDE DEF h
<1> QED
  BY <1>6, <1>7 DEF Computes

-----------------------------------------------------------------------------
(* Sequences and their pieces.                                             *)

LEMMA SameSeq ==
  ASSUME NEW S, NEW s \in Seq(S), NEW t \in Seq(S), Len(s) = Len(t),
         \A i \in 1 .. Len(s) : s[i] = t[i]
  PROVE  s = t
BY SeqEqual

LEMMA PieceType ==
  ASSUME NEW S, NEW s \in Seq(S), NEW m \in Nat \ {0}, NEW n \in 0 .. Len(s)
  PROVE  /\ SubSeq(s, m, n) \in Seq(S)
         /\ Len(SubSeq(s, m, n)) = IF m <= n THEN n - m + 1 ELSE 0
         /\ \A i \in 1 .. Len(SubSeq(s, m, n)) : SubSeq(s, m, n)[i] = s[m + i - 1]
<1>1. \A i \in m .. n : s[i] \in S
  OBVIOUS
<1>2. m \in Int /\ n \in Int
  BY LenProperties
<1> QED
  BY <1>1, <1>2, SubSeqProperties

(* The pieces of the front of a sequence are pieces of the whole. *)
LEMMA PieceOfFront ==
  ASSUME NEW S, NEW s \in Seq(S), NEW t \in Seq(S),
         NEW m \in Nat \ {0}, NEW n \in 0 .. Len(s)
  PROVE  SubSeq(s \o t, m, n) = SubSeq(s, m, n)
<1>1. s \o t \in Seq(S) /\ Len(s \o t) = Len(s) + Len(t) /\ Len(s) \in Nat /\ Len(t) \in Nat
  BY ConcatProperties, LenProperties
<1>2. n \in 0 .. Len(s \o t)
  BY <1>1
<1> DEFINE a == SubSeq(s \o t, m, n)
           b == SubSeq(s, m, n)
<1>3. /\ a \in Seq(S) /\ Len(a) = (IF m <= n THEN n - m + 1 ELSE 0)
      /\ \A i \in 1 .. Len(a) : a[i] = (s \o t)[m + i - 1]
  BY <1>1, <1>2, PieceType
<1>4. /\ b \in Seq(S) /\ Len(b) = (IF m <= n THEN n - m + 1 ELSE 0)
      /\ \A i \in 1 .. Len(b) : b[i] = s[m + i - 1]
  BY PieceType
<1> HIDE DEF a, b
<1>5. \A i \in 1 .. Len(a) : m + i - 1 \in 1 .. Len(s)
  BY <1>1, <1>3
<1>6. \A j \in 1 .. Len(s) : (s \o t)[j] = s[j]
  OBVIOUS
<1>7. \A i \in 1 .. Len(a) : a[i] = b[i]
  BY <1>3, <1>4, <1>5, <1>6
<1>8. a = b
  BY <1>3, <1>4, <1>7, SameSeq
<1> QED
  BY <1>8 DEF a, b

LEMMA Regroup == \A S : \A p, q, r \in Seq(S) : (p \o q) \o r = p \o (q \o r)
<1> TAKE S
<1> TAKE p, q, r \in Seq(S)
<1> QED
  BY ConcatAssociative

LEMMA FrontAndRest ==
  ASSUME NEW S, NEW s \in Seq(S), NEW t \in Seq(S)
  PROVE  /\ SubSeq(s \o t, 1, Len(s)) = s
         /\ SubSeq(s \o t, Len(s) + 1, Len(s \o t)) = t
<1>1. s \o t \in Seq(S) /\ Len(s \o t) = Len(s) + Len(t) /\ Len(s) \in Nat /\ Len(t) \in Nat
  BY ConcatProperties, LenProperties
<1>2. SubSeq(s \o t, 1, Len(s)) = s
  BY <1>1, PieceOfFront, SubSeqFull
<1> DEFINE a == SubSeq(s \o t, Len(s) + 1, Len(s \o t))
<1>3. /\ a \in Seq(S)
      /\ Len(a) = (IF Len(s) + 1 <= Len(s \o t) THEN Len(s \o t) - (Len(s) + 1) + 1 ELSE 0)
      /\ \A i \in 1 .. Len(a) : a[i] = (s \o t)[Len(s) + 1 + i - 1]
  BY <1>1, PieceType
<1> HIDE DEF a
<1>4. Len(a) = Len(t)
  BY <1>1, <1>3
<1>5. \A i \in 1 .. Len(t) : (s \o t)[Len(s) + 1 + i - 1] = t[i]
  BY <1>1
<1>6. a = t
  BY <1>3, <1>4, <1>5, SameSeq
<1> QED
  BY <1>2, <1>6 DEF a

LEMMA Split ==
  ASSUME NEW S, NEW s \in Seq(S), NEW n \in 0 .. Len(s)
  PROVE  /\ SubSeq(s, 1, n) \in Seq(S) /\ Len(SubSeq(s, 1, n)) = n
         /\ SubSeq(s, n + 1, Len(s)) \in Seq(S)
         /\ Len(SubSeq(s, n + 1, Len(s))) = Len(s) - n
         /\ s = SubSeq(s, 1, n) \o SubSeq(s, n + 1, Len(s))
<1>1. Len(s) \in Nat /\ n \in Nat /\ n + 1 \in Nat \ {0}
  BY LenProperties
<1> DEFINE a == SubSeq(s, 1, n)
           b == SubSeq(s, n + 1, Len(s))
<1>2. a \in Seq(S) /\ Len(a) = n /\ \A i \in 1 .. Len(a) : a[i] = s[1 + i - 1]
  BY <1>1, PieceType
<1>3. b \in Seq(S) /\ Len(b) = Len(s) - n /\ \A i \in 1 .. Len(b) : b[i] = s[n + 1 + i - 1]
  BY <1>1, PieceType
<1> HIDE DEF a, b
<1>4. a \o b \in Seq(S) /\ Len(a \o b) = Len(s)
  BY <1>1, <1>2, <1>3
<1>5. \A i \in 1 .. Len(s) : (a \o b)[i] = s[i]
  <2> TAKE i \in 1 .. Len(s)
  <2>1. CASE i <= n
    BY <2>1, <1>1, <1>2, <1>3
  <2>2. CASE ~ (i <= n)
    <3>1. i - n \in 1 .. Len(b) /\ n + 1 + (i - n) - 1 = i
      BY <2>2, <1>1, <1>3
    <3>2. (a \o b)[i] = b[i - n]
      BY <2>2, <3>1, <1>1, <1>2, <1>3
    <3> QED
      BY <3>1, <3>2, <1>3
  <2> QED
    BY <2>1, <2>2
<1>6. s = a \o b
  BY <1>4, <1>5, SameSeq
<1> QED
  BY <1>2, <1>3, <1>6 DEF a, b

-----------------------------------------------------------------------------
(* Varints.                                                                *)

LEMMA VarintOfDef ==
  /\ VarintOf \in [Nat -> Seq(Byte)]
  /\ \A n \in Nat : VarintOf[n] = IF n < 128 THEN <<n>>
                                  ELSE <<128 + (n % 128)>> \o VarintOf[n \div 128]
<1> DEFINE m == [n \in Nat |-> n]
           B == 0 .. 127
           base == [n \in B |-> <<n>>]
           next == [n \in Nat \ B |-> n \div 128]
           step == [n \in Nat \ B |-> [s \in Seq(Byte) |-> <<128 + (n % 128)>> \o s]]
<1>1. m \in [Nat -> Nat] /\ B \subseteq Nat
  OBVIOUS
<1>2. base \in [B -> Seq(Byte)] /\ next \in [Nat \ B -> Nat]
  BY DEF Byte
<1>3. \A n \in Nat \ B : \A s \in Seq(Byte) : <<128 + (n % 128)>> \o s \in Seq(Byte)
  <2> TAKE n \in Nat \ B
  <2> TAKE s \in Seq(Byte)
  <2>1. 128 + (n % 128) \in Byte
    BY DEF Byte
  <2> QED
    BY <2>1, ConcatProperties
<1>4. step \in [Nat \ B -> [Seq(Byte) -> Seq(Byte)]]
  BY <1>3, Zenon
<1>5. \A n \in Nat \ B : m[next[n]] < m[n]
  OBVIOUS
<1>6. IsRecursion(Nat, Seq(Byte), m, B, base, next, step)
  <2> HIDE DEF m, B, base, next, step
  <2> QED
    BY <1>1, <1>2, <1>4, <1>5 DEF IsRecursion
<1>7. PICK f : f \in [Nat -> Seq(Byte)] /\
        \A n \in Nat : f[n] = IF n < 128 THEN <<n>>
                              ELSE <<128 + (n % 128)>> \o f[n \div 128]
  <2> HIDE DEF m, B, base, next, step
  <2>1. PICK f : Computes(f, Nat, Seq(Byte), B, base, next, step)
    BY <1>6, Recursion
  <2>2. f \in [Nat -> Seq(Byte)]
    BY <2>1 DEF Computes
  <2>3. ASSUME NEW n \in Nat, n < 128 PROVE f[n] = <<n>>
    <3>1. n \in B /\ base[n] = <<n>>
      BY <2>3 DEF B, base
    <3> QED
      BY <2>1, <3>1 DEF Computes
  <2>4. ASSUME NEW n \in Nat, ~ (n < 128)
        PROVE  f[n] = <<128 + (n % 128)>> \o f[n \div 128]
    <3>1. n \in Nat \ B /\ next[n] = n \div 128 /\ n \div 128 \in Nat
      BY <2>4 DEF B, next
    <3>2. step[n] = [s \in Seq(Byte) |-> <<128 + (n % 128)>> \o s]
      BY <3>1 DEF step
    <3>3. f[n] = step[n][f[n \div 128]]
      BY <2>1, <3>1 DEF Computes
    <3> QED
      BY <2>2, <3>1, <3>2, <3>3
  <2> QED
    BY <2>2, <2>3, <2>4
<1>8. f = [n \in Nat |-> IF n < 128 THEN <<n>>
                         ELSE <<128 + (n % 128)>> \o f[n \div 128]]
  BY <1>7
<1>9. VarintOf = [n \in Nat |-> IF n < 128 THEN <<n>>
                                ELSE <<128 + (n % 128)>> \o VarintOf[n \div 128]]
  <2> SUFFICES \E g : g = [n \in Nat |-> IF n < 128 THEN <<n>>
                                         ELSE <<128 + (n % 128)>> \o g[n \div 128]]
    BY DEF VarintOf
  <2> QED
    BY <1>8
<1>10. \A n \in Nat : VarintOf[n] = IF n < 128 THEN <<n>>
                                    ELSE <<128 + (n % 128)>> \o VarintOf[n \div 128]
  BY <1>9, Zenon
<1>11. VarintOf = [n \in Nat |-> VarintOf[n]]
  BY <1>9, <1>10, Zenon
<1> DEFINE P == {n \in Nat : VarintOf[n] = f[n]}
<1>12. ASSUME NEW n \in Nat, \A k \in Nat : m[k] < m[n] => k \in P
       PROVE  n \in P
  <2>1. CASE n < 128
    <3>1. VarintOf[n] = <<n>> /\ f[n] = <<n>>
      BY <2>1, <1>7, <1>10, Zenon
    <3> QED
      BY <3>1
  <2>2. CASE ~ (n < 128)
    <3>1. n \div 128 \in Nat /\ n \div 128 < n
      BY <2>2
    <3>2. VarintOf[n \div 128] = f[n \div 128]
      BY <3>1, <1>12
    <3>3. /\ VarintOf[n] = <<128 + (n % 128)>> \o VarintOf[n \div 128]
          /\ f[n] = <<128 + (n % 128)>> \o f[n \div 128]
      BY <2>2, <1>7, <1>10, Zenon
    <3> QED
      BY <3>2, <3>3
  <2> QED
    BY <2>1, <2>2
<1>13. Nat \subseteq P
  <2> HIDE DEF m, P
  <2> QED
    BY <1>1, <1>12, MeasureInduction, Zenon
<1>14. VarintOf = f
  <2>1. \A n \in Nat : VarintOf[n] = f[n]
    BY <1>13
  <2>2. f = [n \in Nat |-> f[n]]
    BY <1>7
  <2> QED
    BY <1>11, <2>1, <2>2, Zenon
<1> QED
  BY <1>7, <1>14, Zenon

LEMMA MaxInt32Type == MaxInt32 \in Nat
BY SMT DEF MaxInt32

LEMMA MaxInt32Value == MaxInt32 = 2147483647
BY SMT DEF MaxInt32

LEMMA Int32Elements == \A n : n \in Int32 <=> n \in Int /\ -MaxInt32 - 1 <= n /\ n <= MaxInt32
BY MaxInt32Type, SMT DEF Int32

LEMMA ByteElements == \A n : n \in Byte <=> n \in Int /\ 0 <= n /\ n < 256
BY DEF Byte

LEMMA VarintSizes ==
  ASSUME NEW n \in Nat
  PROVE  /\ n < 128 => VarintSize(n) = 1
         /\ n >= 128 /\ n < 16384 => VarintSize(n) = 2
         /\ n >= 16384 /\ n < 2097152 => VarintSize(n) = 3
         /\ n >= 2097152 /\ n < 268435456 => VarintSize(n) = 4
         /\ n >= 268435456 => VarintSize(n) = 5
<1> DEFINE Fits(k) == (k = 1 \/ Weight[k] <= n) /\ (k = 5 \/ n < Weight[k + 1])
<1>1. VarintSize(n) = CHOOSE k \in 1 .. 5 : Fits(k)
  BY SMT DEF VarintSize
<1>2. /\ Weight[1] = 1 /\ Weight[2] = 128 /\ Weight[3] = 16384
      /\ Weight[4] = 2097152 /\ Weight[5] = 268435456
  BY SMT DEF Weight
<1>3. Fits(1) <=> n < 128
  BY <1>2, SMT
<1>4. Fits(2) <=> n >= 128 /\ n < 16384
  BY <1>2, SMT
<1>5. Fits(3) <=> n >= 16384 /\ n < 2097152
  BY <1>2, SMT
<1>6. Fits(4) <=> n >= 2097152 /\ n < 268435456
  BY <1>2, SMT
<1>7. Fits(5) <=> n >= 268435456
  BY <1>2, SMT
<1>8. \A k \in 1 .. 5 : k = 1 \/ k = 2 \/ k = 3 \/ k = 4 \/ k = 5
  BY SMT
<1> HIDE DEF Fits
<1>9. \E k \in 1 .. 5 : Fits(k)
  BY <1>3, <1>4, <1>5, <1>6, <1>7, SMT
<1>10. PICK k \in 1 .. 5 : k = VarintSize(n) /\ Fits(k)
  BY <1>1, <1>9, Zenon
<1> QED
  BY <1>3, <1>4, <1>5, <1>6, <1>7, <1>8, <1>10, SMT

(* One byte, with bit 7 set only if others follow. *)
LEMMA VarintStep ==
  ASSUME NEW n \in Nat
  PROVE  /\ n \div 128 \in Nat
         /\ VarintOf[n] \in Seq(Byte) /\ VarintOf[n \div 128] \in Seq(Byte)
         /\ Len(VarintOf[n]) \in Nat /\ Len(VarintOf[n]) >= 1
         /\ n < 128 => VarintOf[n] = <<n>>
         /\ n >= 128 => /\ Len(VarintOf[n]) = Len(VarintOf[n \div 128]) + 1
                        /\ VarintOf[n][1] = 128 + (n % 128)
                        /\ \A i \in 1 .. Len(VarintOf[n \div 128]) :
                             VarintOf[n][i + 1] = VarintOf[n \div 128][i]
<1>1. n \div 128 \in Nat
  OBVIOUS
<1>2. VarintOf[n] \in Seq(Byte) /\ VarintOf[n \div 128] \in Seq(Byte)
  BY <1>1, VarintOfDef
<1>3. n < 128 => VarintOf[n] = <<n>>
  BY VarintOfDef
<1>4. ASSUME n >= 128
      PROVE  /\ Len(VarintOf[n]) = Len(VarintOf[n \div 128]) + 1
             /\ VarintOf[n][1] = 128 + (n % 128)
             /\ \A i \in 1 .. Len(VarintOf[n \div 128]) :
                  VarintOf[n][i + 1] = VarintOf[n \div 128][i]
  <2>0. ~ (n < 128)
    BY <1>4
  <2>1. VarintOf[n] = <<128 + (n % 128)>> \o VarintOf[n \div 128]
    BY <2>0, VarintOfDef, Zenon
  <2> DEFINE w == VarintOf[n \div 128]
             b == 128 + (n % 128)
  <2>2. w \in Seq(Byte) /\ b \in Byte
    BY <1>2, ByteElements
  <2> HIDE DEF w, b
  <2>3. /\ Len(<<b>> \o w) = Len(w) + 1 /\ (<<b>> \o w)[1] = b
        /\ \A i \in 1 .. Len(w) : (<<b>> \o w)[i + 1] = w[i]
    BY <2>2
  <2> QED
    BY <2>1, <2>3 DEF w, b
<1>5. Len(VarintOf[n]) \in Nat /\ Len(VarintOf[n \div 128]) \in Nat
  BY <1>2, LenProperties
<1>6. Len(VarintOf[n]) >= 1
  <2>1. CASE n < 128
    <3>1. Len(<<n>>) = 1
      OBVIOUS
    <3> QED
      BY <2>1, <3>1, <1>3
  <2>2. CASE n >= 128
    BY <2>2, <1>4, <1>5
  <2> QED
    BY <2>1, <2>2
<1> QED
  BY <1>1, <1>2, <1>3, <1>4, <1>5, <1>6

LEMMA VarintShape ==
  ASSUME NEW n \in Nat
  PROVE  \A i \in 1 .. Len(VarintOf[n]) : VarintOf[n][i] < 128 <=> i = Len(VarintOf[n])
<1> DEFINE m == [k \in Nat |-> k]
           P == {k \in Nat : \A i \in 1 .. Len(VarintOf[k]) :
                               VarintOf[k][i] < 128 <=> i = Len(VarintOf[k])}
<1>1. m \in [Nat -> Nat]
  OBVIOUS
<1>2. ASSUME NEW k \in Nat, \A j \in Nat : m[j] < m[k] => j \in P
      PROVE  k \in P
  <2>1. CASE k < 128
    <3>1. VarintOf[k] = <<k>>
      BY <2>1, VarintStep
    <3>2. Len(<<k>>) = 1 /\ <<k>>[1] = k
      OBVIOUS
    <3>3. \A i \in 1 .. 1 : <<k>>[i] < 128 <=> i = 1
      BY <3>2, <2>1
    <3> QED
      BY <3>1, <3>2, <3>3
  <2>2. CASE k >= 128
    <3>1. k \div 128 \in Nat /\ k \div 128 < k
      BY <2>2
    <3>2. k \div 128 \in P
      BY <3>1, <1>2
    <3> DEFINE v == VarintOf[k]
               w == VarintOf[k \div 128]
    <3>3. \A i \in 1 .. Len(w) : w[i] < 128 <=> i = Len(w)
      BY <3>2
    <3>4. /\ Len(w) \in Nat /\ Len(w) >= 1 /\ Len(v) = Len(w) + 1
          /\ v[1] = 128 + (k % 128)
          /\ \A i \in 1 .. Len(w) : v[i + 1] = w[i]
      BY <2>2, <3>1, VarintStep
    <3> HIDE DEF v, w
    <3>5. \A i \in 1 .. Len(v) : v[i] < 128 <=> i = Len(v)
      <4> TAKE i \in 1 .. Len(v)
      <4>1. CASE i = 1
        BY <4>1, <3>4
      <4>2. CASE i # 1
        <5>1. i - 1 \in 1 .. Len(w) /\ (i - 1) + 1 = i
          BY <4>2, <3>4
        <5>2. v[i] = w[i - 1]
          BY <5>1, <3>4
        <5>3. w[i - 1] < 128 <=> i - 1 = Len(w)
          BY <5>1, <3>3
        <5>4. i - 1 = Len(w) <=> i = Len(v)
          BY <5>1, <3>4
        <5> QED
          BY <5>2, <5>3, <5>4
      <4> QED
        BY <4>1, <4>2
    <3> QED
      BY <3>5 DEF v
  <2> QED
    BY <2>1, <2>2
<1>3. Nat \subseteq P
  <2> HIDE DEF m, P
  <2> QED
    BY <1>1, <1>2, MeasureInduction, Zenon
<1> QED
  BY <1>3

LEMMA VarintGroups ==
  ASSUME NEW n \in Nat
  PROVE  /\ Group(VarintOf[n], 1) = n % 128
         /\ \A i \in Nat \ {0} : Group(VarintOf[n], i + 1) = Group(VarintOf[n \div 128], i)
<1>1. CASE n < 128
  <2>1. VarintOf[n] = <<n>> /\ n \div 128 = 0 /\ n % 128 = n
    BY <1>1, VarintStep
  <2>2. VarintOf[0] = <<0>>
    BY VarintStep
  <2>3. Group(VarintOf[n], 1) = n
    BY <2>1 DEF Group
  <2>4. \A i \in Nat \ {0} : Group(VarintOf[n], i + 1) = 0 /\ Group(VarintOf[0], i) = 0
    BY <2>1, <2>2 DEF Group
  <2> QED
    BY <2>1, <2>3, <2>4
<1>2. CASE n >= 128
  <2> DEFINE v == VarintOf[n]
             w == VarintOf[n \div 128]
  <2>1. /\ Len(w) \in Nat /\ Len(v) \in Nat /\ Len(v) = Len(w) + 1
        /\ v[1] = 128 + (n % 128)
        /\ \A i \in 1 .. Len(w) : v[i + 1] = w[i]
    BY <1>2, VarintStep
  <2> HIDE DEF v, w
  <2>2. Group(v, 1) = n % 128
    BY <2>1 DEF Group
  <2>3. \A i \in Nat \ {0} : Group(v, i + 1) = Group(w, i)
    BY <2>1 DEF Group
  <2> QED
    BY <2>2, <2>3 DEF v, w
<1> QED
  BY <1>1, <1>2

(* What a reader needs of the encoding of a number: where it ends, and     *)
(* which number it is.                                                     *)
IsVarintOf(v, n) ==
  /\ v \in Seq(Byte) /\ Len(v) \in 1 .. 10 /\ Len(v) = VarintSize(n)
  /\ \A i \in 1 .. Len(v) : v[i] < 128 <=> i = Len(v)
  /\ ToInt32(v) = n

LEMMA VarintLength ==
  ASSUME NEW n \in Nat, n <= MaxInt32
  PROVE  Len(VarintOf[n]) = VarintSize(n)
<1> DEFINE L(k) == Len(VarintOf[k])
<1>1. \A k \in Nat : /\ k < 128 => L(k) = 1
                     /\ k >= 128 => L(k) = L(k \div 128) + 1
  <2> TAKE k \in Nat
  <2>1. ASSUME k < 128 PROVE L(k) = 1
    <3>1. VarintOf[k] = <<k>> /\ Len(<<k>>) = 1
      BY <2>1, VarintStep
    <3> QED
      BY <3>1
  <2>2. k >= 128 => L(k) = L(k \div 128) + 1
    BY VarintStep
  <2> QED
    BY <2>1, <2>2
<1> DEFINE a == n \div 128
           b == a \div 128
           c == b \div 128
           d == c \div 128
<1> HIDE DEF L
<1>2. a \in Nat /\ b \in Nat /\ c \in Nat /\ d \in Nat
  OBVIOUS
<1>3. /\ n < 128 => L(n) = 1
      /\ n >= 128 => L(n) = L(a) + 1
  BY <1>1, SMT
<1>4. /\ a < 128 => L(a) = 1
      /\ a >= 128 => L(a) = L(b) + 1
  BY <1>1, <1>2, SMT
<1>5. /\ b < 128 => L(b) = 1
      /\ b >= 128 => L(b) = L(c) + 1
  BY <1>1, <1>2, SMT
<1>6. /\ c < 128 => L(c) = 1
      /\ c >= 128 => L(c) = L(d) + 1
  BY <1>1, <1>2, SMT
<1>7. d < 128 => L(d) = 1
  BY <1>1, <1>2, SMT
<1>8. /\ n < 128 <=> a < 1
      /\ a < 128 <=> n < 16384
      /\ b < 128 <=> n < 2097152
      /\ c < 128 <=> n < 268435456
      /\ d < 128
  BY MaxInt32Value, SMT
<1> HIDE DEF a, b, c, d
<1>9. L(n) = VarintSize(n)
  <2>1. CASE n < 128
    BY <2>1, <1>3, VarintSizes, SMT
  <2>2. CASE n >= 128 /\ n < 16384
    BY <2>2, <1>3, <1>4, <1>8, VarintSizes, SMT
  <2>3. CASE n >= 16384 /\ n < 2097152
    BY <2>3, <1>2, <1>3, <1>4, <1>5, <1>8, VarintSizes, SMT
  <2>4. CASE n >= 2097152 /\ n < 268435456
    BY <2>4, <1>2, <1>3, <1>4, <1>5, <1>6, <1>8, VarintSizes, SMT
  <2>5. CASE n >= 268435456
    BY <2>5, <1>2, <1>3, <1>4, <1>5, <1>6, <1>7, <1>8, VarintSizes, SMT
  <2> QED
    BY <2>1, <2>2, <2>3, <2>4, <2>5, SMT
<1> QED
  BY <1>9 DEF L

LEMMA VarintValue ==
  ASSUME NEW n \in Nat, n <= MaxInt32
  PROVE  ToInt32(VarintOf[n]) = n
<1> DEFINE k == n \div 128
           l == k \div 128
           p == l \div 128
           q == p \div 128
           v == VarintOf[n]
<1>1. k \in Nat /\ l \in Nat /\ p \in Nat /\ q \in Nat
  OBVIOUS
<1>2. Group(v, 1) = n % 128
  BY VarintGroups
<1>3. \A j \in Nat : /\ Group(VarintOf[j], 1) = j % 128
                     /\ \A i \in Nat \ {0} : Group(VarintOf[j], i + 1)
                                               = Group(VarintOf[j \div 128], i)
  BY VarintGroups
<1>4. /\ Group(VarintOf[n], 1 + 1) = Group(VarintOf[k], 1)
      /\ Group(VarintOf[n], 2 + 1) = Group(VarintOf[k], 1 + 1)
      /\ Group(VarintOf[n], 3 + 1) = Group(VarintOf[k], 2 + 1)
      /\ Group(VarintOf[n], 4 + 1) = Group(VarintOf[k], 3 + 1)
  BY <1>3
<1>5. /\ Group(VarintOf[k], 1 + 1) = Group(VarintOf[l], 1)
      /\ Group(VarintOf[k], 2 + 1) = Group(VarintOf[l], 1 + 1)
      /\ Group(VarintOf[k], 3 + 1) = Group(VarintOf[l], 2 + 1)
  BY <1>1, <1>3
<1>6. /\ Group(VarintOf[l], 1 + 1) = Group(VarintOf[p], 1)
      /\ Group(VarintOf[l], 2 + 1) = Group(VarintOf[p], 1 + 1)
  BY <1>1, <1>3
<1>7. Group(VarintOf[p], 1 + 1) = Group(VarintOf[q], 1)
  BY <1>1, <1>3
<1>8. /\ Group(VarintOf[k], 1) = k % 128 /\ Group(VarintOf[l], 1) = l % 128
      /\ Group(VarintOf[p], 1) = p % 128 /\ Group(VarintOf[q], 1) = q % 128
  BY <1>1, <1>3
<1>9. /\ Group(v, 2) = k % 128 /\ Group(v, 3) = l % 128
      /\ Group(v, 4) = p % 128 /\ Group(v, 5) = q % 128
  <2> HIDE DEF k, l, p, q
  <2> QED
    BY <1>4, <1>5, <1>6, <1>7, <1>8
<1>10. /\ n % 128 \in Nat /\ k % 128 \in Nat /\ l % 128 \in Nat
       /\ p % 128 \in Nat /\ q % 128 \in Nat
  BY <1>1
<1>11. /\ q < 8
       /\ n = (n % 128) + 128 * k /\ k = (k % 128) + 128 * l
       /\ l = (l % 128) + 128 * p /\ p = (p % 128) + 128 * q
  BY MaxInt32Value, SMT
<1>12. q % 128 = q /\ q % 16 = q /\ q % 8 = q
  <2> HIDE DEF q
  <2> QED
    BY <1>1, <1>11, SMT
<1> HIDE DEF k, l, p, q, v
<1>13. ToInt32(v) = (n % 128) + 128 * (k % 128) + 16384 * (l % 128) + 2097152 * (p % 128)
                      + 268435456 * q
  <2>1. ~ (q >= 8)
    BY <1>1, <1>11, SMT
  <2> QED
    BY <1>2, <1>9, <1>12, <2>1, SMT DEF ToInt32
<1>14. ToInt32(v) = n
  BY <1>1, <1>10, <1>11, <1>13, SMT
<1> QED
  BY <1>14 DEF v

(* A negative number takes ten bytes. *)
LEMMA NegativeVarint ==
  ASSUME NEW n \in Int32, n < 0
  PROVE  IsVarintOf(Varint(n), n)
<1>1. n \in Int /\ -MaxInt32 - 1 <= n
  BY Int32Elements
<1> DEFINE w(i) == IF i = 10 THEN 1
                   ELSE IF i > 5 THEN 255 ELSE 128 + ((n \div Weight[i]) % 128)
           v == [i \in 1 .. 10 |-> w(i)]
<1>2. Varint(n) = v
  BY <1>1, SMT DEF Varint
<1>3. /\ Weight[1] = 1 /\ Weight[2] = 128 /\ Weight[3] = 16384
      /\ Weight[4] = 2097152 /\ Weight[5] = 268435456
  BY SMT DEF Weight
<1>4. \A i \in 1 .. 10 : w(i) \in Byte /\ (w(i) < 128 <=> i = 10)
  <2>1. \A i \in 1 .. 5 : Weight[i] \in Nat \ {0}
    BY <1>3, SMT
  <2>2. \A i \in 1 .. 5 : n \div Weight[i] \in Int
    BY <2>1, <1>1, SMT
  <2>3. \A i \in 1 .. 5 : w(i) >= 128 /\ w(i) < 256 /\ w(i) \in Int
    BY <2>2, SMT
  <2>4. \A i \in 6 .. 9 : w(i) = 255
    BY SMT
  <2>5. w(10) = 1
    BY SMT
  <2> HIDE DEF w
  <2> QED
    BY <2>3, <2>4, <2>5, ByteElements, SMT
<1>5. v \in Seq(Byte) /\ Len(v) = 10 /\ \A i \in 1 .. 10 : v[i] = w(i)
  <2> HIDE DEF w
  <2> QED
    BY <1>4
<1>6. VarintSize(n) = 10
  BY SMT DEF VarintSize
<1> DEFINE a == n % 128
           b == (n \div 128) % 128
           c == (n \div 16384) % 128
           d == (n \div 2097152) % 128
           e == (n \div 268435456) % 128
<1>7. /\ Group(v, 1) = a /\ Group(v, 2) = b /\ Group(v, 3) = c
      /\ Group(v, 4) = d /\ Group(v, 5) = e
  <2>1. w(1) = 128 + a /\ w(2) = 128 + b /\ w(3) = 128 + c /\ w(4) = 128 + d /\ w(5) = 128 + e
    BY <1>1, <1>3, SMT
  <2>2. \A k \in Int : (128 + (k % 128)) % 128 = k % 128
    BY SMT
  <2>3. /\ n \div 128 \in Int /\ n \div 16384 \in Int /\ n \div 2097152 \in Int
        /\ n \div 268435456 \in Int
    BY <1>1, SMT
  <2>4. /\ (128 + a) % 128 = a /\ (128 + b) % 128 = b /\ (128 + c) % 128 = c
        /\ (128 + d) % 128 = d /\ (128 + e) % 128 = e
    BY <1>1, <2>2, <2>3, SMT
  <2> HIDE DEF a, b, c, d, e, w, v
  <2>5. \A i \in 1 .. 5 : Group(v, i) = w(i) % 128
    BY <1>5, SMT DEF Group
  <2> QED
    BY <2>1, <2>4, <2>5, SMT
<1>8. a \in Nat /\ b \in Nat /\ c \in Nat /\ d \in Nat /\ e \in Nat
  BY <1>1, SMT
<1>9. e % 16 >= 8 /\ e % 8 = n \div 268435456 + 8
  BY <1>1, MaxInt32Value, SMT
<1>10. a + 128 * b + 16384 * c + 2097152 * d + 268435456 * (n \div 268435456) = n
  BY <1>1, SMT
<1>11. ToInt32(v) = n
  <2> HIDE DEF a, b, c, d, e, v
  <2> DEFINE low == a + 128 * b + 16384 * c + 2097152 * d + 268435456 * (e % 8)
  <2>1. ToInt32(v) = (low - 1073741824) - 1073741824
    <3>1. Group(v, 5) % 16 >= 8 /\ Group(v, 5) % 8 = e % 8
      BY <1>7, <1>9
    <3> QED
      BY <1>7, <3>1, SMT DEF ToInt32
  <2>2. 268435456 * (n \div 268435456 + 8) = 268435456 * (n \div 268435456) + 2147483648
    BY <1>1, SMT
  <2>3. low = n + 2147483648
    BY <1>1, <1>8, <1>9, <1>10, <2>2, SMT
  <2> HIDE DEF low
  <2> QED
    BY <1>1, <2>1, <2>3, SMT
<1> HIDE DEF v, w
<1>12. IsVarintOf(v, n)
  BY <1>4, <1>5, <1>6, <1>11 DEF IsVarintOf
<1> QED
  BY <1>2, <1>12

LEMMA VarintIs ==
  ASSUME NEW n \in Int32
  PROVE  IsVarintOf(Varint(n), n)
<1>1. n \in Int /\ n <= MaxInt32
  BY Int32Elements
<1>2. CASE n < 0
  BY <1>2, NegativeVarint
<1>3. CASE n >= 0
  <2>1. n \in Nat /\ Varint(n) = VarintOf[n]
    BY <1>1, <1>3 DEF Varint
  <2>2. VarintOf[n] \in Seq(Byte) /\ Len(VarintOf[n]) \in Nat /\ Len(VarintOf[n]) >= 1
    BY <2>1, VarintStep
  <2>3. Len(VarintOf[n]) = VarintSize(n) /\ VarintSize(n) <= 5
    BY <1>1, <2>1, VarintLength, VarintSizes, SMT
  <2> QED
    BY <1>1, <2>1, <2>2, <2>3, VarintShape, VarintValue DEF IsVarintOf
<1> QED
  BY <1>1, <1>2, <1>3

LEMMA ToInt32Type ==
  ASSUME NEW v \in Seq(Byte)
  PROVE  ToInt32(v) \in Int32
<1>1. \A i \in Nat \ {0} : Group(v, i) \in Nat /\ Group(v, i) < 128
  <2> TAKE i \in Nat \ {0}
  <2>1. CASE i <= Len(v)
    <3>1. v[i] \in Nat
      BY <2>1, ByteElements
    <3> QED
      BY <2>1, <3>1 DEF Group
  <2>2. CASE ~ (i <= Len(v))
    BY <2>2 DEF Group
  <2> QED
    BY <2>1, <2>2
<1> DEFINE a == Group(v, 1)
           b == Group(v, 2)
           c == Group(v, 3)
           d == Group(v, 4)
           e == Group(v, 5)
           low == a + 128 * b + 16384 * c + 2097152 * d + 268435456 * (e % 8)
<1>2. /\ a \in Nat /\ b \in Nat /\ c \in Nat /\ d \in Nat /\ e \in Nat
      /\ a < 128 /\ b < 128 /\ c < 128 /\ d < 128
  BY <1>1, SMT
<1>3. ToInt32(v) = low \/ ToInt32(v) = (low - 1073741824) - 1073741824
  BY SMT DEF ToInt32
<1> HIDE DEF a, b, c, d, e
<1>4. low \in Nat /\ low <= 2147483647
  BY <1>2, SMT
<1> HIDE DEF low
<1>5. MaxInt32 = 2147483647
  BY MaxInt32Value, SMT
<1>6. /\ ToInt32(v) \in Int
      /\ -2147483647 - 1 <= ToInt32(v) /\ ToInt32(v) <= 2147483647
  BY <1>3, <1>4, SMT
<1>7. /\ ToInt32(v) \in Int
      /\ -MaxInt32 - 1 <= ToInt32(v) /\ ToInt32(v) <= MaxInt32
  BY <1>5, <1>6, SMT
<1> QED
  BY <1>7, Int32Elements

-----------------------------------------------------------------------------
(* The first field of some bytes, and the fields of all of them.           *)

LEMMA VarintEndIs ==
  ASSUME NEW bytes \in Seq(Byte), NEW i \in Nat \ {0}, NEW e \in i .. Len(bytes),
         e < i + 10, bytes[e] < 128, \A j \in i .. e - 1 : ~ (bytes[j] < 128)
  PROVE  VarintEnd(bytes, i) = e
<1> DEFINE ends == {j \in i .. Len(bytes) : j < i + 10 /\ bytes[j] < 128}
<1>1. e \in ends
  OBVIOUS
<1>2. \A j \in ends : e <= j
  OBVIOUS
<1>3. ends \subseteq Nat /\ e \in Nat
  OBVIOUS
<1>4. VarintEnd(bytes, i) = CHOOSE j \in ends : \A k \in ends : j <= k
  BY <1>1 DEF VarintEnd
<1> HIDE DEF ends
<1>5. \A j \in ends : (\A k \in ends : j <= k) => j = e
  BY <1>1, <1>2, <1>3
<1> QED
  BY <1>1, <1>2, <1>4, <1>5

LEMMA VarintEndFacts ==
  ASSUME NEW bytes \in Seq(Byte), NEW i \in Nat \ {0}, VarintEnd(bytes, i) # 0
  PROVE  LET e == VarintEnd(bytes, i)
         IN  /\ e \in i .. Len(bytes) /\ e < i + 10 /\ bytes[e] < 128
             /\ \A j \in i .. e - 1 : ~ (bytes[j] < 128)
<1> DEFINE ends == {j \in i .. Len(bytes) : j < i + 10 /\ bytes[j] < 128}
<1>1. ends # {} /\ VarintEnd(bytes, i) = CHOOSE j \in ends : \A k \in ends : j <= k
  BY DEF VarintEnd
<1>2. ends \subseteq Nat
  OBVIOUS
<1>3. \E j \in ends : \A k \in ends : j <= k
  <2> HIDE DEF ends
  <2> QED
    BY <1>1, <1>2, LeastNatural
<1>4. PICK e \in ends : e = VarintEnd(bytes, i) /\ \A k \in ends : e <= k
  BY <1>1, <1>3
<1>5. \A j \in i .. e - 1 : ~ (bytes[j] < 128)
  BY <1>4
<1> QED
  BY <1>4, <1>5

LEMMA VarintEndOfFront ==
  ASSUME NEW s \in Seq(Byte), NEW t \in Seq(Byte), NEW i \in Nat \ {0}, VarintEnd(s, i) # 0
  PROVE  VarintEnd(s \o t, i) = VarintEnd(s, i)
<1>1. s \o t \in Seq(Byte) /\ Len(s \o t) = Len(s) + Len(t) /\ Len(s) \in Nat /\ Len(t) \in Nat
  BY ConcatProperties, LenProperties
<1>2. \A j \in 1 .. Len(s) : (s \o t)[j] = s[j]
  OBVIOUS
<1>3. PICK e \in i .. Len(s) : /\ e = VarintEnd(s, i) /\ e < i + 10 /\ s[e] < 128
                               /\ \A j \in i .. e - 1 : ~ (s[j] < 128)
  BY VarintEndFacts
<1>4. e \in i .. Len(s \o t) /\ (s \o t)[e] < 128
  BY <1>1, <1>2, <1>3
<1>5. \A j \in i .. e - 1 : ~ ((s \o t)[j] < 128)
  BY <1>1, <1>2, <1>3
<1> QED
  BY <1>1, <1>3, <1>4, <1>5, VarintEndIs

(* The parts of a field: where its tag ends and what that is, and where    *)
(* the number after it ends and what that is.                              *)
TagEnd(bytes) == VarintEnd(bytes, 1)
TagOf(bytes) == ToInt32(SubSeq(bytes, 1, TagEnd(bytes)))
NumberEnd(bytes) == VarintEnd(bytes, TagEnd(bytes) + 1)
NumberOf(bytes) == ToInt32(SubSeq(bytes, TagEnd(bytes) + 1, NumberEnd(bytes)))

FieldOf(bytes, value, to) ==
  [number |-> TagOf(bytes) \div 8, type |-> TagOf(bytes) % 8,
   value |-> value, bytes |-> SubSeq(bytes, 1, to)]

LEMMA FirstFieldDef ==
  ASSUME NEW bytes
  PROVE  FirstField(bytes) =
           IF TagEnd(bytes) = 0 \/ NumberEnd(bytes) = 0 \/ TagOf(bytes) < 8 THEN Cut
           ELSE IF TagOf(bytes) % 8 = VarintType
           THEN FieldOf(bytes, NumberOf(bytes), NumberEnd(bytes))
           ELSE IF TagOf(bytes) % 8 = ChunkType
                     /\ NumberOf(bytes) \in 0 .. Len(bytes) - NumberEnd(bytes)
           THEN FieldOf(bytes, SubSeq(bytes, NumberEnd(bytes) + 1,
                                      NumberEnd(bytes) + NumberOf(bytes)),
                        NumberEnd(bytes) + NumberOf(bytes))
           ELSE Cut
<1>1. FirstField(bytes) = IF TagEnd(bytes) = 0 \/ NumberEnd(bytes) = 0 THEN Cut
                          ELSE FieldAt(bytes, TagOf(bytes), NumberOf(bytes), NumberEnd(bytes))
  BY Zenon DEF FirstField, TagEnd, TagOf, NumberEnd, NumberOf
<1>2. FieldAt(bytes, TagOf(bytes), NumberOf(bytes), NumberEnd(bytes)) =
        IF TagOf(bytes) < 8 THEN Cut
        ELSE IF TagOf(bytes) % 8 = VarintType
        THEN FieldOf(bytes, NumberOf(bytes), NumberEnd(bytes))
        ELSE IF TagOf(bytes) % 8 = ChunkType
                  /\ NumberOf(bytes) \in 0 .. Len(bytes) - NumberEnd(bytes)
        THEN FieldOf(bytes, SubSeq(bytes, NumberEnd(bytes) + 1,
                                   NumberEnd(bytes) + NumberOf(bytes)),
                     NumberEnd(bytes) + NumberOf(bytes))
        ELSE Cut
  BY Zenon DEF FieldAt, FieldOf
<1> QED
  BY <1>1, <1>2, Zenon

LEMMA PartsTyped ==
  ASSUME NEW bytes \in Seq(Byte), TagEnd(bytes) # 0, NumberEnd(bytes) # 0
  PROVE  /\ TagEnd(bytes) \in 1 .. Len(bytes)
         /\ NumberEnd(bytes) \in TagEnd(bytes) + 1 .. Len(bytes)
         /\ TagOf(bytes) \in Int32 /\ NumberOf(bytes) \in Int32
<1> DEFINE t == TagEnd(bytes)
           l == NumberEnd(bytes)
<1>0. Len(bytes) \in Nat
  BY LenProperties
<1>1. t \in 1 .. Len(bytes)
  BY VarintEndFacts DEF TagEnd
<1>2. l \in t + 1 .. Len(bytes)
  <2>1. t + 1 \in Nat \ {0}
    BY <1>1
  <2> QED
    BY <2>1, VarintEndFacts DEF NumberEnd
<1>3. TagOf(bytes) \in Int32
  <2>1. SubSeq(bytes, 1, t) \in Seq(Byte)
    BY <1>0, <1>1, PieceType
  <2> QED
    BY <2>1, ToInt32Type DEF TagOf
<1>4. NumberOf(bytes) \in Int32
  <2> HIDE DEF t, l
  <2>1. t + 1 \in Nat \ {0} /\ l \in 0 .. Len(bytes)
    BY <1>0, <1>1, <1>2
  <2>2. SubSeq(bytes, t + 1, l) \in Seq(Byte)
    BY <2>1, PieceType
  <2> QED
    BY <2>2, ToInt32Type DEF NumberOf, t, l
<1> QED
  BY <1>1, <1>2, <1>3, <1>4

LEMMA PartsOfFront ==
  ASSUME NEW s \in Seq(Byte), NEW r \in Seq(Byte), TagEnd(s) # 0, NumberEnd(s) # 0
  PROVE  /\ TagEnd(s \o r) = TagEnd(s) /\ NumberEnd(s \o r) = NumberEnd(s)
         /\ TagOf(s \o r) = TagOf(s) /\ NumberOf(s \o r) = NumberOf(s)
<1>1. /\ TagEnd(s) \in 1 .. Len(s) /\ NumberEnd(s) \in TagEnd(s) + 1 .. Len(s)
      /\ Len(s) \in Nat
  BY PartsTyped, LenProperties
<1>2. TagEnd(s \o r) = TagEnd(s)
  BY VarintEndOfFront DEF TagEnd
<1>3. NumberEnd(s \o r) = NumberEnd(s)
  <2>1. TagEnd(s) + 1 \in Nat \ {0}
    BY <1>1
  <2> QED
    BY <1>2, <2>1, VarintEndOfFront DEF NumberEnd
<1>4. TagOf(s \o r) = TagOf(s)
  <2>1. TagEnd(s) \in 0 .. Len(s)
    BY <1>1
  <2>2. SubSeq(s \o r, 1, TagEnd(s)) = SubSeq(s, 1, TagEnd(s))
    BY <2>1, PieceOfFront
  <2> QED
    BY <1>2, <2>2 DEF TagOf
<1>5. NumberOf(s \o r) = NumberOf(s)
  <2>1. NumberEnd(s) \in 0 .. Len(s) /\ TagEnd(s) + 1 \in Nat \ {0}
    BY <1>1
  <2>2. SubSeq(s \o r, TagEnd(s) + 1, NumberEnd(s)) = SubSeq(s, TagEnd(s) + 1, NumberEnd(s))
    BY <2>1, PieceOfFront
  <2> QED
    BY <1>2, <1>3, <2>2 DEF NumberOf
<1> QED
  BY <1>2, <1>3, <1>4, <1>5

(* A string whose length is an int32. *)
Short(string) == string \in Seq(Byte) /\ Len(string) <= MaxInt32

(* What a field that is not cut off is. *)
IsField(field) ==
  /\ field.number \in Nat \ {0} /\ field.type \in {VarintType, ChunkType}
  /\ field.bytes \in Seq(Byte) /\ field.bytes # <<>>
  /\ field.type = VarintType => field.value \in Int32
  /\ field.type = ChunkType => Short(field.value)

LEMMA FirstFieldFacts ==
  ASSUME NEW s \in Seq(Byte), FirstField(s).number # 0
  PROVE  /\ IsField(FirstField(s))
         /\ Len(FirstField(s).bytes) \in 1 .. Len(s)
         /\ FirstField(s).bytes = SubSeq(s, 1, Len(FirstField(s).bytes))
         /\ \A r \in Seq(Byte) : FirstField(s \o r) = FirstField(s)
<1> DEFINE t == TagEnd(s)
           l == NumberEnd(s)
           tag == TagOf(s)
           n == NumberOf(s)
<1>1. ~ (t = 0 \/ l = 0 \/ tag < 8)
  <2> SUFFICES ASSUME t = 0 \/ l = 0 \/ tag < 8 PROVE FALSE
    OBVIOUS
  <2>1. FirstField(s) = Cut
    BY FirstFieldDef
  <2> QED
    BY <2>1 DEF Cut
<1>2. /\ t \in 1 .. Len(s) /\ l \in t + 1 .. Len(s) /\ Len(s) \in Nat
      /\ tag \in Int32 /\ n \in Int32
  BY <1>1, PartsTyped, LenProperties
<1>3. tag \in Int /\ n \in Int /\ tag >= 8
  BY <1>1, <1>2, Int32Elements
<1>4. tag \div 8 \in Nat \ {0}
  BY <1>3
<1>5. ASSUME NEW v, NEW to \in l .. Len(s)
      PROVE  /\ FieldOf(s, v, to).number \in Nat \ {0}
             /\ FieldOf(s, v, to).type = tag % 8 /\ FieldOf(s, v, to).value = v
             /\ FieldOf(s, v, to).bytes \in Seq(Byte) /\ FieldOf(s, v, to).bytes # <<>>
             /\ Len(FieldOf(s, v, to).bytes) = to /\ to \in 1 .. Len(s)
             /\ FieldOf(s, v, to).bytes = SubSeq(s, 1, to)
             /\ \A r \in Seq(Byte) : FieldOf(s \o r, v, to) = FieldOf(s, v, to)
  <2>1. to \in 1 .. Len(s) /\ to \in 0 .. Len(s)
    BY <1>2
  <2>2. SubSeq(s, 1, to) \in Seq(Byte) /\ Len(SubSeq(s, 1, to)) = to
    BY <2>1, PieceType
  <2>3. \A r \in Seq(Byte) : SubSeq(s \o r, 1, to) = SubSeq(s, 1, to)
    BY <2>1, PieceOfFront
  <2>4. \A r \in Seq(Byte) : TagOf(s \o r) = TagOf(s)
    BY <1>1, PartsOfFront
  <2>5. SubSeq(s, 1, to) # <<>>
    BY <2>1, <2>2
  <2> QED
    BY <1>4, <2>1, <2>2, <2>3, <2>4, <2>5 DEF FieldOf
<1>6. \A r \in Seq(Byte) : /\ TagEnd(s \o r) = t /\ NumberEnd(s \o r) = l
                           /\ TagOf(s \o r) = tag /\ NumberOf(s \o r) = n
  BY <1>1, PartsOfFront
<1> HIDE DEF t, l, tag, n
<1>7. CASE tag % 8 = VarintType
  <2>1. FirstField(s) = FieldOf(s, n, l)
    BY <1>1, <1>7, FirstFieldDef DEF t, l, tag, n
  <2>2. \A r \in Seq(Byte) : FirstField(s \o r) = FieldOf(s \o r, n, l)
    <3> TAKE r \in Seq(Byte)
    <3>1. /\ TagEnd(s \o r) = t /\ NumberEnd(s \o r) = l
          /\ TagOf(s \o r) = tag /\ NumberOf(s \o r) = n
      BY <1>6
    <3> QED
      BY <3>1, <1>1, <1>7, FirstFieldDef
  <2>3. l \in l .. Len(s)
    BY <1>2
  <2>4. VarintType # ChunkType
    BY DEF VarintType, ChunkType
  <2> QED
    BY <1>2, <1>5, <1>7, <2>1, <2>2, <2>3, <2>4 DEF IsField
<1>8. CASE ~ (tag % 8 = VarintType)
  <2>1. tag % 8 = ChunkType /\ n \in 0 .. Len(s) - l
    <3> SUFFICES ASSUME ~ (tag % 8 = ChunkType /\ n \in 0 .. Len(s) - l) PROVE FALSE
      OBVIOUS
    <3>1. FirstField(s) = Cut
      BY <1>8, FirstFieldDef DEF t, l, tag, n
    <3> QED
      BY <3>1 DEF Cut
  <2> DEFINE v == SubSeq(s, l + 1, l + n)
  <2>2. FirstField(s) = FieldOf(s, v, l + n)
    BY <1>1, <1>8, <2>1, FirstFieldDef, Zenon DEF t, l, tag, n
  <2>3. l + n \in l .. Len(s) /\ l + 1 \in Nat \ {0} /\ l + n \in 0 .. Len(s)
    BY <1>2, <1>3, <2>1
  <2>4. Short(v)
    <3>1. v \in Seq(Byte) /\ Len(v) = IF l + 1 <= l + n THEN (l + n) - (l + 1) + 1 ELSE 0
      BY <2>3, PieceType
    <3> HIDE DEF v
    <3>2. n <= MaxInt32 /\ n \in Nat
      BY <1>2, <2>1, Int32Elements
    <3>3. Len(v) = n
      BY <1>2, <3>1, <3>2
    <3> QED
      BY <3>1, <3>2, <3>3 DEF Short
  <2>5. \A r \in Seq(Byte) : SubSeq(s \o r, l + 1, l + n) = v
    BY <2>3, PieceOfFront
  <2> HIDE DEF v
  <2>6. \A r \in Seq(Byte) : FirstField(s \o r) = FieldOf(s \o r, v, l + n)
    <3> TAKE r \in Seq(Byte)
    <3>1. /\ TagEnd(s \o r) = t /\ NumberEnd(s \o r) = l
          /\ TagOf(s \o r) = tag /\ NumberOf(s \o r) = n
      BY <1>6
    <3>2. n \in 0 .. Len(s \o r) - l
      BY <1>2, <2>1
    <3>3. FirstField(s \o r) = FieldOf(s \o r, SubSeq(s \o r, l + 1, l + n), l + n)
      BY <3>1, <3>2, <1>1, <1>8, <2>1, FirstFieldDef, Zenon
    <3> QED
      BY <3>3, <2>5
  <2>7. VarintType # ChunkType
    BY DEF VarintType, ChunkType
  <2> QED
    BY <1>5, <1>8, <2>1, <2>2, <2>3, <2>4, <2>6, <2>7 DEF IsField
<1> QED
  BY <1>7, <1>8

(* A tag of one byte and a number, whatever follows. *)
LEMMA TaggedNumber ==
  ASSUME NEW t \in 0 .. 127, NEW n \in Int32, NEW r \in Seq(Byte)
  PROVE  LET v == Varint(n)
             s == <<t>> \o v
         IN  /\ s \in Seq(Byte) /\ s \o r \in Seq(Byte) /\ Len(s) = 1 + Len(v)
             /\ Len(v) \in 1 .. 10
             /\ TagEnd(s \o r) = 1 /\ TagOf(s \o r) = t
             /\ NumberEnd(s \o r) = Len(s) /\ NumberOf(s \o r) = n
<1> DEFINE v == Varint(n)
           s == <<t>> \o v
<1>1. IsVarintOf(v, n)
  BY VarintIs
<1>2. /\ v \in Seq(Byte) /\ Len(v) \in 1 .. 10
      /\ \A i \in 1 .. Len(v) : v[i] < 128 <=> i = Len(v)
      /\ ToInt32(v) = n
  BY <1>1 DEF IsVarintOf
<1> HIDE DEF v
<1>3. <<t>> \in Seq(Byte) /\ Len(<<t>>) = 1 /\ <<t>>[1] = t
  BY ByteElements
<1>4. /\ s \in Seq(Byte) /\ Len(s) = 1 + Len(v) /\ s[1] = t
      /\ \A i \in 1 .. Len(v) : s[1 + i] = v[i]
  BY <1>2, <1>3
<1>5. SubSeq(s, 1, 1) = <<t>> /\ SubSeq(s, 2, Len(s)) = v
  <2> DEFINE h == <<t>>
  <2>1. h \in Seq(Byte) /\ Len(h) = 1
    BY <1>3
  <2> HIDE DEF h
  <2>2. SubSeq(h \o v, 1, Len(h)) = h /\ SubSeq(h \o v, Len(h) + 1, Len(h \o v)) = v
    BY <1>2, <2>1, FrontAndRest
  <2> QED
    BY <2>1, <2>2 DEF h
<1> HIDE DEF s
<1>6. TagEnd(s) = 1
  <2>1. 1 \in 1 .. Len(s) /\ s[1] < 128
    BY <1>2, <1>4
  <2> QED
    BY <2>1, <1>4, VarintEndIs DEF TagEnd
<1>7. TagOf(s) = t
  <2>1. t \in Nat /\ t < 128
    OBVIOUS
  <2>2. t <= MaxInt32
    BY <2>1, MaxInt32Value, SMT
  <2>3. VarintOf[t] = <<t>>
    BY <2>1, VarintStep
  <2> QED
    BY <2>1, <2>2, <2>3, <1>5, <1>6, VarintValue DEF TagOf
<1>8. NumberEnd(s) = Len(s)
  <2>1. Len(s) \in 2 .. Len(s) /\ Len(s) < 2 + 10
    <3>1. Len(v) \in 1 .. 10 /\ Len(s) = 1 + Len(v)
      BY <1>2, <1>4
    <3>2. \A i \in 1 .. 10 : 1 + i \in 2 .. 1 + i /\ 1 + i < 2 + 10
      OBVIOUS
    <3> QED
      BY <3>1, <3>2
  <2>2. s[Len(s)] = v[Len(v)] /\ v[Len(v)] < 128
    BY <1>2, <1>4
  <2>3. \A j \in 2 .. Len(s) - 1 : ~ (s[j] < 128)
    <3> TAKE j \in 2 .. Len(s) - 1
    <3>1. j - 1 \in 1 .. Len(v) /\ j - 1 # Len(v) /\ 1 + (j - 1) = j
      BY <1>2, <1>4
    <3>2. s[j] = v[j - 1]
      BY <3>1, <1>4
    <3> QED
      BY <3>1, <3>2, <1>2
  <2>4. VarintEnd(s, 2) = Len(s)
    <3>1. s \in Seq(Byte) /\ 2 \in Nat \ {0} /\ s[Len(s)] < 128
      BY <1>4, <2>2
    <3> QED
      BY <2>1, <2>3, <3>1, VarintEndIs
  <2> QED
    BY <2>4, <1>6 DEF NumberEnd
<1>9. NumberOf(s) = n
  <2>1. TagEnd(s) + 1 = 2
    BY <1>6
  <2> QED
    BY <1>2, <1>5, <1>8, <2>1 DEF NumberOf
<1>10. TagEnd(s) # 0 /\ NumberEnd(s) # 0 /\ s \o r \in Seq(Byte)
  BY <1>2, <1>4, <1>6, <1>8
<1> QED
  BY <1>2, <1>4, <1>6, <1>7, <1>8, <1>9, <1>10, PartsOfFront DEF v, s

(* Of the fields that messages have, a number and a string are read as     *)
(* they were written.                                                      *)
LEMMA FirstOfNumber ==
  ASSUME NEW k \in 1 .. 15, NEW n \in Int32
  PROVE  /\ Number(k, n) \in Seq(Byte) /\ Len(Number(k, n)) = 1 + Len(Varint(n))
         /\ Number(k, n) # <<>>
         /\ FirstField(Number(k, n)) =
              [number |-> k, type |-> VarintType, value |-> n, bytes |-> Number(k, n)]
<1> DEFINE t == 8 * k + VarintType
           s == <<t>> \o Varint(n)
<1>1. t \in 0 .. 127 /\ t \div 8 = k /\ t % 8 = VarintType /\ ~ (t < 8)
  BY DEF VarintType
<1>2. Number(k, n) = s
  BY DEF Number
<1>3. <<>> \in Seq(Byte)
  OBVIOUS
<1> HIDE DEF t
<1>4. /\ s \in Seq(Byte) /\ Len(s) = 1 + Len(Varint(n)) /\ Len(Varint(n)) \in 1 .. 10
      /\ TagEnd(s \o <<>>) = 1 /\ TagOf(s \o <<>>) = t
      /\ NumberEnd(s \o <<>>) = Len(s) /\ NumberOf(s \o <<>>) = n
  BY <1>1, <1>3, TaggedNumber
<1> HIDE DEF s
<1>5. s \o <<>> = s
  BY <1>4
<1>6. TagEnd(s) = 1 /\ TagOf(s) = t /\ NumberEnd(s) = Len(s) /\ NumberOf(s) = n /\ Len(s) # 0
  BY <1>4, <1>5
<1>7. FirstField(s) = FieldOf(s, n, Len(s))
  BY <1>1, <1>6, FirstFieldDef
<1>8. SubSeq(s, 1, Len(s)) = s
  BY <1>4, SubSeqFull
<1>9. s # <<>>
  BY <1>6
<1> QED
  BY <1>1, <1>2, <1>4, <1>6, <1>7, <1>8, <1>9 DEF FieldOf

LEMMA FirstOfChunk ==
  ASSUME NEW k \in 1 .. 15, NEW string \in Seq(Byte), Len(string) <= MaxInt32
  PROVE  /\ Chunk(k, string) \in Seq(Byte) /\ Chunk(k, string) # <<>>
         /\ Len(Chunk(k, string)) = 1 + StringSize(string)
         /\ FirstField(Chunk(k, string)) =
              [number |-> k, type |-> ChunkType, value |-> string, bytes |-> Chunk(k, string)]
<1> DEFINE t == 8 * k + ChunkType
           n == Len(string)
           s == <<t>> \o Varint(n)
           c == s \o string
<1>1. t \in 0 .. 127 /\ t \div 8 = k /\ t % 8 = ChunkType /\ ~ (t < 8) /\ ~ (t % 8 = VarintType)
  BY DEF ChunkType, VarintType
<1>2. Chunk(k, string) = c
  BY DEF Chunk
<1>3. n \in Int32 /\ n \in Nat
  BY LenProperties, MaxInt32Type, Int32Elements
<1> HIDE DEF t, n
<1>4. /\ s \in Seq(Byte) /\ c \in Seq(Byte)
      /\ Len(s) = 1 + Len(Varint(n)) /\ Len(Varint(n)) \in 1 .. 10
      /\ TagEnd(c) = 1 /\ TagOf(c) = t /\ NumberEnd(c) = Len(s) /\ NumberOf(c) = n
  BY <1>1, <1>3, TaggedNumber
<1>5. Len(Varint(n)) = VarintSize(n)
  BY <1>3, VarintIs DEF IsVarintOf
<1> HIDE DEF s
<1>6. Len(c) = Len(s) + n /\ Len(s) \in Nat /\ Len(s) # 0
  BY <1>4 DEF n
<1>7. SubSeq(c, Len(s) + 1, Len(s) + n) = string
  BY <1>4, <1>6, FrontAndRest
<1> HIDE DEF c
<1>8. n \in 0 .. Len(c) - Len(s)
  BY <1>3, <1>6
<1>9. FirstField(c) = FieldOf(c, string, Len(c))
  <2>1. ~ (TagEnd(c) = 0 \/ NumberEnd(c) = 0 \/ TagOf(c) < 8)
    BY <1>1, <1>4, <1>6
  <2>2. /\ TagOf(c) % 8 = ChunkType /\ ~ (TagOf(c) % 8 = VarintType)
        /\ NumberOf(c) \in 0 .. Len(c) - NumberEnd(c)
    BY <1>1, <1>4, <1>8
  <2>3. FirstField(c) = FieldOf(c, SubSeq(c, NumberEnd(c) + 1, NumberEnd(c) + NumberOf(c)),
                                NumberEnd(c) + NumberOf(c))
    BY <2>1, <2>2, FirstFieldDef, Zenon
  <2> QED
    BY <2>3, <1>4, <1>6, <1>7
<1>10. SubSeq(c, 1, Len(c)) = c
  BY <1>4, SubSeqFull
<1>11. Len(c) = 1 + StringSize(string) /\ Len(c) # 0
  BY <1>3, <1>4, <1>5, <1>6 DEF StringSize, n
<1>12. c # <<>>
  BY <1>11
<1> QED
  BY <1>1, <1>2, <1>4, <1>9, <1>10, <1>11, <1>12 DEF FieldOf

(* The bytes of a field are read as this field. *)
LEMMA VarintEndOfPiece ==
  ASSUME NEW s \in Seq(Byte), NEW k \in 0 .. Len(s), NEW i \in Nat \ {0},
         VarintEnd(s, i) # 0, VarintEnd(s, i) <= k
  PROVE  VarintEnd(SubSeq(s, 1, k), i) = VarintEnd(s, i)
<1> DEFINE p == SubSeq(s, 1, k)
<1>1. Len(s) \in Nat
  BY LenProperties
<1>2. p \in Seq(Byte) /\ Len(p) = k /\ \A j \in 1 .. k : p[j] = s[j]
  BY <1>1, Split, PieceType
<1> HIDE DEF p
<1>3. PICK e \in i .. Len(s) : /\ e = VarintEnd(s, i) /\ e < i + 10 /\ s[e] < 128
                               /\ \A j \in i .. e - 1 : ~ (s[j] < 128)
  BY VarintEndFacts
<1>4. e \in i .. Len(p) /\ p[e] < 128
  BY <1>1, <1>2, <1>3
<1>5. \A j \in i .. e - 1 : ~ (p[j] < 128)
  BY <1>1, <1>2, <1>3
<1>6. VarintEnd(p, i) = e
  BY <1>2, <1>3, <1>4, <1>5, VarintEndIs
<1> QED
  BY <1>3, <1>6 DEF p

LEMMA FirstOfItsBytes ==
  ASSUME NEW s \in Seq(Byte), FirstField(s).number # 0
  PROVE  FirstField(FirstField(s).bytes) = FirstField(s)
<1> DEFINE k == Len(FirstField(s).bytes)
           p == SubSeq(s, 1, k)
           r == SubSeq(s, k + 1, Len(s))
           t == TagEnd(s)
           l == NumberEnd(s)
<1>1. /\ k \in 1 .. Len(s) /\ Len(s) \in Nat /\ FirstField(s).bytes = p
      /\ IsField(FirstField(s))
  BY FirstFieldFacts, LenProperties
<1>2. ~ (t = 0 \/ l = 0 \/ TagOf(s) < 8)
  <2> SUFFICES ASSUME t = 0 \/ l = 0 \/ TagOf(s) < 8 PROVE FALSE
    OBVIOUS
  <2>1. FirstField(s) = Cut
    BY FirstFieldDef
  <2> QED
    BY <2>1 DEF Cut
<1>3. /\ t \in 1 .. Len(s) /\ l \in t + 1 .. Len(s)
      /\ TagOf(s) \in Int /\ NumberOf(s) \in Int
  BY <1>2, PartsTyped, Int32Elements
<1>4. \/ /\ TagOf(s) % 8 = VarintType /\ k = l
      \/ /\ ~ (TagOf(s) % 8 = VarintType) /\ TagOf(s) % 8 = ChunkType
         /\ NumberOf(s) \in 0 .. Len(s) - l /\ k = l + NumberOf(s)
  <2>1. ASSUME NEW v, NEW to \in 0 .. Len(s) PROVE Len(FieldOf(s, v, to).bytes) = to
    BY <2>1, Split DEF FieldOf
  <2>2. CASE TagOf(s) % 8 = VarintType
    <3>1. FirstField(s) = FieldOf(s, NumberOf(s), l)
      BY <1>2, <2>2, FirstFieldDef
    <3>2. l \in 0 .. Len(s)
      BY <1>3
    <3> QED
      BY <2>1, <2>2, <3>1, <3>2
  <2>3. CASE ~ (TagOf(s) % 8 = VarintType)
    <3>1. TagOf(s) % 8 = ChunkType /\ NumberOf(s) \in 0 .. Len(s) - l
      <4> SUFFICES ASSUME ~ (TagOf(s) % 8 = ChunkType /\ NumberOf(s) \in 0 .. Len(s) - l)
                   PROVE FALSE
        OBVIOUS
      <4>1. FirstField(s) = Cut
        BY <2>3, FirstFieldDef
      <4> QED
        BY <4>1 DEF Cut
    <3>2. FirstField(s) = FieldOf(s, SubSeq(s, l + 1, l + NumberOf(s)), l + NumberOf(s))
      BY <1>2, <2>3, <3>1, FirstFieldDef, Zenon
    <3>3. l + NumberOf(s) \in 0 .. Len(s)
      BY <1>1, <1>3, <3>1
    <3> QED
      BY <2>1, <2>3, <3>1, <3>2, <3>3
  <2> QED
    BY <2>2, <2>3
<1> HIDE DEF k
<1>5. l <= k /\ t <= k /\ k \in 0 .. Len(s)
  BY <1>1, <1>3, <1>4
<1>6. p \in Seq(Byte) /\ r \in Seq(Byte) /\ s = p \o r /\ Len(p) = k
  BY <1>5, Split
<1>7. TagEnd(p) = t
  BY <1>2, <1>5, VarintEndOfPiece DEF TagEnd
<1>8. NumberEnd(p) = l
  <2>1. t + 1 \in Nat \ {0}
    BY <1>3
  <2> QED
    BY <1>2, <1>5, <1>7, <2>1, VarintEndOfPiece DEF NumberEnd
<1> HIDE DEF p, r
<1>9. TagOf(p) = TagOf(s) /\ NumberOf(p) = NumberOf(s)
  BY <1>2, <1>6, <1>7, <1>8, PartsOfFront
<1> HIDE DEF t, l
<1>10. \E v, to : FirstField(p) = FieldOf(p, v, to)
  <2>1. CASE TagOf(s) % 8 = VarintType
    BY <2>1, <1>2, <1>7, <1>8, <1>9, FirstFieldDef, Zenon
  <2>2. CASE ~ (TagOf(s) % 8 = VarintType)
    <3>1. NumberOf(p) \in 0 .. Len(p) - NumberEnd(p)
      BY <2>2, <1>3, <1>4, <1>6, <1>8, <1>9
    <3>2. ~ (TagOf(p) % 8 = VarintType) /\ TagOf(p) % 8 = ChunkType
      BY <2>2, <1>4, <1>9
    <3>3. ~ (TagEnd(p) = 0 \/ NumberEnd(p) = 0 \/ TagOf(p) < 8)
      BY <1>2, <1>7, <1>8, <1>9
    <3> QED
      BY <3>1, <3>2, <3>3, FirstFieldDef, Zenon
  <2> QED
    BY <2>1, <2>2
<1>11. FirstField(p).number # 0
  BY <1>2, <1>3, <1>9, <1>10 DEF FieldOf
<1> QED
  BY <1>1, <1>6, <1>11, FirstFieldFacts

(* A field that is not cut off, and what follows it. *)
AnyField == {FirstField(s) : s \in Seq(Byte)} \cup {Cut}

Rest(bytes) == SubSeq(bytes, Len(FirstField(bytes).bytes) + 1, Len(bytes))

LEMMA RestFacts ==
  ASSUME NEW s \in Seq(Byte), FirstField(s).number # 0
  PROVE  /\ Rest(s) \in Seq(Byte) /\ Len(Rest(s)) < Len(s)
         /\ s = FirstField(s).bytes \o Rest(s)
<1> DEFINE k == Len(FirstField(s).bytes)
<1>1. k \in 1 .. Len(s) /\ FirstField(s).bytes = SubSeq(s, 1, k) /\ Len(s) \in Nat
  BY FirstFieldFacts, LenProperties
<1> HIDE DEF k
<1>2. k \in 0 .. Len(s)
  BY <1>1
<1> DEFINE p == SubSeq(s, 1, k)
           r == SubSeq(s, k + 1, Len(s))
<1>3. r \in Seq(Byte) /\ Len(r) = Len(s) - k /\ s = p \o r
  BY <1>2, Split
<1>4. Rest(s) = r /\ FirstField(s).bytes = p
  BY <1>1 DEF Rest, k
<1> HIDE DEF p, r
<1>5. Len(r) < Len(s)
  BY <1>1, <1>3
<1> QED
  BY <1>3, <1>4, <1>5, Zenon

LEMMA AnyFieldFacts ==
  ASSUME NEW f \in AnyField, f.number # 0
  PROVE  IsField(f) /\ FirstField(f.bytes) = f
<1>1. f # Cut
  BY DEF Cut
<1>2. PICK s \in Seq(Byte) : f = FirstField(s)
  BY <1>1 DEF AnyField
<1> QED
  BY <1>2, FirstFieldFacts, FirstOfItsBytes

LEMMA FieldsDef ==
  /\ Fields \in [Seq(Byte) -> Seq(AnyField)]
  /\ \A s \in Seq(Byte) :
       Fields[s] = IF s = <<>> THEN <<>>
                   ELSE IF FirstField(s).number = 0 THEN <<Cut>>
                   ELSE <<FirstField(s)>> \o Fields[Rest(s)]
<1> DEFINE D == Seq(Byte)
           m == [s \in D |-> Len(s)]
           B == {s \in D : s = <<>> \/ FirstField(s).number = 0}
           base == [s \in B |-> IF s = <<>> THEN <<>> ELSE <<Cut>>]
           next == [s \in D \ B |-> Rest(s)]
           step == [s \in D \ B |-> [t \in Seq(AnyField) |-> <<FirstField(s)>> \o t]]
<1>1. m \in [D -> Nat] /\ B \subseteq D
  BY LenProperties
<1>2. Cut \in AnyField /\ \A s \in D : FirstField(s) \in AnyField
  BY DEF AnyField
<1>3. base \in [B -> Seq(AnyField)]
  BY <1>2
<1>4. \A s \in D \ B : s \in Seq(Byte) /\ FirstField(s).number # 0 /\ s # <<>>
  OBVIOUS
<1>5. \A s \in D \ B : Rest(s) \in D /\ Len(Rest(s)) < Len(s)
  BY <1>4, RestFacts
<1>6. next \in [D \ B -> D] /\ \A s \in D \ B : m[next[s]] < m[s]
  BY <1>5
<1>7. \A s \in D : \A t \in Seq(AnyField) : <<FirstField(s)>> \o t \in Seq(AnyField)
  <2> TAKE s \in D
  <2> TAKE t \in Seq(AnyField)
  <2>1. <<FirstField(s)>> \in Seq(AnyField)
    BY <1>2
  <2> QED
    BY <2>1, ConcatProperties
<1>8. step \in [D \ B -> [Seq(AnyField) -> Seq(AnyField)]]
  BY <1>7, Zenon
<1>9. IsRecursion(D, Seq(AnyField), m, B, base, next, step)
  <2> HIDE DEF D, m, B, base, next, step
  <2> QED
    BY <1>1, <1>3, <1>6, <1>8 DEF IsRecursion
<1>10. PICK f : /\ f \in [Seq(Byte) -> Seq(AnyField)]
                /\ \A s \in Seq(Byte) :
                     f[s] = IF s = <<>> THEN <<>>
                            ELSE IF FirstField(s).number = 0 THEN <<Cut>>
                            ELSE <<FirstField(s)>> \o f[Rest(s)]
  <2> HIDE DEF m, B, base, next, step
  <2>1. PICK f : Computes(f, D, Seq(AnyField), B, base, next, step)
    BY <1>9, Recursion
  <2>2. f \in [Seq(Byte) -> Seq(AnyField)]
    BY <2>1 DEF Computes
  <2>3. ASSUME NEW s \in Seq(Byte), s = <<>> PROVE f[s] = <<>>
    <3>1. s \in B /\ base[s] = <<>>
      BY <2>3 DEF B, base
    <3> QED
      BY <2>1, <3>1 DEF Computes
  <2>4. ASSUME NEW s \in Seq(Byte), s # <<>>, FirstField(s).number = 0
        PROVE  f[s] = <<Cut>>
    <3>1. s \in B /\ base[s] = <<Cut>>
      BY <2>4 DEF B, base
    <3> QED
      BY <2>1, <3>1 DEF Computes
  <2>5. ASSUME NEW s \in Seq(Byte), s # <<>>, FirstField(s).number # 0
        PROVE  f[s] = <<FirstField(s)>> \o f[Rest(s)]
    <3>1. s \in D \ B /\ next[s] = Rest(s) /\ Rest(s) \in Seq(Byte)
      BY <2>5, <1>5 DEF B, next
    <3>2. step[s] = [t \in Seq(AnyField) |-> <<FirstField(s)>> \o t]
      BY <3>1 DEF step
    <3>3. f[s] = step[s][f[Rest(s)]]
      BY <2>1, <3>1 DEF Computes
    <3>4. f[Rest(s)] \in Seq(AnyField)
      BY <2>2, <3>1
    <3> QED
      BY <3>2, <3>3, <3>4, Zenon
  <2> QED
    BY <2>2, <2>3, <2>4, <2>5
<1>11. \A g : g = [s \in Seq(Byte) |->
                     IF s = <<>> THEN <<>>
                     ELSE LET field == FirstField(s)
                          IN  IF field.number = 0 THEN <<Cut>>
                              ELSE <<field>> \o g[SubSeq(s, Len(field.bytes) + 1, Len(s))]]
              <=> g = [s \in Seq(Byte) |->
                         IF s = <<>> THEN <<>>
                         ELSE IF FirstField(s).number = 0 THEN <<Cut>>
                         ELSE <<FirstField(s)>> \o g[Rest(s)]]
  BY Zenon DEF Rest
<1>12. Fields = [s \in Seq(Byte) |->
                   IF s = <<>> THEN <<>>
                   ELSE IF FirstField(s).number = 0 THEN <<Cut>>
                   ELSE <<FirstField(s)>> \o Fields[Rest(s)]]
  <2>1. f = [s \in Seq(Byte) |->
               IF s = <<>> THEN <<>>
               ELSE IF FirstField(s).number = 0 THEN <<Cut>>
               ELSE <<FirstField(s)>> \o f[Rest(s)]]
    BY <1>10
  <2>2. Fields = [s \in Seq(Byte) |->
                    IF s = <<>> THEN <<>>
                    ELSE LET field == FirstField(s)
                         IN  IF field.number = 0 THEN <<Cut>>
                             ELSE <<field>> \o Fields[SubSeq(s, Len(field.bytes) + 1, Len(s))]]
    <3> SUFFICES \E g : g = [s \in Seq(Byte) |->
                    IF s = <<>> THEN <<>>
                    ELSE LET field == FirstField(s)
                         IN  IF field.number = 0 THEN <<Cut>>
                             ELSE <<field>> \o g[SubSeq(s, Len(field.bytes) + 1, Len(s))]]
      BY Zenon DEF Fields
    <3> QED
      BY <1>11, <2>1, Zenon
  <2> QED
    BY <1>11, <2>2, Zenon
<1>13. \A s \in Seq(Byte) :
         Fields[s] = IF s = <<>> THEN <<>>
                     ELSE IF FirstField(s).number = 0 THEN <<Cut>>
                     ELSE <<FirstField(s)>> \o Fields[Rest(s)]
  BY <1>12, Zenon
<1>14. Fields = [s \in Seq(Byte) |-> Fields[s]]
  BY <1>12, <1>13, Zenon
<1> DEFINE P == {s \in D : Fields[s] = f[s]}
<1>15. ASSUME NEW s \in D, \A k \in D : m[k] < m[s] => k \in P
       PROVE  s \in P
  <2>1. CASE s = <<>>
    BY <2>1, <1>10, <1>13, Zenon
  <2>2. CASE s # <<>> /\ FirstField(s).number = 0
    BY <2>2, <1>10, <1>13, Zenon
  <2>3. CASE s # <<>> /\ FirstField(s).number # 0
    <3>1. Rest(s) \in D /\ Len(Rest(s)) < Len(s)
      BY <2>3, RestFacts
    <3>2. Fields[Rest(s)] = f[Rest(s)]
      BY <3>1, <1>15
    <3>3. /\ Fields[s] = <<FirstField(s)>> \o Fields[Rest(s)]
          /\ f[s] = <<FirstField(s)>> \o f[Rest(s)]
      BY <2>3, <1>10, <1>13, Zenon
    <3> QED
      BY <3>2, <3>3
  <2> QED
    BY <2>1, <2>2, <2>3
<1>16. D \subseteq P
  <2> HIDE DEF m, P, D
  <2> QED
    BY <1>1, <1>15, MeasureInduction, Zenon
<1>17. Fields = f
  <2>1. \A s \in Seq(Byte) : Fields[s] = f[s]
    BY <1>16
  <2>2. f = [s \in Seq(Byte) |-> f[s]]
    BY <1>10
  <2> QED
    BY <1>14, <2>1, <2>2, Zenon
<1> QED
  BY <1>10, <1>17, Zenon

LEMMA FieldsOfNothing == Fields[<<>>] = <<>> /\ AreWhole(<<>>)
<1>1. <<>> \in Seq(Byte)
  OBVIOUS
<1>2. Fields[<<>>] = <<>>
  BY <1>1, FieldsDef, Zenon
<1> QED
  BY <1>2 DEF AreWhole

LEMMA FieldsType ==
  ASSUME NEW s \in Seq(Byte)
  PROVE  Fields[s] \in Seq(AnyField)
BY FieldsDef

LEMMA FieldsStep ==
  ASSUME NEW s \in Seq(Byte), s # <<>>, FirstField(s).number # 0
  PROVE  Fields[s] = <<FirstField(s)>> \o Fields[Rest(s)]
BY FieldsDef, Zenon

LEMMA FieldsOfOne ==
  ASSUME NEW s \in Seq(Byte), s # <<>>, FirstField(s).number # 0, FirstField(s).bytes = s
  PROVE  Fields[s] = <<FirstField(s)>> /\ AreWhole(Fields[s])
<1>1. Rest(s) = <<>>
  <2>1. Len(s) + 1 > Len(s) /\ Len(s) \in Nat
    BY LenProperties
  <2>2. SubSeq(s, Len(s) + 1, Len(s)) = <<>>
    BY <2>1
  <2> QED
    BY <2>2 DEF Rest
<1>2. Fields[s] = <<FirstField(s)>> \o <<>>
  BY <1>1, FieldsStep, FieldsOfNothing
<1>3. Fields[s] = <<FirstField(s)>>
  BY <1>2
<1> QED
  BY <1>3 DEF AreWhole

LEMMA WholeParts ==
  ASSUME NEW fs \in Seq(AnyField), NEW gs \in Seq(AnyField)
  PROVE  AreWhole(fs \o gs) <=> AreWhole(fs) /\ AreWhole(gs)
<1>1. /\ Len(fs \o gs) = Len(fs) + Len(gs) /\ Len(fs) \in Nat /\ Len(gs) \in Nat
      /\ DOMAIN fs = 1 .. Len(fs) /\ DOMAIN gs = 1 .. Len(gs)
      /\ DOMAIN (fs \o gs) = 1 .. Len(fs) + Len(gs)
  OBVIOUS
<1>2. /\ \A i \in 1 .. Len(fs) : (fs \o gs)[i] = fs[i]
      /\ \A i \in 1 .. Len(gs) : (fs \o gs)[Len(fs) + i] = gs[i]
  OBVIOUS
<1>3. ASSUME AreWhole(fs \o gs) PROVE AreWhole(fs) /\ AreWhole(gs)
  <2>1. \A i \in 1 .. Len(fs) : fs[i].number # 0
    BY <1>1, <1>2, <1>3 DEF AreWhole
  <2>2. \A i \in 1 .. Len(gs) : Len(fs) + i \in 1 .. Len(fs) + Len(gs)
    BY <1>1
  <2>3. \A i \in 1 .. Len(gs) : gs[i].number # 0
    BY <1>1, <1>2, <1>3, <2>2 DEF AreWhole
  <2> QED
    BY <1>1, <2>1, <2>3 DEF AreWhole
<1>4. ASSUME AreWhole(fs), AreWhole(gs) PROVE AreWhole(fs \o gs)
  <2> SUFFICES ASSUME NEW i \in 1 .. Len(fs) + Len(gs) PROVE (fs \o gs)[i].number # 0
    BY <1>1 DEF AreWhole
  <2>1. CASE i <= Len(fs)
    BY <2>1, <1>1, <1>2, <1>4 DEF AreWhole
  <2>2. CASE ~ (i <= Len(fs))
    <3>1. i - Len(fs) \in 1 .. Len(gs) /\ Len(fs) + (i - Len(fs)) = i
      BY <2>2, <1>1
    <3>2. (fs \o gs)[i] = gs[i - Len(fs)]
      BY <3>1, <1>2
    <3> QED
      BY <3>1, <3>2, <1>1, <1>4 DEF AreWhole
  <2> QED
    BY <2>1, <2>2
<1> QED
  BY <1>3, <1>4

(* After fields that are not cut off, whatever follows is read from there. *)
LEMMA FieldsConcat ==
  ASSUME NEW a \in Seq(Byte), NEW b \in Seq(Byte), AreWhole(Fields[a])
  PROVE  Fields[a \o b] = Fields[a] \o Fields[b]
<1> DEFINE D == Seq(Byte)
           m == [s \in D |-> Len(s)]
           P == {s \in D : AreWhole(Fields[s]) => Fields[s \o b] = Fields[s] \o Fields[b]}
<1>1. m \in [D -> Nat]
  BY LenProperties
<1>2. ASSUME NEW s \in D, \A t \in D : m[t] < m[s] => t \in P
      PROVE  s \in P
  <2> SUFFICES ASSUME AreWhole(Fields[s]) PROVE Fields[s \o b] = Fields[s] \o Fields[b]
    OBVIOUS
  <2>0. Fields[b] \in Seq(AnyField)
    BY FieldsType
  <2>1. CASE s = <<>>
    <3>1. s \o b = b /\ <<>> \o Fields[b] = Fields[b]
      BY <2>1, <2>0
    <3> QED
      BY <3>1, <2>1, FieldsOfNothing
  <2>2. CASE s # <<>> /\ FirstField(s).number = 0
    <3>1. Fields[s] = <<Cut>>
      BY <2>2, FieldsDef, Zenon
    <3>2. Fields[s][1].number = 0 /\ 1 \in DOMAIN Fields[s]
      BY <3>1 DEF Cut
    <3> QED
      BY <3>2 DEF AreWhole
  <2>3. CASE s # <<>> /\ FirstField(s).number # 0
    <3> DEFINE f == FirstField(s)
               r == Rest(s)
    <3>1. r \in D /\ Len(r) < Len(s) /\ s = f.bytes \o r
      BY <2>3, RestFacts
    <3>2. Fields[s] = <<f>> \o Fields[r] /\ Fields[r] \in Seq(AnyField)
      BY <2>3, <3>1, FieldsStep, FieldsType
    <3>3. <<f>> \in Seq(AnyField)
      BY DEF AnyField
    <3>4. AreWhole(Fields[r])
      <4> HIDE DEF f, r
      <4> QED
        BY <3>2, <3>3, WholeParts
    <3>5. Fields[r \o b] = Fields[r] \o Fields[b]
      BY <3>1, <3>4, <1>2
    <3>6. FirstField(s \o b) = f /\ f.bytes \in Seq(Byte) /\ f.number # 0
      BY <2>3, FirstFieldFacts DEF IsField
    <3>7. s \o b \in Seq(Byte) /\ s \o b # <<>> /\ r \o b \in Seq(Byte)
      <4>1. Len(s) # 0 /\ Len(s) \in Nat /\ Len(b) \in Nat
        BY <2>3
      <4>2. s \o b \in Seq(Byte) /\ Len(s \o b) = Len(s) + Len(b) /\ r \o b \in Seq(Byte)
        BY <3>1, ConcatProperties
      <4> QED
        BY <4>1, <4>2
    <3> HIDE DEF f, r
    <3>8. s \o b = f.bytes \o (r \o b)
      <4>1. f.bytes \in Seq(Byte) /\ r \in Seq(Byte)
        BY <3>1, <3>6
      <4>2. (f.bytes \o r) \o b = f.bytes \o (r \o b)
        <5>1. \A x, y, z \in Seq(Byte) : (x \o y) \o z = x \o (y \o z)
          BY Regroup
        <5> QED
          BY <4>1, <5>1
      <4> QED
        BY <3>1, <4>2, Zenon
    <3>9. Rest(s \o b) = r \o b
      <4> DEFINE w == r \o b
                 p == f.bytes
                 x == s \o b
      <4>1. p \in Seq(Byte) /\ w \in Seq(Byte) /\ x = p \o w
        BY <3>6, <3>7, <3>8
      <4>2. Rest(x) = SubSeq(x, Len(p) + 1, Len(x))
        BY <3>6 DEF Rest
      <4> HIDE DEF w, p, x
      <4>3. Rest(x) = w
        BY <4>1, <4>2, FrontAndRest
      <4> QED
        BY <4>3 DEF w, x
    <3>10. Fields[s \o b] = <<f>> \o (Fields[r] \o Fields[b])
      <4>1. Fields[s \o b] = <<FirstField(s \o b)>> \o Fields[Rest(s \o b)]
        BY <3>6, <3>7, FieldsStep, Zenon
      <4> QED
        BY <4>1, <3>5, <3>6, <3>9
    <3>11. (<<f>> \o Fields[r]) \o Fields[b] = <<f>> \o (Fields[r] \o Fields[b])
      <4>1. Fields[r] \in Seq(AnyField)
        BY <3>2
      <4> QED
        <5>1. \A x, y, z \in Seq(AnyField) : (x \o y) \o z = x \o (y \o z)
          BY Regroup
        <5> QED
          BY <2>0, <3>3, <4>1, <5>1
    <3> QED
      BY <3>2, <3>10, <3>11
  <2> QED
    BY <2>1, <2>2, <2>3
<1>3. D \subseteq P
  <2> HIDE DEF m, P, D
  <2> QED
    BY <1>1, <1>2, MeasureInduction, Zenon
<1> QED
  BY <1>3

-----------------------------------------------------------------------------
(* Sequences of sequences put together.                                    *)

(* Induction along the length of a sequence. *)
LEMMA SeqInduction ==
  ASSUME NEW S, NEW P, <<>> \in P,
         \A s \in Seq(S) : \A x \in S : s \in P => s \o <<x>> \in P
  PROVE  Seq(S) \subseteq P
<1> DEFINE D == Seq(S)
           m == [s \in D |-> Len(s)]
<1>1. m \in [D -> Nat]
  BY LenProperties
<1>2. ASSUME NEW s \in D, \A t \in D : m[t] < m[s] => t \in P
      PROVE  s \in P
  <2>1. CASE s = <<>>
    BY <2>1
  <2>2. CASE s # <<>>
    <3> DEFINE n == Len(s)
               p == SubSeq(s, 1, n - 1)
               q == SubSeq(s, n, n)
    <3>1. n \in Nat /\ n # 0
      BY <2>2
    <3>2. n - 1 \in 0 .. Len(s) /\ (n - 1) + 1 = n
      BY <3>1
    <3>3. p \in D /\ Len(p) = n - 1 /\ s = p \o q /\ q \in D /\ Len(q) = n - (n - 1)
      BY <3>2, Split
    <3> HIDE DEF p, q
    <3>4. p \in P
      BY <3>1, <3>3, <1>2
    <3>5. Len(q) = 1
      BY <3>1, <3>3
    <3>6. q = <<q[1]>> /\ q[1] \in S
      BY <3>3, <3>5
    <3> QED
      BY <3>3, <3>4, <3>6
  <2> QED
    BY <2>1, <2>2
<1>3. D \subseteq P
  <2> HIDE DEF D, m
  <2> QED
    BY <1>1, <1>2, MeasureInduction, Zenon
<1> QED
  BY <1>3

(* g is what FlattenSeq accumulates. *)
Accumulates(g, seqs) ==
  g = [i \in 1 .. Len(seqs) |-> IF i = 1 THEN seqs[i] ELSE g[i - 1] \o seqs[i]]

LEMMA FlattenIs ==
  ASSUME NEW S, NEW seqs \in Seq(Seq(S)), seqs # <<>>, NEW g, Accumulates(g, seqs)
  PROVE  FlattenSeq(seqs) = g[Len(seqs)]
<1> DEFINE f == CHOOSE h : Accumulates(h, seqs)
           D == 1 .. Len(seqs)
           m == [i \in D |-> i]
           P == {i \in D : f[i] = g[i]}
<1>1. Len(seqs) \in Nat /\ ~ (Len(seqs) = 0)
  OBVIOUS
<1>2. FlattenSeq(seqs) = f[Len(seqs)]
  BY <1>1, Zenon DEF FlattenSeq, Accumulates
<1>3. Accumulates(f, seqs)
  BY Zenon
<1> HIDE DEF f
<1>4. \A i \in D : f[i] = IF i = 1 THEN seqs[i] ELSE f[i - 1] \o seqs[i]
  BY <1>3, Zenon DEF Accumulates
<1>5. \A i \in D : g[i] = IF i = 1 THEN seqs[i] ELSE g[i - 1] \o seqs[i]
  BY Zenon DEF Accumulates
<1>6. m \in [D -> Nat]
  OBVIOUS
<1>7. ASSUME NEW i \in D, \A j \in D : m[j] < m[i] => j \in P
      PROVE  i \in P
  <2>1. CASE i = 1
    BY <2>1, <1>4, <1>5
  <2>2. CASE i # 1
    <3>1. i - 1 \in D /\ i - 1 < i
      BY <2>2
    <3>2. f[i - 1] = g[i - 1]
      BY <3>1, <1>7
    <3>3. f[i] = f[i - 1] \o seqs[i] /\ g[i] = g[i - 1] \o seqs[i]
      BY <2>2, <1>4, <1>5, Zenon
    <3> QED
      BY <3>2, <3>3
  <2> QED
    BY <2>1, <2>2
<1>8. D \subseteq P
  <2> HIDE DEF m, P, D
  <2> QED
    BY <1>6, <1>7, MeasureInduction, Zenon
<1> QED
  BY <1>1, <1>2, <1>8

LEMMA Accumulating ==
  ASSUME NEW S, NEW seqs \in Seq(Seq(S)), seqs # <<>>
  PROVE  \E g \in [1 .. Len(seqs) -> Seq(S)] : Accumulates(g, seqs)
<1> DEFINE D == 1 .. Len(seqs)
           m == [i \in D |-> i]
           B == {1}
           base == [i \in B |-> seqs[i]]
           next == [i \in D \ B |-> i - 1]
           step == [i \in D \ B |-> [s \in Seq(S) |-> s \o seqs[i]]]
<1>1. Len(seqs) \in Nat /\ Len(seqs) # 0 /\ \A i \in D : seqs[i] \in Seq(S)
  OBVIOUS
<1>2. m \in [D -> Nat] /\ B \subseteq D /\ base \in [B -> Seq(S)]
  BY <1>1
<1>3. next \in [D \ B -> D] /\ \A i \in D \ B : m[next[i]] < m[i]
  BY <1>1
<1>4. \A i \in D \ B : \A s \in Seq(S) : s \o seqs[i] \in Seq(S)
  BY <1>1, ConcatProperties
<1>5. step \in [D \ B -> [Seq(S) -> Seq(S)]]
  BY <1>4, Zenon
<1>6. IsRecursion(D, Seq(S), m, B, base, next, step)
  <2> HIDE DEF D, m, B, base, next, step
  <2> QED
    BY <1>2, <1>3, <1>5 DEF IsRecursion
<1>7. PICK g : Computes(g, D, Seq(S), B, base, next, step)
  <2> HIDE DEF D, m, B, base, next, step
  <2> QED
    BY <1>6, Recursion
<1>8. g \in [D -> Seq(S)]
  BY <1>7 DEF Computes
<1>9. ASSUME NEW i \in D
      PROVE  g[i] = IF i = 1 THEN seqs[i] ELSE g[i - 1] \o seqs[i]
  <2>1. g[i] = IF i \in B THEN base[i] ELSE step[i][g[next[i]]]
    <3> HIDE DEF D, m, B, base, next, step
    <3> QED
      BY <1>7 DEF Computes
  <2>2. CASE i = 1
    <3>1. i \in B /\ base[i] = seqs[i]
      BY <2>2
    <3> QED
      BY <2>1, <2>2, <3>1, Zenon
  <2>3. CASE ~ (i = 1)
    <3>1. i \in D \ B /\ ~ (i \in B)
      BY <2>3
    <3>2. next[i] = i - 1 /\ step[i] = [s \in Seq(S) |-> s \o seqs[i]]
      BY <3>1
    <3>3. i - 1 \in D
      BY <2>3, <1>1
    <3>4. g[i - 1] \in Seq(S)
      BY <3>3, <1>8
    <3>5. step[i][g[i - 1]] = g[i - 1] \o seqs[i]
      BY <3>2, <3>4
    <3>6. g[i] = step[i][g[i - 1]]
      BY <2>1, <3>1, <3>2, Zenon
    <3> QED
      BY <2>3, <3>5, <3>6
  <2> QED
    BY <2>2, <2>3
<1>10. Accumulates(g, seqs)
  <2> HIDE DEF m, B, base, next, step
  <2> QED
    BY <1>8, <1>9 DEF Accumulates
<1> QED
  BY <1>8, <1>10

LEMMA FlattenEmpty == FlattenSeq(<<>>) = <<>>
BY DEF FlattenSeq

LEMMA FlattenLast ==
  ASSUME NEW S, NEW seqs \in Seq(Seq(S)), NEW x \in Seq(S)
  PROVE  /\ FlattenSeq(seqs \o <<x>>) = FlattenSeq(seqs) \o x
         /\ FlattenSeq(seqs) \in Seq(S)
<1> DEFINE n == Len(seqs)
           all == seqs \o <<x>>
<1>1. /\ n \in Nat /\ all \in Seq(Seq(S)) /\ Len(all) = n + 1 /\ all[n + 1] = x /\ all # <<>>
      /\ \A i \in 1 .. n : all[i] = seqs[i]
  OBVIOUS
<1> HIDE DEF all
<1>2. CASE seqs = <<>>
  <2> DEFINE g == [i \in 1 .. 1 |-> x]
  <2>1. n = 0
    BY <1>2
  <2>2. Accumulates(g, all)
    BY <1>1, <2>1 DEF Accumulates
  <2>3. FlattenSeq(all) = x
    BY <1>1, <2>1, <2>2, FlattenIs
  <2>4. FlattenSeq(seqs) = <<>>
    BY <1>2, FlattenEmpty
  <2>5. <<>> \o x = x
    OBVIOUS
  <2> QED
    BY <2>3, <2>4, <2>5 DEF all
<1>3. CASE seqs # <<>>
  <2>1. PICK g \in [1 .. n -> Seq(S)] : Accumulates(g, seqs)
    BY <1>3, Accumulating
  <2>2. n # 0 /\ FlattenSeq(seqs) = g[n] /\ g[n] \in Seq(S)
    <3>1. n # 0
      BY <1>3
    <3>2. FlattenSeq(seqs) = g[n]
      BY <1>3, <2>1, FlattenIs
    <3> QED
      BY <3>1, <3>2, <1>1, <2>1
  <2> DEFINE h == [i \in 1 .. n + 1 |-> IF i <= n THEN g[i] ELSE g[n] \o x]
  <2>3. \A i \in 1 .. n : g[i] = IF i = 1 THEN seqs[i] ELSE g[i - 1] \o seqs[i]
    BY <2>1, Zenon DEF Accumulates
  <2>4. ASSUME NEW i \in 1 .. n + 1
        PROVE  h[i] = IF i = 1 THEN all[i] ELSE h[i - 1] \o all[i]
    <3>1. CASE i = 1
      <4>1. i \in 1 .. n
        BY <3>1, <1>1, <2>2
      <4>2. h[i] = g[i] /\ i <= n /\ all[i] = seqs[i]
        BY <4>1, <1>1
      <4>3. g[i] = seqs[i]
        BY <3>1, <4>1, <2>3, Zenon
      <4> HIDE DEF h
      <4> QED
        BY <3>1, <4>2, <4>3, Zenon
    <3>2. CASE ~ (i = 1) /\ i <= n
      <4>1. i \in 1 .. n /\ i - 1 \in 1 .. n + 1 /\ i - 1 <= n
        BY <3>2, <1>1
      <4>2. h[i] = g[i] /\ h[i - 1] = g[i - 1] /\ all[i] = seqs[i]
        BY <4>1, <1>1
      <4>3. g[i] = g[i - 1] \o seqs[i]
        BY <3>2, <4>1, <2>3, Zenon
      <4> HIDE DEF h
      <4> QED
        BY <3>2, <4>2, <4>3
    <3>3. CASE ~ (i = 1) /\ ~ (i <= n)
      <4>1. i = n + 1 /\ i - 1 = n /\ n \in 1 .. n + 1
        BY <3>3, <1>1, <2>2
      <4>2. h[i] = g[n] \o x /\ h[i - 1] = g[n] /\ all[i] = x
        BY <4>1, <1>1, <3>3
      <4> HIDE DEF h
      <4> QED
        BY <3>3, <4>2
    <3> QED
      BY <3>1, <3>2, <3>3
  <2>5. h = [i \in 1 .. n + 1 |-> h[i]]
    OBVIOUS
  <2>6. h[n + 1] = g[n] \o x
    BY <1>1
  <2> HIDE DEF h
  <2>7. Accumulates(h, all)
    BY <1>1, <2>4, <2>5 DEF Accumulates
  <2>8. FlattenSeq(all) = g[n] \o x
    BY <1>1, <2>6, <2>7, FlattenIs
  <2> QED
    BY <2>2, <2>8 DEF all
<1> QED
  BY <1>2, <1>3

LEMMA FlattenConcat ==
  ASSUME NEW S, NEW s \in Seq(Seq(S)), NEW t \in Seq(Seq(S))
  PROVE  FlattenSeq(s \o t) = FlattenSeq(s) \o FlattenSeq(t)
<1> DEFINE P == {u \in Seq(Seq(S)) : FlattenSeq(s \o u) = FlattenSeq(s) \o FlattenSeq(u)}
<1>1. FlattenSeq(s) \in Seq(S)
  <2>1. <<>> \in Seq(S)
    OBVIOUS
  <2> QED
    BY <2>1, FlattenLast
<1>2. <<>> \in P
  <2>1. s \o <<>> = s /\ FlattenSeq(s) \o <<>> = FlattenSeq(s)
    BY <1>1
  <2>2. <<>> \in Seq(Seq(S))
    OBVIOUS
  <2> QED
    BY <2>1, <2>2, FlattenEmpty
<1>3. ASSUME NEW u \in Seq(Seq(S)), NEW x \in Seq(S), u \in P
      PROVE  u \o <<x>> \in P
  <2>1. /\ <<x>> \in Seq(Seq(S)) /\ u \o <<x>> \in Seq(Seq(S)) /\ s \o u \in Seq(Seq(S))
    BY ConcatProperties
  <2>2. s \o (u \o <<x>>) = (s \o u) \o <<x>>
    BY <2>1, Regroup
  <2>3. FlattenSeq((s \o u) \o <<x>>) = FlattenSeq(s \o u) \o x
    BY <2>1, FlattenLast
  <2>4. FlattenSeq(u \o <<x>>) = FlattenSeq(u) \o x /\ FlattenSeq(u) \in Seq(S)
    BY FlattenLast
  <2>5. (FlattenSeq(s) \o FlattenSeq(u)) \o x = FlattenSeq(s) \o (FlattenSeq(u) \o x)
    BY <1>1, <2>4, Regroup
  <2>6. FlattenSeq(s \o u) = FlattenSeq(s) \o FlattenSeq(u)
    BY <1>3
  <2> QED
    BY <2>1, <2>2, <2>3, <2>4, <2>5, <2>6, Zenon
<1>4. Seq(Seq(S)) \subseteq P
  <2> HIDE DEF P
  <2> QED
    BY <1>2, <1>3, SeqInduction, Zenon
<1> QED
  BY <1>4

-----------------------------------------------------------------------------
(* What parsing makes of fields that follow one another.                   *)

(* What Unknown keeps of one field. *)
Kept(field, tags) ==
  IF <<field.number, field.type>> \in tags THEN <<>> ELSE field.bytes

LEMMA KeptType ==
  ASSUME NEW f \in AnyField, NEW tags
  PROVE  Kept(f, tags) \in Seq(Byte)
<1>1. Cut.bytes \in Seq(Byte) /\ <<>> \in Seq(Byte)
  BY DEF Cut
<1>2. f.bytes \in Seq(Byte)
  <2>1. CASE f.number # 0
    BY <2>1, AnyFieldFacts DEF IsField
  <2>2. CASE f.number = 0
    <3>1. f = Cut \/ \E s \in Seq(Byte) : f = FirstField(s)
      BY DEF AnyField
    <3>2. ASSUME NEW s \in Seq(Byte), f = FirstField(s) PROVE f = Cut
      <4>1. ASSUME TagEnd(s) # 0, NumberEnd(s) # 0, TagOf(s) >= 8, NEW v, NEW to,
                   f = FieldOf(s, v, to)
            PROVE  FALSE
        <5>1. TagOf(s) \in Int /\ TagOf(s) >= 8
          BY <4>1, PartsTyped, Int32Elements
        <5>2. TagOf(s) \div 8 # 0
          BY <5>1
        <5> QED
          BY <2>2, <4>1, <5>2 DEF FieldOf
      <4>2. CASE TagEnd(s) = 0 \/ NumberEnd(s) = 0 \/ TagOf(s) < 8
        BY <4>2, <3>2, FirstFieldDef, Zenon
      <4>3. CASE ~ (TagEnd(s) = 0 \/ NumberEnd(s) = 0 \/ TagOf(s) < 8)
        <5>1. TagOf(s) >= 8
          BY <4>3, PartsTyped, Int32Elements
        <5>2. f = Cut \/ \E v, to : f = FieldOf(s, v, to)
          BY <3>2, <4>3, FirstFieldDef, Zenon
        <5> QED
          BY <4>1, <4>3, <5>1, <5>2
      <4> QED
        BY <4>2, <4>3
    <3> QED
      BY <1>1, <3>1, <3>2
  <2> QED
    BY <2>1, <2>2
<1> QED
  BY <1>1, <1>2 DEF Kept

LEMMA UnknownLast ==
  ASSUME NEW fs \in Seq(AnyField), NEW gs \in Seq(AnyField), NEW f \in AnyField, NEW tags
  PROVE  /\ Unknown(<<>>, tags) = <<>>
         /\ Unknown(<<f>>, tags) = Kept(f, tags)
         /\ Unknown(fs, tags) \in Seq(Byte)
         /\ Unknown(fs \o gs, tags) = Unknown(fs, tags) \o Unknown(gs, tags)
<1> DEFINE K(hs) == [i \in DOMAIN hs |-> Kept(hs[i], tags)]
<1>1. \A hs : Unknown(hs, tags) = FlattenSeq(K(hs))
  BY Zenon DEF Unknown, Kept
<1>2. \A hs \in Seq(AnyField) : /\ K(hs) \in Seq(Seq(Byte)) /\ Len(K(hs)) = Len(hs)
                                /\ \A i \in 1 .. Len(hs) : K(hs)[i] = Kept(hs[i], tags)
  <2> TAKE hs \in Seq(AnyField)
  <2>1. DOMAIN hs = 1 .. Len(hs) /\ Len(hs) \in Nat
    OBVIOUS
  <2>2. \A i \in 1 .. Len(hs) : Kept(hs[i], tags) \in Seq(Byte)
    BY KeptType
  <2> QED
    BY <2>1, <2>2
<1> HIDE DEF K
<1>3. K(<<>>) = <<>>
  BY DEF K
<1>4. K(<<f>>) = <<>> \o <<Kept(f, tags)>>
  <2> DEFINE h == <<f>>
             k == <<Kept(f, tags)>>
  <2>1. h \in Seq(AnyField) /\ Len(h) = 1 /\ h[1] = f
    OBVIOUS
  <2>2. k \in Seq(Seq(Byte)) /\ Len(k) = 1 /\ k[1] = Kept(f, tags)
    BY KeptType
  <2> HIDE DEF h, k
  <2>3. K(h) \in Seq(Seq(Byte)) /\ Len(K(h)) = 1 /\ \A i \in 1 .. 1 : K(h)[i] = Kept(h[i], tags)
    BY <1>2, <2>1
  <2>4. K(h) = k
    <3>1. \A i \in 1 .. 1 : K(h)[i] = k[i]
      BY <2>1, <2>2, <2>3
    <3> QED
      BY <2>2, <2>3, <3>1, SameSeq
  <2>5. <<>> \o k = k
    BY <2>2
  <2> QED
    BY <2>4, <2>5 DEF h, k
<1>5. K(fs \o gs) = K(fs) \o K(gs)
  <2>1. /\ fs \o gs \in Seq(AnyField) /\ Len(fs \o gs) = Len(fs) + Len(gs)
        /\ Len(fs) \in Nat /\ Len(gs) \in Nat
        /\ \A i \in 1 .. Len(fs) : (fs \o gs)[i] = fs[i]
        /\ \A i \in 1 .. Len(gs) : (fs \o gs)[Len(fs) + i] = gs[i]
    OBVIOUS
  <2> DEFINE all == fs \o gs
             a == K(all)
             x == K(fs)
             y == K(gs)
             b == x \o y
  <2>2. /\ a \in Seq(Seq(Byte)) /\ Len(a) = Len(fs) + Len(gs)
        /\ \A i \in 1 .. Len(a) : a[i] = Kept(all[i], tags)
    <3> HIDE DEF a, all
    <3>1. all \in Seq(AnyField) /\ Len(all) = Len(fs) + Len(gs)
      BY <2>1 DEF all
    <3> QED
      BY <3>1, <1>2 DEF a
  <2>3. /\ x \in Seq(Seq(Byte)) /\ Len(x) = Len(fs)
        /\ \A i \in 1 .. Len(fs) : x[i] = Kept(fs[i], tags)
    BY <1>2
  <2>4. /\ y \in Seq(Seq(Byte)) /\ Len(y) = Len(gs)
        /\ \A i \in 1 .. Len(gs) : y[i] = Kept(gs[i], tags)
    BY <1>2
  <2> HIDE DEF a, x, y
  <2>5. /\ b \in Seq(Seq(Byte)) /\ Len(b) = Len(fs) + Len(gs)
        /\ \A i \in 1 .. Len(fs) : b[i] = x[i]
        /\ \A i \in 1 .. Len(gs) : b[Len(fs) + i] = y[i]
    <3> DEFINE T == Seq(Byte)
    <3>1. x \in Seq(T) /\ y \in Seq(T)
      BY <2>3, <2>4
    <3> HIDE DEF T
    <3>2. /\ b \in Seq(T) /\ Len(b) = Len(x) + Len(y)
          /\ \A i \in 1 .. Len(x) : b[i] = x[i]
          /\ \A i \in 1 .. Len(y) : b[Len(x) + i] = y[i]
      BY <3>1
    <3> QED
      BY <2>3, <2>4, <3>2 DEF T
  <2> HIDE DEF b
  <2>6. ASSUME NEW i \in 1 .. Len(a) PROVE a[i] = b[i]
    <3>1. CASE i <= Len(fs)
      <4>1. i \in 1 .. Len(fs)
        BY <3>1, <2>1, <2>2
      <4>2. b[i] = x[i] /\ x[i] = Kept(fs[i], tags) /\ all[i] = fs[i]
        BY <4>1, <2>1, <2>3, <2>5
      <4> QED
        BY <4>2, <2>2
    <3>2. CASE ~ (i <= Len(fs))
      <4>1. i - Len(fs) \in 1 .. Len(gs) /\ Len(fs) + (i - Len(fs)) = i
        BY <3>2, <2>1, <2>2
      <4>2. b[i] = y[i - Len(fs)] /\ all[i] = gs[i - Len(fs)]
        BY <4>1, <2>1, <2>5
      <4>3. y[i - Len(fs)] = Kept(gs[i - Len(fs)], tags)
        BY <4>1, <2>4
      <4> QED
        BY <4>2, <4>3, <2>2
    <3> QED
      BY <3>1, <3>2
  <2>7. a = b
    BY <2>2, <2>5, <2>6, SameSeq
  <2> QED
    BY <2>7 DEF a, b, x, y
<1>6. Kept(f, tags) \in Seq(Byte)
  BY KeptType
<1>7. Unknown(<<f>>, tags) = Kept(f, tags)
  <2>1. <<>> \in Seq(Seq(Byte)) /\ <<>> \o Kept(f, tags) = Kept(f, tags)
    BY <1>6
  <2>2. FlattenSeq(<<>> \o <<Kept(f, tags)>>) = FlattenSeq(<<>>) \o Kept(f, tags)
    BY <1>6, <2>1, FlattenLast
  <2> QED
    BY <1>1, <1>4, <2>1, <2>2, FlattenEmpty
<1>8. Unknown(fs, tags) \in Seq(Byte)
  BY <1>1, <1>2, <1>6, FlattenLast
<1>9. Unknown(fs \o gs, tags) = Unknown(fs, tags) \o Unknown(gs, tags)
  <2>1. K(fs) \in Seq(Seq(Byte)) /\ K(gs) \in Seq(Seq(Byte))
    BY <1>2
  <2>2. FlattenSeq(K(fs) \o K(gs)) = FlattenSeq(K(fs)) \o FlattenSeq(K(gs))
    BY <2>1, FlattenConcat
  <2>3. /\ Unknown(fs, tags) = FlattenSeq(K(fs)) /\ Unknown(gs, tags) = FlattenSeq(K(gs))
        /\ Unknown(fs \o gs, tags) = FlattenSeq(K(fs \o gs))
    BY <1>1, Zenon
  <2> QED
    BY <1>5, <2>2, <2>3, Zenon
<1> QED
  BY <1>1, <1>3, <1>7, <1>8, <1>9, FlattenEmpty

LEMMA UnknownConcat ==
  \A fs, gs \in Seq(AnyField) : \A tags :
    Unknown(fs \o gs, tags) = Unknown(fs, tags) \o Unknown(gs, tags)
<1>1. Cut \in AnyField
  BY DEF AnyField
<1> QED
  BY <1>1, UnknownLast

(* w is p followed by q. *)
IsConcat(w, p, q) ==
  /\ Len(p) \in Nat /\ Len(q) \in Nat /\ Len(w) = Len(p) + Len(q)
  /\ DOMAIN w = 1 .. Len(p) + Len(q)
  /\ DOMAIN p = 1 .. Len(p) /\ DOMAIN q = 1 .. Len(q)
  /\ \A i \in 1 .. Len(p) : i \in DOMAIN w /\ w[i] = p[i]
  /\ \A i \in 1 .. Len(q) : Len(p) + i \in DOMAIN w /\ w[Len(p) + i] = q[i]
  /\ \A i \in DOMAIN w : i \in 1 .. Len(p) \/ \E j \in 1 .. Len(q) : i = Len(p) + j

LEMMA ElementsOfConcat ==
  ASSUME NEW S, NEW p \in Seq(S), NEW q \in Seq(S)
  PROVE  p \o q \in Seq(S) /\ IsConcat(p \o q, p, q)
<1>1. /\ p \o q \in Seq(S) /\ Len(p \o q) = Len(p) + Len(q)
      /\ DOMAIN (p \o q) = 1 .. Len(p) + Len(q)
      /\ DOMAIN p = 1 .. Len(p) /\ DOMAIN q = 1 .. Len(q)
      /\ Len(p) \in Nat /\ Len(q) \in Nat
  OBVIOUS
<1>2. \A i \in 1 .. Len(p) : i \in DOMAIN (p \o q) /\ (p \o q)[i] = p[i]
  OBVIOUS
<1>3. \A i \in 1 .. Len(q) : Len(p) + i \in DOMAIN (p \o q) /\ (p \o q)[Len(p) + i] = q[i]
  OBVIOUS
<1>4. ASSUME NEW i \in 1 .. Len(p) + Len(q), i \notin 1 .. Len(p)
      PROVE  \E j \in 1 .. Len(q) : i = Len(p) + j
  <2>1. i - Len(p) \in 1 .. Len(q) /\ i = Len(p) + (i - Len(p))
    BY <1>1, <1>4
  <2> QED
    BY <2>1
<1> DEFINE w == p \o q
<1>5. /\ Len(w) = Len(p) + Len(q) /\ DOMAIN w = 1 .. Len(p) + Len(q)
      /\ \A i \in 1 .. Len(p) : i \in DOMAIN w /\ w[i] = p[i]
      /\ \A i \in 1 .. Len(q) : Len(p) + i \in DOMAIN w /\ w[Len(p) + i] = q[i]
  BY <1>1, <1>2, <1>3
<1>6. \A i \in DOMAIN w : i \in 1 .. Len(p) \/ \E j \in 1 .. Len(q) : i = Len(p) + j
  BY <1>1, <1>4
<1> HIDE DEF w
<1>7. IsConcat(w, p, q)
  BY <1>1, <1>5, <1>6 DEF IsConcat
<1> QED
  BY <1>1, <1>7 DEF w

(* The first sequence of bytes is read as the fields of the second. *)
Reads(bytes, fields) ==
  /\ bytes \in Seq(Byte) /\ fields \in Seq(AnyField)
  /\ Fields[bytes] = fields /\ AreWhole(fields)

LEMMA ReadsConcat ==
  ASSUME NEW a, NEW b, NEW fs, NEW gs, Reads(a, fs), Reads(b, gs)
  PROVE  Reads(a \o b, fs \o gs)
<1>1. /\ a \in Seq(Byte) /\ b \in Seq(Byte) /\ fs \in Seq(AnyField) /\ gs \in Seq(AnyField)
      /\ Fields[a] = fs /\ Fields[b] = gs /\ AreWhole(fs) /\ AreWhole(gs)
  BY DEF Reads
<1>2. a \o b \in Seq(Byte) /\ fs \o gs \in Seq(AnyField)
  BY <1>1, ElementsOfConcat
<1>3. Fields[a \o b] = fs \o gs
  BY <1>1, FieldsConcat
<1>4. AreWhole(fs \o gs)
  BY <1>1, WholeParts
<1> QED
  BY <1>2, <1>3, <1>4 DEF Reads

(* Bytes of which no field has one of the tags. *)
Apart(fields, tags) ==
  \A i \in DOMAIN fields : <<fields[i].number, fields[i].type>> \notin tags

LEMMA AreUnknownReads ==
  ASSUME NEW u, NEW tags
  PROVE  AreUnknown(u, tags) <=> Reads(u, Fields[u]) /\ Apart(Fields[u], tags)
BY FieldsType DEF AreUnknown, Reads, Apart

LEMMA ApartConcat ==
  ASSUME NEW fs \in Seq(AnyField), NEW gs \in Seq(AnyField), NEW tags
  PROVE  Apart(fs \o gs, tags) <=> Apart(fs, tags) /\ Apart(gs, tags)
<1> DEFINE all == fs \o gs
<1>1. IsConcat(all, fs, gs)
  BY ElementsOfConcat
<1> HIDE DEF all
<1>2. ASSUME Apart(all, tags) PROVE Apart(fs, tags) /\ Apart(gs, tags)
  BY <1>1, <1>2 DEF Apart, IsConcat
<1>3. ASSUME Apart(fs, tags), Apart(gs, tags), NEW i \in DOMAIN all
      PROVE  <<all[i].number, all[i].type>> \notin tags
  BY <1>1, <1>3 DEF Apart, IsConcat
<1>4. Apart(all, tags) <=> Apart(fs, tags) /\ Apart(gs, tags)
  BY <1>2, <1>3 DEF Apart
<1> QED
  BY <1>4 DEF all

LEMMA NothingUnknown ==
  ASSUME NEW tags
  PROVE  AreUnknown(<<>>, tags) /\ Reads(<<>>, <<>>)
<1>1. <<>> \in Seq(Byte) /\ <<>> \in Seq(AnyField) /\ DOMAIN <<>> = {}
  OBVIOUS
<1> QED
  BY <1>1, FieldsOfNothing DEF AreUnknown, Reads

LEMMA AreUnknownConcat ==
  ASSUME NEW u, NEW v, NEW tags, AreUnknown(u, tags), AreUnknown(v, tags)
  PROVE  AreUnknown(u \o v, tags)
<1>1. /\ Reads(u, Fields[u]) /\ Apart(Fields[u], tags)
      /\ Reads(v, Fields[v]) /\ Apart(Fields[v], tags)
  BY AreUnknownReads
<1>2. Reads(u \o v, Fields[u] \o Fields[v])
  BY <1>1, ReadsConcat
<1>3. Apart(Fields[u] \o Fields[v], tags)
  BY <1>1, ApartConcat DEF Reads
<1>4. Fields[u \o v] = Fields[u] \o Fields[v]
  BY <1>2 DEF Reads
<1> QED
  BY <1>2, <1>3, <1>4, AreUnknownReads

LEMMA ReadsOne ==
  ASSUME NEW f \in AnyField, f.number # 0
  PROVE  Reads(f.bytes, <<f>>)
<1>1. IsField(f) /\ FirstField(f.bytes) = f
  BY AnyFieldFacts
<1>2. f.bytes \in Seq(Byte) /\ f.bytes # <<>>
  BY <1>1 DEF IsField
<1>3. Fields[f.bytes] = <<f>> /\ AreWhole(Fields[f.bytes])
  BY <1>1, <1>2, FieldsOfOne
<1> QED
  BY <1>2, <1>3 DEF Reads

(* What parsing keeps of fields it reads again as fields it does not know. *)
LEMMA UnknownIsUnknown ==
  ASSUME NEW fields \in Seq(AnyField), NEW tags, AreWhole(fields)
  PROVE  AreUnknown(Unknown(fields, tags), tags)
<1> DEFINE P == {fs \in Seq(AnyField) : AreWhole(fs) => AreUnknown(Unknown(fs, tags), tags)}
<1>1. <<>> \in P
  <2>1. <<>> \in Seq(AnyField) /\ Cut \in AnyField
    BY DEF AnyField
  <2>2. Unknown(<<>>, tags) = <<>>
    BY <2>1, UnknownLast
  <2> QED
    BY <2>1, <2>2, NothingUnknown
<1>2. ASSUME NEW fs \in Seq(AnyField), NEW f \in AnyField, fs \in P
      PROVE  fs \o <<f>> \in P
  <2>1. <<f>> \in Seq(AnyField) /\ fs \o <<f>> \in Seq(AnyField)
    OBVIOUS
  <2> SUFFICES ASSUME AreWhole(fs \o <<f>>)
               PROVE  AreUnknown(Unknown(fs \o <<f>>, tags), tags)
    BY <2>1
  <2>2. AreWhole(fs) /\ AreWhole(<<f>>)
    BY <2>1, WholeParts
  <2>3. f.number # 0
    <3>1. 1 \in DOMAIN <<f>> /\ <<f>>[1] = f
      OBVIOUS
    <3> QED
      BY <2>2, <3>1 DEF AreWhole
  <2>4. Unknown(fs \o <<f>>, tags) = Unknown(fs, tags) \o Kept(f, tags)
    <3>1. Unknown(<<f>>, tags) = Kept(f, tags)
      BY UnknownLast
    <3>2. Unknown(fs \o <<f>>, tags) = Unknown(fs, tags) \o Unknown(<<f>>, tags)
      BY <2>1, UnknownLast
    <3> QED
      BY <3>1, <3>2
  <2>5. AreUnknown(Kept(f, tags), tags)
    <3>1. CASE <<f.number, f.type>> \in tags
      BY <3>1, NothingUnknown DEF Kept
    <3>2. CASE <<f.number, f.type>> \notin tags
      <4>1. Reads(f.bytes, <<f>>)
        BY <2>3, ReadsOne
      <4>2. Apart(<<f>>, tags)
        BY <3>2 DEF Apart
      <4>3. Fields[f.bytes] = <<f>>
        BY <4>1 DEF Reads
      <4> QED
        BY <3>2, <4>1, <4>2, <4>3, AreUnknownReads DEF Kept
    <3> QED
      BY <3>1, <3>2
  <2>6. AreUnknown(Unknown(fs, tags), tags)
    BY <1>2, <2>2
  <2> QED
    BY <2>4, <2>5, <2>6, AreUnknownConcat
<1>3. Seq(AnyField) \subseteq P
  <2> HIDE DEF P
  <2> QED
    BY <1>1, <1>2, SeqInduction, Zenon
<1> QED
  BY <1>3

(* Parsing keeps bytes it does not know as they are. *)
LEMMA UnknownOfUnknown ==
  ASSUME NEW u, NEW tags, AreUnknown(u, tags)
  PROVE  Unknown(Fields[u], tags) = u
<1> DEFINE D == Seq(Byte)
           m == [s \in D |-> Len(s)]
           P == {s \in D : AreUnknown(s, tags) => Unknown(Fields[s], tags) = s}
<1>0. <<>> \in Seq(AnyField) /\ Cut \in AnyField
  BY DEF AnyField
<1>1. m \in [D -> Nat]
  BY LenProperties
<1>2. ASSUME NEW s \in D, \A t \in D : m[t] < m[s] => t \in P
      PROVE  s \in P
  <2> SUFFICES ASSUME AreUnknown(s, tags) PROVE Unknown(Fields[s], tags) = s
    OBVIOUS
  <2>1. CASE s = <<>>
    <3>1. Unknown(<<>>, tags) = <<>>
      BY <1>0, UnknownLast
    <3> QED
      BY <2>1, <3>1, FieldsOfNothing
  <2>2. CASE s # <<>> /\ FirstField(s).number = 0
    <3>1. Fields[s] = <<Cut>>
      BY <2>2, FieldsDef, Zenon
    <3>2. Fields[s][1].number = 0 /\ 1 \in DOMAIN Fields[s]
      BY <3>1 DEF Cut
    <3> QED
      BY <3>2 DEF AreWhole, AreUnknown
  <2>3. CASE s # <<>> /\ FirstField(s).number # 0
    <3> DEFINE f == FirstField(s)
               r == Rest(s)
    <3>1. r \in D /\ Len(r) < Len(s) /\ s = f.bytes \o r
      BY <2>3, RestFacts
    <3>2. Fields[s] = <<f>> \o Fields[r] /\ Fields[r] \in Seq(AnyField)
      BY <2>3, <3>1, FieldsStep, FieldsType
    <3>3. f \in AnyField /\ <<f>> \in Seq(AnyField)
      BY DEF AnyField
    <3> HIDE DEF f, r
    <3>4. AreUnknown(r, tags) /\ <<f.number, f.type>> \notin tags
      <4>1. AreWhole(Fields[r])
        BY <3>2, <3>3, WholeParts DEF AreUnknown
      <4>2. Apart(<<f>> \o Fields[r], tags)
        BY <3>2 DEF AreUnknown, Apart
      <4>3. Apart(<<f>>, tags) /\ Apart(Fields[r], tags)
        BY <3>2, <3>3, <4>2, ApartConcat
      <4>4. <<f.number, f.type>> \notin tags
        <5>1. 1 \in DOMAIN <<f>> /\ <<f>>[1] = f
          OBVIOUS
        <5> QED
          BY <4>3, <5>1 DEF Apart
      <4> QED
        BY <3>1, <4>1, <4>3, <4>4 DEF AreUnknown, Apart
    <3>5. Unknown(Fields[r], tags) = r
      BY <3>1, <3>4, <1>2
    <3>6. Unknown(<<f>>, tags) = f.bytes
      <4>1. Unknown(<<f>>, tags) = Kept(f, tags)
        BY <3>3, <1>0, UnknownLast
      <4> QED
        BY <3>4, <4>1 DEF Kept
    <3>7. Unknown(Fields[s], tags) = Unknown(<<f>>, tags) \o Unknown(Fields[r], tags)
      <4> DEFINE h == <<f>>
                 g == Fields[r]
      <4>1. h \in Seq(AnyField) /\ g \in Seq(AnyField)
        BY <3>2, <3>3
      <4> HIDE DEF h, g
      <4>2. Unknown(h \o g, tags) = Unknown(h, tags) \o Unknown(g, tags)
        BY <4>1, UnknownConcat
      <4> QED
        BY <3>2, <4>2 DEF h, g
    <3> QED
      BY <3>1, <3>5, <3>6, <3>7, Zenon
  <2> QED
    BY <2>1, <2>2, <2>3
<1>3. D \subseteq P
  <2> HIDE DEF m, P, D
  <2> QED
    BY <1>1, <1>2, MeasureInduction, Zenon
<1>4. u \in D
  BY DEF AreUnknown
<1> QED
  BY <1>3, <1>4

(* The last place is the largest. *)
LEMMA LastPlace ==
  ASSUME NEW n \in Nat, NEW I, I \subseteq 1 .. n, I # {}
  PROVE  Max(I) \in I /\ \A i \in I : i <= Max(I)
<1> DEFINE J == {n - i : i \in I}
<1>0. \A i \in I : i \in Nat /\ n - i \in Nat
  <2> TAKE i \in I
  <2>1. i \in 1 .. n
    OBVIOUS
  <2> QED
    BY <2>1
<1>1. J \subseteq Nat /\ J # {}
  BY <1>0, Zenon
<1>2. PICK j \in J : \A k \in J : j <= k
  <2> HIDE DEF J
  <2> QED
    BY <1>1, LeastNatural
<1>3. PICK i \in I : j = n - i
  OBVIOUS
<1>4. \A k \in I : i >= k
  <2> TAKE k \in I
  <2>1. n - k \in J
    OBVIOUS
  <2>2. n - i <= n - k
    BY <1>2, <1>3, <2>1
  <2>3. i \in Int /\ k \in Int
    OBVIOUS
  <2> QED
    BY <2>2, <2>3
<1>5. \E k \in I : \A l \in I : k >= l
  BY <1>4
<1>6. Max(I) \in I /\ \A k \in I : Max(I) >= k
  BY <1>5, Zenon DEF Max
<1>7. \A k \in I : k \in Int
  OBVIOUS
<1> QED
  BY <1>6, <1>7

LEMMA LastOfNothing ==
  \A number, type, default : LastOf(<<>>, number, type, default) = default
<1>1. DOMAIN <<>> = {}
  OBVIOUS
<1> QED
  BY <1>1 DEF LastOf, Places

(* The last place of fields is known by its properties. *)
LEMMA LastOfIs ==
  ASSUME NEW fs \in Seq(AnyField), NEW number, NEW type, NEW default,
         NEW i \in Places(fs, number, type), \A j \in Places(fs, number, type) : j <= i
  PROVE  LastOf(fs, number, type, default) = fs[i].value
<1> DEFINE I == Places(fs, number, type)
<1>1. I \subseteq 1 .. Len(fs) /\ Len(fs) \in Nat /\ I # {}
  BY DEF Places
<1> HIDE DEF I
<1>2. Max(I) \in I /\ \A j \in I : j <= Max(I)
  BY <1>1, LastPlace
<1>3. i \in I /\ \A j \in I : j <= i
  BY DEF I
<1>4. Max(I) = i
  <2>1. Max(I) <= i /\ i <= Max(I)
    BY <1>2, <1>3
  <2>2. Max(I) \in 1 .. Len(fs) /\ i \in 1 .. Len(fs)
    BY <1>1, <1>2, <1>3
  <2> QED
    BY <2>1, <2>2
<1> QED
  BY <1>1, <1>4 DEF LastOf, I

LEMMA LastOfConcat ==
  \A fs, gs \in Seq(AnyField) : \A number, type, default :
    LastOf(fs \o gs, number, type, default)
      = LastOf(gs, number, type, LastOf(fs, number, type, default))
<1> TAKE fs, gs \in Seq(AnyField)
<1> TAKE number, type, default
<1> DEFINE all == fs \o gs
           A == Places(all, number, type)
           F == Places(fs, number, type)
           G == Places(gs, number, type)
<1>1. all \in Seq(AnyField) /\ IsConcat(all, fs, gs)
  BY ElementsOfConcat
<1> HIDE DEF all
<1>2. /\ \A i \in 1 .. Len(fs) : i \in A <=> i \in F
      /\ \A i \in 1 .. Len(gs) : Len(fs) + i \in A <=> i \in G
      /\ \A i \in A : i \in 1 .. Len(fs) \/ \E j \in 1 .. Len(gs) : i = Len(fs) + j
      /\ F \subseteq 1 .. Len(fs) /\ G \subseteq 1 .. Len(gs)
      /\ Len(fs) \in Nat /\ Len(gs) \in Nat
  BY <1>1 DEF IsConcat, Places
<1>3. /\ \A i \in 1 .. Len(fs) : all[i] = fs[i]
      /\ \A i \in 1 .. Len(gs) : all[Len(fs) + i] = gs[i]
  BY <1>1 DEF IsConcat
<1> HIDE DEF A, F, G
<1>4. CASE G # {}
  <2>1. PICK j \in G : \A k \in G : k <= j
    BY <1>2, <1>4, LastPlace
  <2>2. Len(fs) + j \in A
    BY <1>2, <2>1
  <2>3. \A i \in A : i <= Len(fs) + j
    BY <1>2, <2>1
  <2>4. LastOf(all, number, type, default) = all[Len(fs) + j].value
    BY <1>1, <2>2, <2>3, LastOfIs DEF A
  <2>5. \A d : LastOf(gs, number, type, d) = gs[j].value
    BY <2>1, LastOfIs DEF G
  <2>6. all[Len(fs) + j] = gs[j]
    BY <1>2, <1>3, <2>1
  <2> QED
    BY <2>4, <2>5, <2>6 DEF all
<1>5. CASE G = {}
  <2>1. \A d : LastOf(gs, number, type, d) = d
    BY <1>5 DEF LastOf, G
  <2>2. CASE F # {}
    <3>1. PICK j \in F : \A k \in F : k <= j
      BY <1>2, <2>2, LastPlace
    <3>2. j \in A /\ \A i \in A : i <= j
      BY <1>2, <1>5, <3>1
    <3>3. LastOf(all, number, type, default) = all[j].value
      BY <1>1, <3>2, LastOfIs DEF A
    <3>4. LastOf(fs, number, type, default) = fs[j].value
      BY <3>1, LastOfIs DEF F
    <3>5. all[j] = fs[j]
      BY <1>2, <1>3, <3>1
    <3> QED
      BY <2>1, <3>3, <3>4, <3>5 DEF all
  <2>3. CASE F = {}
    <3>1. A = {}
      BY <1>2, <1>5, <2>3
    <3>2. LastOf(all, number, type, default) = default
      BY <3>1 DEF LastOf, A
    <3>3. LastOf(fs, number, type, default) = default
      BY <2>3 DEF LastOf, F
    <3> QED
      BY <2>1, <3>2, <3>3 DEF all
  <2> QED
    BY <2>2, <2>3
<1> QED
  BY <1>4, <1>5

LEMMA LastOfOne ==
  ASSUME NEW f \in AnyField, NEW number, NEW type, NEW default
  PROVE  LastOf(<<f>>, number, type, default)
           = IF f.number = number /\ f.type = type THEN f.value ELSE default
<1>1. <<f>> \in Seq(AnyField) /\ DOMAIN <<f>> = {1} /\ <<f>>[1] = f
  OBVIOUS
<1>2. CASE f.number = number /\ f.type = type
  <2>1. 1 \in Places(<<f>>, number, type) /\ \A j \in Places(<<f>>, number, type) : j <= 1
    BY <1>1, <1>2 DEF Places
  <2> DEFINE h == <<f>>
  <2>2. /\ h \in Seq(AnyField) /\ 1 \in Places(h, number, type)
        /\ \A j \in Places(h, number, type) : j <= 1
    BY <1>1, <2>1
  <2> HIDE DEF h
  <2>3. LastOf(h, number, type, default) = h[1].value
    BY <2>2, LastOfIs
  <2> QED
    BY <1>1, <1>2, <2>3 DEF h
<1>3. CASE ~ (f.number = number /\ f.type = type)
  <2>1. Places(<<f>>, number, type) = {}
    BY <1>1, <1>3 DEF Places
  <2> QED
    BY <1>3, <2>1 DEF LastOf
<1> QED
  BY <1>2, <1>3

LEMMA LastOfUnknown ==
  ASSUME NEW u, NEW tags, AreUnknown(u, tags), NEW number, NEW type, NEW default,
         <<number, type>> \in tags
  PROVE  LastOf(Fields[u], number, type, default) = default
<1>1. Places(Fields[u], number, type) = {}
  BY DEF AreUnknown, Places
<1> QED
  BY <1>1 DEF LastOf

LEMMA LastOfType ==
  ASSUME NEW fs \in Seq(AnyField), AreWhole(fs), NEW number, NEW type, NEW default
  PROVE  /\ type = VarintType /\ default \in Int32
              => LastOf(fs, number, type, default) \in Int32
         /\ type = ChunkType /\ Short(default)
              => Short(LastOf(fs, number, type, default))
<1> DEFINE I == Places(fs, number, type)
<1>1. CASE I = {}
  BY <1>1 DEF LastOf
<1>2. CASE I # {}
  <2>1. I \subseteq 1 .. Len(fs) /\ Len(fs) \in Nat
    BY DEF Places
  <2>2. Max(I) \in I
    <3> HIDE DEF I
    <3> QED
      BY <1>2, <2>1, LastPlace
  <2>3. LastOf(fs, number, type, default) = fs[Max(I)].value
    BY <1>2 DEF LastOf
  <2>4. Max(I) \in 1 .. Len(fs) /\ fs[Max(I)].type = type
    BY <2>2 DEF Places
  <2>5. fs[Max(I)] \in AnyField /\ fs[Max(I)].number # 0
    BY <2>4 DEF AreWhole
  <2> QED
    BY <2>3, <2>4, <2>5, AnyFieldFacts DEF IsField
<1> QED
  BY <1>1, <1>2

LEMMA TextParts ==
  \A fs, gs \in Seq(AnyField) : \A numbers :
    AreText(fs \o gs, numbers) <=> AreText(fs, numbers) /\ AreText(gs, numbers)
<1> TAKE fs, gs \in Seq(AnyField)
<1> TAKE numbers
<1> DEFINE all == fs \o gs
<1>1. IsConcat(all, fs, gs)
  BY ElementsOfConcat
<1> HIDE DEF all
<1>2. ASSUME AreText(all, numbers) PROVE AreText(fs, numbers) /\ AreText(gs, numbers)
  BY <1>1, <1>2 DEF AreText, Places, IsConcat
<1>3. ASSUME AreText(fs, numbers), AreText(gs, numbers) PROVE AreText(all, numbers)
  BY <1>1, <1>3 DEF AreText, Places, IsConcat
<1> QED
  BY <1>2, <1>3 DEF all

LEMMA UnknownIsText ==
  ASSUME NEW u, NEW tags, AreUnknown(u, tags), NEW numbers,
         \A number \in numbers : <<number, ChunkType>> \in tags
  PROVE  AreText(Fields[u], numbers)
BY DEF AreUnknown, AreText, Places

LEMMA NothingIsText == \A numbers : AreText(<<>>, numbers)
<1>1. DOMAIN <<>> = {}
  OBVIOUS
<1> QED
  BY <1>1 DEF AreText, Places

-----------------------------------------------------------------------------
(* The fields a message is written as.                                     *)

NumberField(k, n) ==
  [number |-> k, type |-> VarintType, value |-> n, bytes |-> Number(k, n)]
ChunkField(k, string) ==
  [number |-> k, type |-> ChunkType, value |-> string, bytes |-> Chunk(k, string)]

NumberFields(k, n) == IF n = 0 THEN <<>> ELSE <<NumberField(k, n)>>
ChunkFields(k, string) == IF string = <<>> THEN <<>> ELSE <<ChunkField(k, string)>>

LEMMA OneNumber ==
  ASSUME NEW k \in 1 .. 15, NEW n \in Int32
  PROVE  NumberField(k, n) \in AnyField /\ Reads(Number(k, n), <<NumberField(k, n)>>)
<1> DEFINE f == NumberField(k, n)
<1>1. Number(k, n) \in Seq(Byte) /\ FirstField(Number(k, n)) = f
  BY FirstOfNumber DEF NumberField
<1>2. f.number # 0 /\ f.bytes = Number(k, n)
  BY DEF NumberField
<1> HIDE DEF f
<1>3. f \in AnyField
  BY <1>1 DEF AnyField
<1> QED
  BY <1>2, <1>3, ReadsOne DEF f

LEMMA OneChunk ==
  ASSUME NEW k \in 1 .. 15, NEW string, Short(string)
  PROVE  ChunkField(k, string) \in AnyField /\ Reads(Chunk(k, string), <<ChunkField(k, string)>>)
<1> DEFINE f == ChunkField(k, string)
<1>1. Chunk(k, string) \in Seq(Byte) /\ FirstField(Chunk(k, string)) = f
  BY FirstOfChunk DEF ChunkField, Short
<1>2. f.number # 0 /\ f.bytes = Chunk(k, string)
  BY DEF ChunkField
<1> HIDE DEF f
<1>3. f \in AnyField
  BY <1>1 DEF AnyField
<1> QED
  BY <1>2, <1>3, ReadsOne DEF f

(* Field k of a message, with the number n, a string or what it does not   *)
(* know, in bytes that are read as these fields: the value d that has been *)
(* read before is replaced as a merge replaces it.                         *)
NumberPart(bytes, fields, k, n, tags) ==
  /\ Reads(bytes, fields) /\ Unknown(fields, tags) = <<>>
  /\ \A numbers : AreText(fields, numbers)
  /\ \A j, t, d : LastOf(fields, j, t, d)
                     = IF j = k /\ t = VarintType THEN NewNumber(d, n) ELSE d
  /\ Len(bytes) = IF n = 0 THEN 0 ELSE 1 + VarintSize(n)

ChunkPart(bytes, fields, k, string, tags) ==
  /\ Reads(bytes, fields) /\ Unknown(fields, tags) = <<>>
  /\ \A numbers : AreText(fields, numbers) <=> (k \in numbers => IsUtf8(string))
  /\ \A j, t, d : LastOf(fields, j, t, d)
                     = IF j = k /\ t = ChunkType THEN NewString(d, string) ELSE d
  /\ Len(bytes) = IF string = <<>> THEN 0 ELSE 1 + StringSize(string)

UnknownPart(bytes, fields, tags) ==
  /\ Reads(bytes, fields) /\ Unknown(fields, tags) = bytes
  /\ \A numbers : (\A k \in numbers : <<k, ChunkType>> \in tags) => AreText(fields, numbers)
  /\ \A j, t, d : <<j, t>> \in tags => LastOf(fields, j, t, d) = d

LEMMA NumberWritten ==
  \A k \in 1 .. 15 : \A n \in Int32 : \A tags : <<k, VarintType>> \in tags =>
    NumberPart(NumberUnlessZero(k, n), NumberFields(k, n), k, n, tags)
<1> SUFFICES ASSUME NEW k \in 1 .. 15, NEW n \in Int32, NEW tags, <<k, VarintType>> \in tags
             PROVE  NumberPart(NumberUnlessZero(k, n), NumberFields(k, n), k, n, tags)
  OBVIOUS
<1>0. <<>> \in Seq(AnyField) /\ Cut \in AnyField
  BY DEF AnyField
<1>1. CASE n = 0
  <2>1. NumberUnlessZero(k, n) = <<>> /\ NumberFields(k, n) = <<>> /\ Len(<<>>) = 0
    BY <1>1 DEF NumberUnlessZero, NumberFields
  <2>2. Unknown(<<>>, tags) = <<>>
    BY <1>0, UnknownLast
  <2>3. \A d : NewNumber(d, n) = d
    BY <1>1 DEF NewNumber
  <2> QED
    BY <1>1, <2>1, <2>2, <2>3, NothingUnknown, NothingIsText, LastOfNothing DEF NumberPart
<1>2. CASE ~ (n = 0)
  <2> DEFINE f == NumberField(k, n)
  <2>1. NumberUnlessZero(k, n) = Number(k, n) /\ NumberFields(k, n) = <<f>>
    BY <1>2 DEF NumberUnlessZero, NumberFields
  <2>2. f \in AnyField /\ Reads(Number(k, n), <<f>>)
    BY OneNumber
  <2>3. f.number = k /\ f.type = VarintType /\ f.value = n
    BY DEF NumberField
  <2> HIDE DEF f
  <2>4. Unknown(<<f>>, tags) = Kept(f, tags) /\ Kept(f, tags) = <<>>
    BY <1>0, <2>2, <2>3, UnknownLast DEF Kept
  <2>5. \A numbers : AreText(<<f>>, numbers)
    <3>1. \A number : Places(<<f>>, number, ChunkType) = {}
      BY <2>3 DEF Places, VarintType, ChunkType
    <3> QED
      BY <3>1 DEF AreText
  <2>6. \A j, type, d : LastOf(<<f>>, j, type, d)
                          = IF j = k /\ type = VarintType THEN NewNumber(d, n) ELSE d
    <3> TAKE j, type, d
    <3>1. LastOf(<<f>>, j, type, d) = IF f.number = j /\ f.type = type THEN f.value ELSE d
      BY <2>2, LastOfOne
    <3>2. NewNumber(d, n) = n
      BY <1>2 DEF NewNumber
    <3> QED
      BY <2>3, <3>1, <3>2
  <2>7. Len(Number(k, n)) = 1 + VarintSize(n)
    BY FirstOfNumber, VarintIs DEF IsVarintOf
  <2> QED
    BY <1>2, <2>1, <2>2, <2>4, <2>5, <2>6, <2>7, Zenon DEF NumberPart
<1> QED
  BY <1>1, <1>2

LEMMA ChunkWritten ==
  \A k \in 1 .. 15 : \A string, tags : Short(string) /\ <<k, ChunkType>> \in tags =>
    ChunkPart(ChunkUnlessEmpty(k, string), ChunkFields(k, string), k, string, tags)
<1> SUFFICES ASSUME NEW k \in 1 .. 15, NEW string, Short(string), NEW tags,
                    <<k, ChunkType>> \in tags
             PROVE  ChunkPart(ChunkUnlessEmpty(k, string), ChunkFields(k, string), k, string,
                              tags)
  OBVIOUS
<1>0. <<>> \in Seq(AnyField) /\ Cut \in AnyField
  BY DEF AnyField
<1>1. CASE string = <<>>
  <2>1. /\ ChunkUnlessEmpty(k, string) = <<>> /\ ChunkFields(k, string) = <<>>
        /\ Len(<<>>) = 0 /\ DOMAIN <<>> = {}
    BY <1>1 DEF ChunkUnlessEmpty, ChunkFields
  <2>2. Unknown(<<>>, tags) = <<>>
    BY <1>0, UnknownLast
  <2>3. \A d : NewString(d, string) = d
    BY <1>1 DEF NewString
  <2>4. IsUtf8(string)
    BY <1>1, <2>1 DEF IsUtf8
  <2> QED
    BY <1>1, <2>1, <2>2, <2>3, <2>4, NothingUnknown, NothingIsText, LastOfNothing DEF ChunkPart
<1>2. CASE ~ (string = <<>>)
  <2> DEFINE f == ChunkField(k, string)
  <2>1. ChunkUnlessEmpty(k, string) = Chunk(k, string) /\ ChunkFields(k, string) = <<f>>
    BY <1>2 DEF ChunkUnlessEmpty, ChunkFields
  <2>2. f \in AnyField /\ Reads(Chunk(k, string), <<f>>)
    BY OneChunk
  <2>3. f.number = k /\ f.type = ChunkType /\ f.value = string
    BY DEF ChunkField
  <2> HIDE DEF f
  <2>4. Unknown(<<f>>, tags) = Kept(f, tags) /\ Kept(f, tags) = <<>>
    BY <1>0, <2>2, <2>3, UnknownLast DEF Kept
  <2>5. \A numbers : AreText(<<f>>, numbers) <=> (k \in numbers => IsUtf8(string))
    <3>1. DOMAIN <<f>> = {1} /\ <<f>>[1] = f
      OBVIOUS
    <3>2. \A number : \A i : i \in Places(<<f>>, number, ChunkType) <=> number = k /\ i = 1
      BY <2>3, <3>1 DEF Places
    <3>3. <<f>>[1].value = string
      BY <2>3, <3>1
    <3> QED
      BY <3>2, <3>3 DEF AreText
  <2>6. \A j, type, d : LastOf(<<f>>, j, type, d)
                          = IF j = k /\ type = ChunkType THEN NewString(d, string) ELSE d
    <3> TAKE j, type, d
    <3>1. LastOf(<<f>>, j, type, d) = IF f.number = j /\ f.type = type THEN f.value ELSE d
      BY <2>2, LastOfOne
    <3>2. NewString(d, string) = string
      BY <1>2 DEF NewString
    <3> QED
      BY <2>3, <3>1, <3>2
  <2>7. Len(Chunk(k, string)) = 1 + StringSize(string)
    BY FirstOfChunk DEF Short
  <2> QED
    BY <1>2, <2>1, <2>2, <2>4, <2>5, <2>6, <2>7, Zenon DEF ChunkPart
<1> QED
  BY <1>1, <1>2

LEMMA UnknownWritten ==
  \A u, tags : AreUnknown(u, tags) => UnknownPart(u, Fields[u], tags)
<1> SUFFICES ASSUME NEW u, NEW tags, AreUnknown(u, tags)
             PROVE  UnknownPart(u, Fields[u], tags)
  OBVIOUS
<1>1. Reads(u, Fields[u])
  BY AreUnknownReads
<1>2. Unknown(Fields[u], tags) = u
  BY UnknownOfUnknown
<1>3. \A j, t, d : <<j, t>> \in tags => LastOf(Fields[u], j, t, d) = d
  BY LastOfUnknown
<1>4. \A numbers : (\A k \in numbers : <<k, ChunkType>> \in tags)
                      => AreText(Fields[u], numbers)
  BY UnknownIsText
<1> QED
  BY <1>1, <1>2, <1>3, <1>4, Zenon DEF UnknownPart

(* What is known of fields that follow one another. *)
Follow(all, a, b) ==
  /\ all \in Seq(AnyField)
  /\ \A tags : Unknown(all, tags) = Unknown(a, tags) \o Unknown(b, tags)
  /\ \A numbers : AreText(all, numbers) <=> AreText(a, numbers) /\ AreText(b, numbers)
  /\ \A j, t, d : LastOf(all, j, t, d) = LastOf(b, j, t, LastOf(a, j, t, d))

LEMMA TwoParts == \A a, b \in Seq(AnyField) : Follow(a \o b, a, b)
<1> TAKE a, b \in Seq(AnyField)
<1>1. a \o b \in Seq(AnyField)
  BY ElementsOfConcat
<1>2. \A tags : Unknown(a \o b, tags) = Unknown(a, tags) \o Unknown(b, tags)
  BY UnknownConcat
<1>3. \A numbers : AreText(a \o b, numbers) <=> AreText(a, numbers) /\ AreText(b, numbers)
  BY TextParts
<1>4. \A j, t, d : LastOf(a \o b, j, t, d) = LastOf(b, j, t, LastOf(a, j, t, d))
  BY LastOfConcat
<1> QED
  BY <1>1, <1>2, <1>3, <1>4, Zenon DEF Follow

-----------------------------------------------------------------------------
(* What each message is written as, field by field, and as how many bytes. *)


(* fields are what the bytes that m is written as are read as. *)
RequestIn(m, bytes, fields) ==
  /\ Reads(bytes, fields)
  /\ \A d : LastOf(fields, 1, VarintType, d) = NewNumber(d, m.proto)
  /\ \A d : LastOf(fields, 2, VarintType, d) = NewNumber(d, m.id)
  /\ \A d : LastOf(fields, 3, ChunkType, d) = NewString(d, m.body)
  /\ Unknown(fields, RequestTags) = m.unknown

LEMMA RequestWritten ==
  ASSUME NEW m, IsRequest(m), Short(m.body)
  PROVE  /\ \E fields : RequestIn(m, SerializeRequest(m), fields)
         /\ Len(SerializeRequest(m)) = RequestSize(m)
<1> DEFINE T == RequestTags
           f1 == NumberFields(1, m.proto)
           b1 == NumberUnlessZero(1, m.proto)
           f2 == NumberFields(2, m.id)
           b2 == NumberUnlessZero(2, m.id)
           f3 == ChunkFields(3, m.body)
           b3 == ChunkUnlessEmpty(3, m.body)
           u == m.unknown
           e == Fields[u]
           x2 == f1 \o f2
           x3 == x2 \o f3
           x == x3 \o e
<1>1. m.proto \in Int32 /\ m.id \in Int32 /\ AreUnknown(u, T)
  BY DEF IsRequest
<1>2. <<1, VarintType>> \in T /\ <<2, VarintType>> \in T /\ <<3, ChunkType>> \in T
  BY DEF RequestTags
<1> HIDE DEF T
<1>3. VarintType # ChunkType
  BY DEF VarintType, ChunkType
<1>4. /\ NumberPart(b1, f1, 1, m.proto, T)
      /\ NumberPart(b2, f2, 2, m.id, T)
  <2>1. 1 \in 1 .. 15 /\ 2 \in 1 .. 15
    OBVIOUS
  <2> QED
    BY <1>1, <1>2, <2>1, NumberWritten, Zenon
<1>5. /\ ChunkPart(b3, f3, 3, m.body, T)
  <2>1. 3 \in 1 .. 15
    OBVIOUS
  <2> QED
    BY <1>1, <1>2, <2>1, ChunkWritten, Zenon
<1>6. UnknownPart(u, e, T)
  BY <1>1, UnknownWritten
<1> HIDE DEF f1, f2, f3, b1, b2, b3, u, e
<1>7. Reads(b1, f1) /\ Reads(b2, f2) /\ Reads(b3, f3) /\ Reads(u, e)
  BY <1>4, <1>5, <1>6 DEF NumberPart, ChunkPart, UnknownPart
<1>8. f1 \in Seq(AnyField) /\ f2 \in Seq(AnyField) /\ f3 \in Seq(AnyField) /\ e \in Seq(AnyField)
  BY <1>7 DEF Reads
<1>9. Follow(x2, f1, f2)
  BY <1>8, TwoParts
<1> HIDE DEF x2
<1>10. Follow(x3, x2, f3)
  BY <1>8, <1>9, TwoParts DEF Follow
<1> HIDE DEF x3
<1>11. Follow(x, x3, e)
  BY <1>8, <1>10, TwoParts DEF Follow
<1>12. Reads(((b1 \o b2) \o b3) \o u, x)
  <2>1. Reads(b1 \o b2, x2)
    BY <1>7, ReadsConcat DEF x2
  <2>2. Reads((b1 \o b2) \o b3, x3)
    BY <1>7, <2>1, ReadsConcat DEF x3
  <2> QED
    BY <1>7, <2>2, ReadsConcat
<1> HIDE DEF x
<1>13. SerializeRequest(m) = ((b1 \o b2) \o b3) \o u
  BY DEF SerializeRequest, b1, b2, b3, u
<1>14. \A j, t, d : LastOf(x, j, t, d)
         = LastOf(e, j, t, LastOf(f3, j, t, LastOf(f2, j, t, LastOf(f1, j, t, d))))
  <2> TAKE j, t, d
  <2>1. LastOf(x, j, t, d) = LastOf(e, j, t, LastOf(x3, j, t, d))
    BY <1>11, Zenon DEF Follow
  <2>2. LastOf(x3, j, t, d) = LastOf(f3, j, t, LastOf(x2, j, t, d))
    BY <1>10, Zenon DEF Follow
  <2>3. LastOf(x2, j, t, d) = LastOf(f2, j, t, LastOf(f1, j, t, d))
    BY <1>9, Zenon DEF Follow
  <2> QED
    BY <2>1, <2>2, <2>3
<1>15. /\ \A d : LastOf(x, 1, VarintType, d) = NewNumber(d, m.proto)
       /\ \A d : LastOf(x, 2, VarintType, d) = NewNumber(d, m.id)
       /\ \A d : LastOf(x, 3, ChunkType, d) = NewString(d, m.body)
  BY <1>2, <1>3, <1>4, <1>5, <1>6, <1>14 DEF NumberPart, ChunkPart, UnknownPart
<1>16. Unknown(x, T) = u
  <2>1. Unknown(x, T) = Unknown(x3, T) \o Unknown(e, T)
    BY <1>11, Zenon DEF Follow
  <2>2. Unknown(x3, T) = Unknown(x2, T) \o Unknown(f3, T)
    BY <1>10, Zenon DEF Follow
  <2>3. Unknown(x2, T) = Unknown(f1, T) \o Unknown(f2, T)
    BY <1>9, Zenon DEF Follow
  <2>4. Unknown(f1, T) = <<>> /\ Unknown(f2, T) = <<>> /\ Unknown(f3, T) = <<>>
    BY <1>4, <1>5, <1>6 DEF NumberPart, ChunkPart, UnknownPart
  <2>5. Unknown(e, T) = u /\ u \in Seq(Byte)
    BY <1>6, <1>7 DEF UnknownPart, Reads
  <2>6. <<>> \o <<>> = <<>> /\ <<>> \o u = u
    BY <2>5
  <2> QED
    BY <2>1, <2>2, <2>3, <2>4, <2>5, <2>6, Zenon
<1>17. RequestIn(m, SerializeRequest(m), x)
  BY <1>12, <1>13, <1>15, <1>16 DEF RequestIn, T, u
<1>18. Len(SerializeRequest(m)) = RequestSize(m)
  <2>1. b1 \in Seq(Byte) /\ b2 \in Seq(Byte) /\ b3 \in Seq(Byte) /\ u \in Seq(Byte)
    BY <1>7 DEF Reads
  <2>2. Len(((b1 \o b2) \o b3) \o u) = Len(b1) + Len(b2) + Len(b3) + Len(u)
    BY <2>1
  <2> DEFINE i == Len(b1)
             j == Len(b2)
             k == Len(b3)
             z == Len(u)
  <2>3. i \in Nat /\ j \in Nat /\ k \in Nat /\ z \in Nat
    BY <2>1, LenProperties
  <2>4. RequestSize(m) = z + k + i + j
    BY <1>4, <1>5, <1>6, SMT DEF RequestSize, NumberPart, ChunkPart, UnknownPart, u
  <2>5. Len(SerializeRequest(m)) = i + j + k + z
    BY <1>13, <2>2
  <2> HIDE DEF i, j, k, z
  <2> QED
    BY <2>3, <2>4, <2>5
<1> QED
  BY <1>17, <1>18

(* fields are what the bytes that m is written as are read as. *)
ResponseIn(m, bytes, fields) ==
  /\ Reads(bytes, fields)
  /\ \A d : LastOf(fields, 1, VarintType, d) = NewNumber(d, m.code)
  /\ \A d : LastOf(fields, 2, VarintType, d) = NewNumber(d, m.id)
  /\ \A d : LastOf(fields, 3, ChunkType, d) = NewString(d, m.msg)
  /\ \A d : LastOf(fields, 4, ChunkType, d) = NewString(d, m.body)
  /\ AreText(fields, {3}) <=> IsUtf8(m.msg)
  /\ Unknown(fields, ResponseTags) = m.unknown

LEMMA ResponseWritten ==
  ASSUME NEW m, IsResponse(m), Short(m.msg), Short(m.body)
  PROVE  /\ \E fields : ResponseIn(m, SerializeResponse(m), fields)
         /\ Len(SerializeResponse(m)) = ResponseSize(m)
<1> DEFINE T == ResponseTags
           f1 == NumberFields(1, m.code)
           b1 == NumberUnlessZero(1, m.code)
           f2 == NumberFields(2, m.id)
           b2 == NumberUnlessZero(2, m.id)
           f3 == ChunkFields(3, m.msg)
           b3 == ChunkUnlessEmpty(3, m.msg)
           f4 == ChunkFields(4, m.body)
           b4 == ChunkUnlessEmpty(4, m.body)
           u == m.unknown
           e == Fields[u]
           x2 == f1 \o f2
           x3 == x2 \o f3
           x4 == x3 \o f4
           x == x4 \o e
<1>1. m.code \in Int32 /\ m.id \in Int32 /\ AreUnknown(u, T)
  BY DEF IsResponse
<1>2. <<1, VarintType>> \in T /\ <<2, VarintType>> \in T /\ <<3, ChunkType>> \in T /\ <<4, ChunkType>> \in T
  BY DEF ResponseTags
<1> HIDE DEF T
<1>3. VarintType # ChunkType
  BY DEF VarintType, ChunkType
<1>4. /\ NumberPart(b1, f1, 1, m.code, T)
      /\ NumberPart(b2, f2, 2, m.id, T)
  <2>1. 1 \in 1 .. 15 /\ 2 \in 1 .. 15
    OBVIOUS
  <2> QED
    BY <1>1, <1>2, <2>1, NumberWritten, Zenon
<1>5. /\ ChunkPart(b3, f3, 3, m.msg, T)
      /\ ChunkPart(b4, f4, 4, m.body, T)
  <2>1. 3 \in 1 .. 15 /\ 4 \in 1 .. 15
    OBVIOUS
  <2> QED
    BY <1>1, <1>2, <2>1, ChunkWritten, Zenon
<1>6. UnknownPart(u, e, T)
  BY <1>1, UnknownWritten
<1> HIDE DEF f1, f2, f3, f4, b1, b2, b3, b4, u, e
<1>7. Reads(b1, f1) /\ Reads(b2, f2) /\ Reads(b3, f3) /\ Reads(b4, f4) /\ Reads(u, e)
  BY <1>4, <1>5, <1>6 DEF NumberPart, ChunkPart, UnknownPart
<1>8. f1 \in Seq(AnyField) /\ f2 \in Seq(AnyField) /\ f3 \in Seq(AnyField) /\ f4 \in Seq(AnyField) /\ e \in Seq(AnyField)
  BY <1>7 DEF Reads
<1>9. Follow(x2, f1, f2)
  BY <1>8, TwoParts
<1> HIDE DEF x2
<1>10. Follow(x3, x2, f3)
  BY <1>8, <1>9, TwoParts DEF Follow
<1> HIDE DEF x3
<1>11. Follow(x4, x3, f4)
  BY <1>8, <1>10, TwoParts DEF Follow
<1> HIDE DEF x4
<1>12. Follow(x, x4, e)
  BY <1>8, <1>11, TwoParts DEF Follow
<1>13. Reads((((b1 \o b2) \o b3) \o b4) \o u, x)
  <2>1. Reads(b1 \o b2, x2)
    BY <1>7, ReadsConcat DEF x2
  <2>2. Reads((b1 \o b2) \o b3, x3)
    BY <1>7, <2>1, ReadsConcat DEF x3
  <2>3. Reads(((b1 \o b2) \o b3) \o b4, x4)
    BY <1>7, <2>2, ReadsConcat DEF x4
  <2> QED
    BY <1>7, <2>3, ReadsConcat
<1> HIDE DEF x
<1>14. SerializeResponse(m) = (((b1 \o b2) \o b3) \o b4) \o u
  BY DEF SerializeResponse, b1, b2, b3, b4, u
<1>15. \A j, t, d : LastOf(x, j, t, d)
         = LastOf(e, j, t, LastOf(f4, j, t, LastOf(f3, j, t, LastOf(f2, j, t, LastOf(f1, j, t, d)))))
  <2> TAKE j, t, d
  <2>1. LastOf(x, j, t, d) = LastOf(e, j, t, LastOf(x4, j, t, d))
    BY <1>12, Zenon DEF Follow
  <2>2. LastOf(x4, j, t, d) = LastOf(f4, j, t, LastOf(x3, j, t, d))
    BY <1>11, Zenon DEF Follow
  <2>3. LastOf(x3, j, t, d) = LastOf(f3, j, t, LastOf(x2, j, t, d))
    BY <1>10, Zenon DEF Follow
  <2>4. LastOf(x2, j, t, d) = LastOf(f2, j, t, LastOf(f1, j, t, d))
    BY <1>9, Zenon DEF Follow
  <2> QED
    BY <2>1, <2>2, <2>3, <2>4
<1>16. /\ \A d : LastOf(x, 1, VarintType, d) = NewNumber(d, m.code)
       /\ \A d : LastOf(x, 2, VarintType, d) = NewNumber(d, m.id)
       /\ \A d : LastOf(x, 3, ChunkType, d) = NewString(d, m.msg)
       /\ \A d : LastOf(x, 4, ChunkType, d) = NewString(d, m.body)
  BY <1>2, <1>3, <1>4, <1>5, <1>6, <1>15 DEF NumberPart, ChunkPart, UnknownPart
<1>17. AreText(x, {3}) <=> IsUtf8(m.msg)
  <2> DEFINE N == {3}
  <2>1. \A k \in N : <<k, ChunkType>> \in T
    BY <1>2
  <2>2. 3 \in N /\ 4 \notin N
    OBVIOUS
  <2> HIDE DEF N
  <2>3. AreText(x, N) <=> AreText(x4, N) /\ AreText(e, N)
    BY <1>12, Zenon DEF Follow
  <2>4. AreText(x4, N) <=> AreText(x3, N) /\ AreText(f4, N)
    BY <1>11, Zenon DEF Follow
  <2>5. AreText(x3, N) <=> AreText(x2, N) /\ AreText(f3, N)
    BY <1>10, Zenon DEF Follow
  <2>6. AreText(x2, N) <=> AreText(f1, N) /\ AreText(f2, N)
    BY <1>9, Zenon DEF Follow
  <2>7. AreText(e, N)
    BY <1>6, <2>1, Zenon DEF UnknownPart
  <2>8. AreText(f1, N)
    BY <1>4, Zenon DEF NumberPart
  <2>9. AreText(f2, N)
    BY <1>4, Zenon DEF NumberPart
  <2>10. AreText(f3, N) <=> IsUtf8(m.msg)
    BY <1>5, <2>2, Zenon DEF ChunkPart
  <2>11. AreText(f4, N)
    BY <1>5, <2>2, Zenon DEF ChunkPart
  <2> HIDE DEF T
  <2>12. AreText(x, N) <=> IsUtf8(m.msg)
    BY <2>3, <2>4, <2>5, <2>6, <2>7, <2>8, <2>9, <2>10, <2>11
  <2> QED
    BY <2>12 DEF N
<1>18. Unknown(x, T) = u
  <2>1. Unknown(x, T) = Unknown(x4, T) \o Unknown(e, T)
    BY <1>12, Zenon DEF Follow
  <2>2. Unknown(x4, T) = Unknown(x3, T) \o Unknown(f4, T)
    BY <1>11, Zenon DEF Follow
  <2>3. Unknown(x3, T) = Unknown(x2, T) \o Unknown(f3, T)
    BY <1>10, Zenon DEF Follow
  <2>4. Unknown(x2, T) = Unknown(f1, T) \o Unknown(f2, T)
    BY <1>9, Zenon DEF Follow
  <2>5. Unknown(f1, T) = <<>> /\ Unknown(f2, T) = <<>> /\ Unknown(f3, T) = <<>> /\ Unknown(f4, T) = <<>>
    BY <1>4, <1>5, <1>6 DEF NumberPart, ChunkPart, UnknownPart
  <2>6. Unknown(e, T) = u /\ u \in Seq(Byte)
    BY <1>6, <1>7 DEF UnknownPart, Reads
  <2>7. <<>> \o <<>> = <<>> /\ <<>> \o u = u
    BY <2>6
  <2> QED
    BY <2>1, <2>2, <2>3, <2>4, <2>5, <2>6, <2>7, Zenon
<1>19. ResponseIn(m, SerializeResponse(m), x)
  BY <1>13, <1>14, <1>16, <1>17, <1>18 DEF ResponseIn, T, u
<1>20. Len(SerializeResponse(m)) = ResponseSize(m)
  <2>1. b1 \in Seq(Byte) /\ b2 \in Seq(Byte) /\ b3 \in Seq(Byte) /\ b4 \in Seq(Byte) /\ u \in Seq(Byte)
    BY <1>7 DEF Reads
  <2>2. Len((((b1 \o b2) \o b3) \o b4) \o u) = Len(b1) + Len(b2) + Len(b3) + Len(b4) + Len(u)
    BY <2>1
  <2> DEFINE i == Len(b1)
             j == Len(b2)
             k == Len(b3)
             l == Len(b4)
             z == Len(u)
  <2>3. i \in Nat /\ j \in Nat /\ k \in Nat /\ l \in Nat /\ z \in Nat
    BY <2>1, LenProperties
  <2>4. ResponseSize(m) = z + k + l + i + j
    BY <1>4, <1>5, <1>6, SMT DEF ResponseSize, NumberPart, ChunkPart, UnknownPart, u
  <2>5. Len(SerializeResponse(m)) = i + j + k + l + z
    BY <1>14, <2>2
  <2> HIDE DEF i, j, k, l, z
  <2> QED
    BY <2>3, <2>4, <2>5
<1> QED
  BY <1>19, <1>20

(* fields are what the bytes that m is written as are read as. *)
TokenLoginIn(m, bytes, fields) ==
  /\ Reads(bytes, fields)
  /\ \A d : LastOf(fields, 1, ChunkType, d) = NewString(d, m.token)
  /\ \A d : LastOf(fields, 2, ChunkType, d) = NewString(d, m.name)
  /\ AreText(fields, {1, 2}) <=> IsUtf8(m.token) /\ IsUtf8(m.name)
  /\ Unknown(fields, TokenLoginTags) = m.unknown

LEMMA TokenLoginWritten ==
  ASSUME NEW m, IsTokenLogin(m), Short(m.token), Short(m.name)
  PROVE  /\ \E fields : TokenLoginIn(m, SerializeTokenLogin(m), fields)
         /\ Len(SerializeTokenLogin(m)) = TokenLoginSize(m)
<1> DEFINE T == TokenLoginTags
           f1 == ChunkFields(1, m.token)
           b1 == ChunkUnlessEmpty(1, m.token)
           f2 == ChunkFields(2, m.name)
           b2 == ChunkUnlessEmpty(2, m.name)
           u == m.unknown
           e == Fields[u]
           x2 == f1 \o f2
           x == x2 \o e
<1>1. AreUnknown(u, T)
  BY DEF IsTokenLogin
<1>2. <<1, ChunkType>> \in T /\ <<2, ChunkType>> \in T
  BY DEF TokenLoginTags
<1> HIDE DEF T
<1>3. VarintType # ChunkType
  BY DEF VarintType, ChunkType
<1>5. /\ ChunkPart(b1, f1, 1, m.token, T)
      /\ ChunkPart(b2, f2, 2, m.name, T)
  <2>1. 1 \in 1 .. 15 /\ 2 \in 1 .. 15
    OBVIOUS
  <2> QED
    BY <1>1, <1>2, <2>1, ChunkWritten, Zenon
<1>6. UnknownPart(u, e, T)
  BY <1>1, UnknownWritten
<1> HIDE DEF f1, f2, b1, b2, u, e
<1>7. Reads(b1, f1) /\ Reads(b2, f2) /\ Reads(u, e)
  BY <1>5, <1>6 DEF ChunkPart, UnknownPart
<1>8. f1 \in Seq(AnyField) /\ f2 \in Seq(AnyField) /\ e \in Seq(AnyField)
  BY <1>7 DEF Reads
<1>9. Follow(x2, f1, f2)
  BY <1>8, TwoParts
<1> HIDE DEF x2
<1>10. Follow(x, x2, e)
  BY <1>8, <1>9, TwoParts DEF Follow
<1>11. Reads((b1 \o b2) \o u, x)
  <2>1. Reads(b1 \o b2, x2)
    BY <1>7, ReadsConcat DEF x2
  <2> QED
    BY <1>7, <2>1, ReadsConcat
<1> HIDE DEF x
<1>12. SerializeTokenLogin(m) = (b1 \o b2) \o u
  BY DEF SerializeTokenLogin, b1, b2, u
<1>13. \A j, t, d : LastOf(x, j, t, d)
         = LastOf(e, j, t, LastOf(f2, j, t, LastOf(f1, j, t, d)))
  <2> TAKE j, t, d
  <2>1. LastOf(x, j, t, d) = LastOf(e, j, t, LastOf(x2, j, t, d))
    BY <1>10, Zenon DEF Follow
  <2>2. LastOf(x2, j, t, d) = LastOf(f2, j, t, LastOf(f1, j, t, d))
    BY <1>9, Zenon DEF Follow
  <2> QED
    BY <2>1, <2>2
<1>14. /\ \A d : LastOf(x, 1, ChunkType, d) = NewString(d, m.token)
       /\ \A d : LastOf(x, 2, ChunkType, d) = NewString(d, m.name)
  BY <1>2, <1>3, <1>5, <1>6, <1>13 DEF ChunkPart, UnknownPart
<1>15. AreText(x, {1, 2}) <=> IsUtf8(m.token) /\ IsUtf8(m.name)
  <2> DEFINE N == {1, 2}
  <2>1. \A k \in N : <<k, ChunkType>> \in T
    BY <1>2
  <2>2. 1 \in N /\ 2 \in N
    OBVIOUS
  <2> HIDE DEF N
  <2>3. AreText(x, N) <=> AreText(x2, N) /\ AreText(e, N)
    BY <1>10, Zenon DEF Follow
  <2>4. AreText(x2, N) <=> AreText(f1, N) /\ AreText(f2, N)
    BY <1>9, Zenon DEF Follow
  <2>5. AreText(e, N)
    BY <1>6, <2>1, Zenon DEF UnknownPart
  <2>6. AreText(f1, N) <=> IsUtf8(m.token)
    BY <1>5, <2>2, Zenon DEF ChunkPart
  <2>7. AreText(f2, N) <=> IsUtf8(m.name)
    BY <1>5, <2>2, Zenon DEF ChunkPart
  <2> HIDE DEF T
  <2>8. AreText(x, N) <=> IsUtf8(m.token) /\ IsUtf8(m.name)
    BY <2>3, <2>4, <2>5, <2>6, <2>7
  <2> QED
    BY <2>8 DEF N
<1>16. Unknown(x, T) = u
  <2>1. Unknown(x, T) = Unknown(x2, T) \o Unknown(e, T)
    BY <1>10, Zenon DEF Follow
  <2>2. Unknown(x2, T) = Unknown(f1, T) \o Unknown(f2, T)
    BY <1>9, Zenon DEF Follow
  <2>3. Unknown(f1, T) = <<>> /\ Unknown(f2, T) = <<>>
    BY <1>5, <1>6 DEF ChunkPart, UnknownPart
  <2>4. Unknown(e, T) = u /\ u \in Seq(Byte)
    BY <1>6, <1>7 DEF UnknownPart, Reads
  <2>5. <<>> \o <<>> = <<>> /\ <<>> \o u = u
    BY <2>4
  <2> QED
    BY <2>1, <2>2, <2>3, <2>4, <2>5, Zenon
<1>17. TokenLoginIn(m, SerializeTokenLogin(m), x)
  BY <1>11, <1>12, <1>14, <1>15, <1>16 DEF TokenLoginIn, T, u
<1>18. Len(SerializeTokenLogin(m)) = TokenLoginSize(m)
  <2>1. b1 \in Seq(Byte) /\ b2 \in Seq(Byte) /\ u \in Seq(Byte)
    BY <1>7 DEF Reads
  <2>2. Len((b1 \o b2) \o u) = Len(b1) + Len(b2) + Len(u)
    BY <2>1
  <2> DEFINE i == Len(b1)
             j == Len(b2)
             z == Len(u)
  <2>3. i \in Nat /\ j \in Nat /\ z \in Nat
    BY <2>1, LenProperties
  <2>4. TokenLoginSize(m) = z + i + j
    BY <1>5, <1>6, SMT DEF TokenLoginSize, ChunkPart, UnknownPart, u
  <2>5. Len(SerializeTokenLogin(m)) = i + j + z
    BY <1>12, <2>2
  <2> HIDE DEF i, j, z
  <2> QED
    BY <2>3, <2>4, <2>5
<1> QED
  BY <1>17, <1>18

(* fields are what the bytes that m is written as are read as. *)
FileDiffIn(m, bytes, fields) ==
  /\ Reads(bytes, fields)
  /\ \A d : LastOf(fields, 1, ChunkType, d) = NewString(d, m.relative_path)
  /\ \A d : LastOf(fields, 2, ChunkType, d) = NewString(d, m.content)
  /\ \A d : LastOf(fields, 3, VarintType, d) = NewNumber(d, m.status)
  /\ AreText(fields, {1, 2}) <=> IsUtf8(m.relative_path) /\ IsUtf8(m.content)
  /\ Unknown(fields, FileDiffTags) = m.unknown

LEMMA FileDiffWritten ==
  ASSUME NEW m, IsFileDiff(m), Short(m.relative_path), Short(m.content)
  PROVE  /\ \E fields : FileDiffIn(m, SerializeFileDiff(m), fields)
         /\ Len(SerializeFileDiff(m)) = FileDiffSize(m)
<1> DEFINE T == FileDiffTags
           f1 == ChunkFields(1, m.relative_path)
           b1 == ChunkUnlessEmpty(1, m.relative_path)
           f2 == ChunkFields(2, m.content)
           b2 == ChunkUnlessEmpty(2, m.content)
           f3 == NumberFields(3, m.status)
           b3 == NumberUnlessZero(3, m.status)
           u == m.unknown
           e == Fields[u]
           x2 == f1 \o f2
           x3 == x2 \o f3
           x == x3 \o e
<1>1. m.status \in Int32 /\ AreUnknown(u, T)
  BY DEF IsFileDiff
<1>2. <<1, ChunkType>> \in T /\ <<2, ChunkType>> \in T /\ <<3, VarintType>> \in T
  BY DEF FileDiffTags
<1> HIDE DEF T
<1>3. VarintType # ChunkType
  BY DEF VarintType, ChunkType
<1>4. /\ NumberPart(b3, f3, 3, m.status, T)
  <2>1. 3 \in 1 .. 15
    OBVIOUS
  <2> QED
    BY <1>1, <1>2, <2>1, NumberWritten, Zenon
<1>5. /\ ChunkPart(b1, f1, 1, m.relative_path, T)
      /\ ChunkPart(b2, f2, 2, m.content, T)
  <2>1. 1 \in 1 .. 15 /\ 2 \in 1 .. 15
    OBVIOUS
  <2> QED
    BY <1>1, <1>2, <2>1, ChunkWritten, Zenon
<1>6. UnknownPart(u, e, T)
  BY <1>1, UnknownWritten
<1> HIDE DEF f1, f2, f3, b1, b2, b3, u, e
<1>7. Reads(b1, f1) /\ Reads(b2, f2) /\ Reads(b3, f3) /\ Reads(u, e)
  BY <1>4, <1>5, <1>6 DEF NumberPart, ChunkPart, UnknownPart
<1>8. f1 \in Seq(AnyField) /\ f2 \in Seq(AnyField) /\ f3 \in Seq(AnyField) /\ e \in Seq(AnyField)
  BY <1>7 DEF Reads
<1>9. Follow(x2, f1, f2)
  BY <1>8, TwoParts
<1> HIDE DEF x2
<1>10. Follow(x3, x2, f3)
  BY <1>8, <1>9, TwoParts DEF Follow
<1> HIDE DEF x3
<1>11. Follow(x, x3, e)
  BY <1>8, <1>10, TwoParts DEF Follow
<1>12. Reads(((b1 \o b2) \o b3) \o u, x)
  <2>1. Reads(b1 \o b2, x2)
    BY <1>7, ReadsConcat DEF x2
  <2>2. Reads((b1 \o b2) \o b3, x3)
    BY <1>7, <2>1, ReadsConcat DEF x3
  <2> QED
    BY <1>7, <2>2, ReadsConcat
<1> HIDE DEF x
<1>13. SerializeFileDiff(m) = ((b1 \o b2) \o b3) \o u
  BY DEF SerializeFileDiff, b1, b2, b3, u
<1>14. \A j, t, d : LastOf(x, j, t, d)
         = LastOf(e, j, t, LastOf(f3, j, t, LastOf(f2, j, t, LastOf(f1, j, t, d))))
  <2> TAKE j, t, d
  <2>1. LastOf(x, j, t, d) = LastOf(e, j, t, LastOf(x3, j, t, d))
    BY <1>11, Zenon DEF Follow
  <2>2. LastOf(x3, j, t, d) = LastOf(f3, j, t, LastOf(x2, j, t, d))
    BY <1>10, Zenon DEF Follow
  <2>3. LastOf(x2, j, t, d) = LastOf(f2, j, t, LastOf(f1, j, t, d))
    BY <1>9, Zenon DEF Follow
  <2> QED
    BY <2>1, <2>2, <2>3
<1>15. /\ \A d : LastOf(x, 1, ChunkType, d) = NewString(d, m.relative_path)
       /\ \A d : LastOf(x, 2, ChunkType, d) = NewString(d, m.content)
       /\ \A d : LastOf(x, 3, VarintType, d) = NewNumber(d, m.status)
  BY <1>2, <1>3, <1>4, <1>5, <1>6, <1>14 DEF NumberPart, ChunkPart, UnknownPart
<1>16. AreText(x, {1, 2}) <=> IsUtf8(m.relative_path) /\ IsUtf8(m.content)
  <2> DEFINE N == {1, 2}
  <2>1. \A k \in N : <<k, ChunkType>> \in T
    BY <1>2
  <2>2. 1 \in N /\ 2 \in N
    OBVIOUS
  <2> HIDE DEF N
  <2>3. AreText(x, N) <=> AreText(x3, N) /\ AreText(e, N)
    BY <1>11, Zenon DEF Follow
  <2>4. AreText(x3, N) <=> AreText(x2, N) /\ AreText(f3, N)
    BY <1>10, Zenon DEF Follow
  <2>5. AreText(x2, N) <=> AreText(f1, N) /\ AreText(f2, N)
    BY <1>9, Zenon DEF Follow
  <2>6. AreText(e, N)
    BY <1>6, <2>1, Zenon DEF UnknownPart
  <2>7. AreText(f1, N) <=> IsUtf8(m.relative_path)
    BY <1>5, <2>2, Zenon DEF ChunkPart
  <2>8. AreText(f2, N) <=> IsUtf8(m.content)
    BY <1>5, <2>2, Zenon DEF ChunkPart
  <2>9. AreText(f3, N)
    BY <1>4, Zenon DEF NumberPart
  <2> HIDE DEF T
  <2>10. AreText(x, N) <=> IsUtf8(m.relative_path) /\ IsUtf8(m.content)
    BY <2>3, <2>4, <2>5, <2>6, <2>7, <2>8, <2>9
  <2> QED
    BY <2>10 DEF N
<1>17. Unknown(x, T) = u
  <2>1. Unknown(x, T) = Unknown(x3, T) \o Unknown(e, T)
    BY <1>11, Zenon DEF Follow
  <2>2. Unknown(x3, T) = Unknown(x2, T) \o Unknown(f3, T)
    BY <1>10, Zenon DEF Follow
  <2>3. Unknown(x2, T) = Unknown(f1, T) \o Unknown(f2, T)
    BY <1>9, Zenon DEF Follow
  <2>4. Unknown(f1, T) = <<>> /\ Unknown(f2, T) = <<>> /\ Unknown(f3, T) = <<>>
    BY <1>4, <1>5, <1>6 DEF NumberPart, ChunkPart, UnknownPart
  <2>5. Unknown(e, T) = u /\ u \in Seq(Byte)
    BY <1>6, <1>7 DEF UnknownPart, Reads
  <2>6. <<>> \o <<>> = <<>> /\ <<>> \o u = u
    BY <2>5
  <2> QED
    BY <2>1, <2>2, <2>3, <2>4, <2>5, <2>6, Zenon
<1>18. FileDiffIn(m, SerializeFileDiff(m), x)
  BY <1>12, <1>13, <1>15, <1>16, <1>17 DEF FileDiffIn, T, u
<1>19. Len(SerializeFileDiff(m)) = FileDiffSize(m)
  <2>1. b1 \in Seq(Byte) /\ b2 \in Seq(Byte) /\ b3 \in Seq(Byte) /\ u \in Seq(Byte)
    BY <1>7 DEF Reads
  <2>2. Len(((b1 \o b2) \o b3) \o u) = Len(b1) + Len(b2) + Len(b3) + Len(u)
    BY <2>1
  <2> DEFINE i == Len(b1)
             j == Len(b2)
             k == Len(b3)
             z == Len(u)
  <2>3. i \in Nat /\ j \in Nat /\ k \in Nat /\ z \in Nat
    BY <2>1, LenProperties
  <2>4. FileDiffSize(m) = z + i + j + k
    BY <1>4, <1>5, <1>6, SMT DEF FileDiffSize, NumberPart, ChunkPart, UnknownPart, u
  <2>5. Len(SerializeFileDiff(m)) = i + j + k + z
    BY <1>13, <2>2
  <2> HIDE DEF i, j, k, z
  <2> QED
    BY <2>3, <2>4, <2>5
<1> QED
  BY <1>18, <1>19

(* What InternalSerializeWithCachedSizesToArray writes of a request,        *)
(* MergePartialFromCodedStream reads as that request: negative ids and      *)
(* protocols, absent fields and unknown ones included.                      *)
THEOREM RequestReadBack ==
  ASSUME NEW m, IsRequest(m), Short(m.body)
  PROVE  ParseRequest(SerializeRequest(m)) = m
<1> DEFINE s == SerializeRequest(m)
<1>1. PICK fields : RequestIn(m, s, fields)
  BY RequestWritten
<1> HIDE DEF s
<1>2. Fields[s] = fields /\ AreWhole(fields)
  BY <1>1 DEF RequestIn, Reads
<1>3. RequestOf(fields) = m
  <2>1. /\ LastOf(fields, 1, VarintType, 0) = m.proto
        /\ LastOf(fields, 2, VarintType, 0) = m.id
        /\ LastOf(fields, 3, ChunkType, <<>>) = m.body
        /\ Unknown(fields, RequestTags) = m.unknown
    BY <1>1 DEF RequestIn, NewNumber, NewString
  <2> QED
    BY <2>1 DEF RequestOf, IsRequest
<1>4. AreText(fields, {})
  BY DEF AreText
<1>5. ParseRequest(s) = Message(fields, {}, m)
  BY <1>2, <1>3 DEF ParseRequest
<1> QED
  BY <1>2, <1>4, <1>5 DEF Message, s

LEMMA RequestMerges ==
  ASSUME NEW m, NEW n, IsRequest(m), IsRequest(n),
         Short(m.body),
         Short(n.body)
  PROVE  ParseRequest(SerializeRequest(m) \o SerializeRequest(n)) = MergeRequest(m, n)
<1> DEFINE s == SerializeRequest(m)
           t == SerializeRequest(n)
<1>1. PICK fs : RequestIn(m, s, fs)
  BY RequestWritten
<1>2. PICK gs : RequestIn(n, t, gs)
  BY RequestWritten
<1> HIDE DEF s, t
<1> DEFINE x == fs \o gs
           b == s \o t
<1>3. Reads(s, fs) /\ Reads(t, gs)
  BY <1>1, <1>2 DEF RequestIn
<1>4. Reads(b, x)
  BY <1>3, ReadsConcat
<1>5. Fields[b] = x /\ AreWhole(x)
  BY <1>4 DEF Reads
<1>6. Follow(x, fs, gs)
  BY <1>3, TwoParts DEF Reads
<1> HIDE DEF x, b
<1>7. RequestOf(x) = MergeRequest(m, n)
  <2>1. LastOf(x, 1, VarintType, 0) = NewNumber(m.proto, n.proto)
    <3>1. LastOf(x, 1, VarintType, 0) = LastOf(gs, 1, VarintType, LastOf(fs, 1, VarintType, 0))
      BY <1>6, Zenon DEF Follow
    <3>2. LastOf(fs, 1, VarintType, 0) = NewNumber(0, m.proto)
      BY <1>1, Zenon DEF RequestIn
    <3>3. NewNumber(0, m.proto) = m.proto
      BY DEF NewNumber
    <3>4. LastOf(gs, 1, VarintType, m.proto) = NewNumber(m.proto, n.proto)
      BY <1>2, Zenon DEF RequestIn
    <3> QED
      BY <3>1, <3>2, <3>3, <3>4
  <2>2. LastOf(x, 2, VarintType, 0) = NewNumber(m.id, n.id)
    <3>1. LastOf(x, 2, VarintType, 0) = LastOf(gs, 2, VarintType, LastOf(fs, 2, VarintType, 0))
      BY <1>6, Zenon DEF Follow
    <3>2. LastOf(fs, 2, VarintType, 0) = NewNumber(0, m.id)
      BY <1>1, Zenon DEF RequestIn
    <3>3. NewNumber(0, m.id) = m.id
      BY DEF NewNumber
    <3>4. LastOf(gs, 2, VarintType, m.id) = NewNumber(m.id, n.id)
      BY <1>2, Zenon DEF RequestIn
    <3> QED
      BY <3>1, <3>2, <3>3, <3>4
  <2>3. LastOf(x, 3, ChunkType, <<>>) = NewString(m.body, n.body)
    <3>1. LastOf(x, 3, ChunkType, <<>>) = LastOf(gs, 3, ChunkType, LastOf(fs, 3, ChunkType, <<>>))
      BY <1>6, Zenon DEF Follow
    <3>2. LastOf(fs, 3, ChunkType, <<>>) = NewString(<<>>, m.body)
      BY <1>1, Zenon DEF RequestIn
    <3>3. NewString(<<>>, m.body) = m.body
      BY DEF NewString
    <3>4. LastOf(gs, 3, ChunkType, m.body) = NewString(m.body, n.body)
      BY <1>2, Zenon DEF RequestIn
    <3> QED
      BY <3>1, <3>2, <3>3, <3>4
  <2>4. Unknown(x, RequestTags) = m.unknown \o n.unknown
    BY <1>1, <1>2, <1>6 DEF RequestIn, Follow
  <2> QED
    BY <2>1, <2>2, <2>3, <2>4, Zenon DEF RequestOf, MergeRequest
<1>8. AreText(x, {})
  BY DEF AreText
<1>9. ParseRequest(b) = Message(x, {}, MergeRequest(m, n))
  BY <1>5, <1>7 DEF ParseRequest
<1> QED
  BY <1>5, <1>8, <1>9 DEF Message, b, s, t

(* And so of a response, whose text is UTF-8.                               *)
THEOREM ResponseReadBack ==
  ASSUME NEW m, IsResponse(m), Short(m.msg), Short(m.body)
  PROVE  ParseResponse(SerializeResponse(m)) = m
<1> DEFINE s == SerializeResponse(m)
<1>1. PICK fields : ResponseIn(m, s, fields)
  BY ResponseWritten
<1> HIDE DEF s
<1>2. Fields[s] = fields /\ AreWhole(fields)
  BY <1>1 DEF ResponseIn, Reads
<1>3. ResponseOf(fields) = m
  <2>1. /\ LastOf(fields, 1, VarintType, 0) = m.code
        /\ LastOf(fields, 2, VarintType, 0) = m.id
        /\ LastOf(fields, 3, ChunkType, <<>>) = m.msg
        /\ LastOf(fields, 4, ChunkType, <<>>) = m.body
        /\ Unknown(fields, ResponseTags) = m.unknown
    BY <1>1 DEF ResponseIn, NewNumber, NewString
  <2> QED
    BY <2>1 DEF ResponseOf, IsResponse
<1>4. AreText(fields, {3})
  BY <1>1 DEF ResponseIn, IsResponse
<1>5. ParseResponse(s) = Message(fields, {3}, m)
  BY <1>2, <1>3 DEF ParseResponse
<1> QED
  BY <1>2, <1>4, <1>5 DEF Message, s

LEMMA ResponseMerges ==
  ASSUME NEW m, NEW n, IsResponse(m), IsResponse(n),
         Short(m.msg), Short(m.body),
         Short(n.msg), Short(n.body)
  PROVE  ParseResponse(SerializeResponse(m) \o SerializeResponse(n)) = MergeResponse(m, n)
<1> DEFINE s == SerializeResponse(m)
           t == SerializeResponse(n)
<1>1. PICK fs : ResponseIn(m, s, fs)
  BY ResponseWritten
<1>2. PICK gs : ResponseIn(n, t, gs)
  BY ResponseWritten
<1> HIDE DEF s, t
<1> DEFINE x == fs \o gs
           b == s \o t
<1>3. Reads(s, fs) /\ Reads(t, gs)
  BY <1>1, <1>2 DEF ResponseIn
<1>4. Reads(b, x)
  BY <1>3, ReadsConcat
<1>5. Fields[b] = x /\ AreWhole(x)
  BY <1>4 DEF Reads
<1>6. Follow(x, fs, gs)
  BY <1>3, TwoParts DEF Reads
<1> HIDE DEF x, b
<1>7. ResponseOf(x) = MergeResponse(m, n)
  <2>1. LastOf(x, 1, VarintType, 0) = NewNumber(m.code, n.code)
    <3>1. LastOf(x, 1, VarintType, 0) = LastOf(gs, 1, VarintType, LastOf(fs, 1, VarintType, 0))
      BY <1>6, Zenon DEF Follow
    <3>2. LastOf(fs, 1, VarintType, 0) = NewNumber(0, m.code)
      BY <1>1, Zenon DEF ResponseIn
    <3>3. NewNumber(0, m.code) = m.code
      BY DEF NewNumber
    <3>4. LastOf(gs, 1, VarintType, m.code) = NewNumber(m.code, n.code)
      BY <1>2, Zenon DEF ResponseIn
    <3> QED
      BY <3>1, <3>2, <3>3, <3>4
  <2>2. LastOf(x, 2, VarintType, 0) = NewNumber(m.id, n.id)
    <3>1. LastOf(x, 2, VarintType, 0) = LastOf(gs, 2, VarintType, LastOf(fs, 2, VarintType, 0))
      BY <1>6, Zenon DEF Follow
    <3>2. LastOf(fs, 2, VarintType, 0) = NewNumber(0, m.id)
      BY <1>1, Zenon DEF ResponseIn
    <3>3. NewNumber(0, m.id) = m.id
      BY DEF NewNumber
    <3>4. LastOf(gs, 2, VarintType, m.id) = NewNumber(m.id, n.id)
      BY <1>2, Zenon DEF ResponseIn
    <3> QED
      BY <3>1, <3>2, <3>3, <3>4
  <2>3. LastOf(x, 3, ChunkType, <<>>) = NewString(m.msg, n.msg)
    <3>1. LastOf(x, 3, ChunkType, <<>>) = LastOf(gs, 3, ChunkType, LastOf(fs, 3, ChunkType, <<>>))
      BY <1>6, Zenon DEF Follow
    <3>2. LastOf(fs, 3, ChunkType, <<>>) = NewString(<<>>, m.msg)
      BY <1>1, Zenon DEF ResponseIn
    <3>3. NewString(<<>>, m.msg) = m.msg
      BY DEF NewString
    <3>4. LastOf(gs, 3, ChunkType, m.msg) = NewString(m.msg, n.msg)
      BY <1>2, Zenon DEF ResponseIn
    <3> QED
      BY <3>1, <3>2, <3>3, <3>4
  <2>4. LastOf(x, 4, ChunkType, <<>>) = NewString(m.body, n.body)
    <3>1. LastOf(x, 4, ChunkType, <<>>) = LastOf(gs, 4, ChunkType, LastOf(fs, 4, ChunkType, <<>>))
      BY <1>6, Zenon DEF Follow
    <3>2. LastOf(fs, 4, ChunkType, <<>>) = NewString(<<>>, m.body)
      BY <1>1, Zenon DEF ResponseIn
    <3>3. NewString(<<>>, m.body) = m.body
      BY DEF NewString
    <3>4. LastOf(gs, 4, ChunkType, m.body) = NewString(m.body, n.body)
      BY <1>2, Zenon DEF ResponseIn
    <3> QED
      BY <3>1, <3>2, <3>3, <3>4
  <2>5. Unknown(x, ResponseTags) = m.unknown \o n.unknown
    BY <1>1, <1>2, <1>6 DEF ResponseIn, Follow
  <2> QED
    BY <2>1, <2>2, <2>3, <2>4, <2>5, Zenon DEF ResponseOf, MergeResponse
<1>8. AreText(x, {3})
  BY <1>1, <1>2, <1>6 DEF ResponseIn, IsResponse, Follow
<1>9. ParseResponse(b) = Message(x, {3}, MergeResponse(m, n))
  BY <1>5, <1>7 DEF ParseResponse
<1> QED
  BY <1>5, <1>8, <1>9 DEF Message, b, s, t

LEMMA TokenLoginReadBack ==
  ASSUME NEW m, IsTokenLogin(m), Short(m.token), Short(m.name)
  PROVE  ParseTokenLogin(SerializeTokenLogin(m)) = IF IsUtf8(m.token) /\ IsUtf8(m.name) THEN m ELSE Malformed
<1> DEFINE s == SerializeTokenLogin(m)
<1>1. PICK fields : TokenLoginIn(m, s, fields)
  BY TokenLoginWritten
<1> HIDE DEF s
<1>2. Fields[s] = fields /\ AreWhole(fields)
  BY <1>1 DEF TokenLoginIn, Reads
<1>3. TokenLoginOf(fields) = m
  <2>1. /\ LastOf(fields, 1, ChunkType, <<>>) = m.token
        /\ LastOf(fields, 2, ChunkType, <<>>) = m.name
        /\ Unknown(fields, TokenLoginTags) = m.unknown
    BY <1>1 DEF TokenLoginIn, NewNumber, NewString
  <2> QED
    BY <2>1 DEF TokenLoginOf, IsTokenLogin
<1>4. AreText(fields, {1, 2}) <=> IsUtf8(m.token) /\ IsUtf8(m.name)
  BY <1>1 DEF TokenLoginIn
<1>5. ParseTokenLogin(s) = Message(fields, {1, 2}, m)
  BY <1>2, <1>3 DEF ParseTokenLogin
<1> QED
  BY <1>2, <1>4, <1>5 DEF Message, s

LEMMA TokenLoginMerges ==
  ASSUME NEW m, NEW n, IsTokenLogin(m), IsTokenLogin(n),
         Short(m.token), Short(m.name),
         Short(n.token), Short(n.name),
         IsUtf8(m.token) /\ IsUtf8(m.name),
         IsUtf8(n.token) /\ IsUtf8(n.name)
  PROVE  ParseTokenLogin(SerializeTokenLogin(m) \o SerializeTokenLogin(n)) = MergeTokenLogin(m, n)
<1> DEFINE s == SerializeTokenLogin(m)
           t == SerializeTokenLogin(n)
<1>1. PICK fs : TokenLoginIn(m, s, fs)
  BY TokenLoginWritten
<1>2. PICK gs : TokenLoginIn(n, t, gs)
  BY TokenLoginWritten
<1> HIDE DEF s, t
<1> DEFINE x == fs \o gs
           b == s \o t
<1>3. Reads(s, fs) /\ Reads(t, gs)
  BY <1>1, <1>2 DEF TokenLoginIn
<1>4. Reads(b, x)
  BY <1>3, ReadsConcat
<1>5. Fields[b] = x /\ AreWhole(x)
  BY <1>4 DEF Reads
<1>6. Follow(x, fs, gs)
  BY <1>3, TwoParts DEF Reads
<1> HIDE DEF x, b
<1>7. TokenLoginOf(x) = MergeTokenLogin(m, n)
  <2>1. LastOf(x, 1, ChunkType, <<>>) = NewString(m.token, n.token)
    <3>1. LastOf(x, 1, ChunkType, <<>>) = LastOf(gs, 1, ChunkType, LastOf(fs, 1, ChunkType, <<>>))
      BY <1>6, Zenon DEF Follow
    <3>2. LastOf(fs, 1, ChunkType, <<>>) = NewString(<<>>, m.token)
      BY <1>1, Zenon DEF TokenLoginIn
    <3>3. NewString(<<>>, m.token) = m.token
      BY DEF NewString
    <3>4. LastOf(gs, 1, ChunkType, m.token) = NewString(m.token, n.token)
      BY <1>2, Zenon DEF TokenLoginIn
    <3> QED
      BY <3>1, <3>2, <3>3, <3>4
  <2>2. LastOf(x, 2, ChunkType, <<>>) = NewString(m.name, n.name)
    <3>1. LastOf(x, 2, ChunkType, <<>>) = LastOf(gs, 2, ChunkType, LastOf(fs, 2, ChunkType, <<>>))
      BY <1>6, Zenon DEF Follow
    <3>2. LastOf(fs, 2, ChunkType, <<>>) = NewString(<<>>, m.name)
      BY <1>1, Zenon DEF TokenLoginIn
    <3>3. NewString(<<>>, m.name) = m.name
      BY DEF NewString
    <3>4. LastOf(gs, 2, ChunkType, m.name) = NewString(m.name, n.name)
      BY <1>2, Zenon DEF TokenLoginIn
    <3> QED
      BY <3>1, <3>2, <3>3, <3>4
  <2>3. Unknown(x, TokenLoginTags) = m.unknown \o n.unknown
    BY <1>1, <1>2, <1>6 DEF TokenLoginIn, Follow
  <2> QED
    BY <2>1, <2>2, <2>3, Zenon DEF TokenLoginOf, MergeTokenLogin
<1>8. AreText(x, {1, 2})
  BY <1>1, <1>2, <1>6 DEF TokenLoginIn, Follow
<1>9. ParseTokenLogin(b) = Message(x, {1, 2}, MergeTokenLogin(m, n))
  BY <1>5, <1>7 DEF ParseTokenLogin
<1> QED
  BY <1>5, <1>8, <1>9 DEF Message, b, s, t

LEMMA FileDiffReadBack ==
  ASSUME NEW m, IsFileDiff(m), Short(m.relative_path), Short(m.content)
  PROVE  ParseFileDiff(SerializeFileDiff(m)) = IF IsUtf8(m.relative_path) /\ IsUtf8(m.content) THEN m ELSE Malformed
<1> DEFINE s == SerializeFileDiff(m)
<1>1. PICK fields : FileDiffIn(m, s, fields)
  BY FileDiffWritten
<1> HIDE DEF s
<1>2. Fields[s] = fields /\ AreWhole(fields)
  BY <1>1 DEF FileDiffIn, Reads
<1>3. FileDiffOf(fields) = m
  <2>1. /\ LastOf(fields, 1, ChunkType, <<>>) = m.relative_path
        /\ LastOf(fields, 2, ChunkType, <<>>) = m.content
        /\ LastOf(fields, 3, VarintType, 0) = m.status
        /\ Unknown(fields, FileDiffTags) = m.unknown
    BY <1>1 DEF FileDiffIn, NewNumber, NewString
  <2> QED
    BY <2>1 DEF FileDiffOf, IsFileDiff
<1>4. AreText(fields, {1, 2}) <=> IsUtf8(m.relative_path) /\ IsUtf8(m.content)
  BY <1>1 DEF FileDiffIn
<1>5. ParseFileDiff(s) = Message(fields, {1, 2}, m)
  BY <1>2, <1>3 DEF ParseFileDiff
<1> QED
  BY <1>2, <1>4, <1>5 DEF Message, s

LEMMA FileDiffMerges ==
  ASSUME NEW m, NEW n, IsFileDiff(m), IsFileDiff(n),
         Short(m.relative_path), Short(m.content),
         Short(n.relative_path), Short(n.content),
         IsUtf8(m.relative_path) /\ IsUtf8(m.content),
         IsUtf8(n.relative_path) /\ IsUtf8(n.content)
  PROVE  ParseFileDiff(SerializeFileDiff(m) \o SerializeFileDiff(n)) = MergeFileDiff(m, n)
<1> DEFINE s == SerializeFileDiff(m)
           t == SerializeFileDiff(n)
<1>1. PICK fs : FileDiffIn(m, s, fs)
  BY FileDiffWritten
<1>2. PICK gs : FileDiffIn(n, t, gs)
  BY FileDiffWritten
<1> HIDE DEF s, t
<1> DEFINE x == fs \o gs
           b == s \o t
<1>3. Reads(s, fs) /\ Reads(t, gs)
  BY <1>1, <1>2 DEF FileDiffIn
<1>4. Reads(b, x)
  BY <1>3, ReadsConcat
<1>5. Fields[b] = x /\ AreWhole(x)
  BY <1>4 DEF Reads
<1>6. Follow(x, fs, gs)
  BY <1>3, TwoParts DEF Reads
<1> HIDE DEF x, b
<1>7. FileDiffOf(x) = MergeFileDiff(m, n)
  <2>1. LastOf(x, 1, ChunkType, <<>>) = NewString(m.relative_path, n.relative_path)
    <3>1. LastOf(x, 1, ChunkType, <<>>) = LastOf(gs, 1, ChunkType, LastOf(fs, 1, ChunkType, <<>>))
      BY <1>6, Zenon DEF Follow
    <3>2. LastOf(fs, 1, ChunkType, <<>>) = NewString(<<>>, m.relative_path)
      BY <1>1, Zenon DEF FileDiffIn
    <3>3. NewString(<<>>, m.relative_path) = m.relative_path
      BY DEF NewString
    <3>4. LastOf(gs, 1, ChunkType, m.relative_path) = NewString(m.relative_path, n.relative_path)
      BY <1>2, Zenon DEF FileDiffIn
    <3> QED
      BY <3>1, <3>2, <3>3, <3>4
  <2>2. LastOf(x, 2, ChunkType, <<>>) = NewString(m.content, n.content)
    <3>1. LastOf(x, 2, ChunkType, <<>>) = LastOf(gs, 2, ChunkType, LastOf(fs, 2, ChunkType, <<>>))
      BY <1>6, Zenon DEF Follow
    <3>2. LastOf(fs, 2, ChunkType, <<>>) = NewString(<<>>, m.content)
      BY <1>1, Zenon DEF FileDiffIn
    <3>3. NewString(<<>>, m.content) = m.content
      BY DEF NewString
    <3>4. LastOf(gs, 2, ChunkType, m.content) = NewString(m.content, n.content)
      BY <1>2, Zenon DEF FileDiffIn
    <3> QED
      BY <3>1, <3>2, <3>3, <3>4
  <2>3. LastOf(x, 3, VarintType, 0) = NewNumber(m.status, n.status)
    <3>1. LastOf(x, 3, VarintType, 0) = LastOf(gs, 3, VarintType, LastOf(fs, 3, VarintType, 0))
      BY <1>6, Zenon DEF Follow
    <3>2. LastOf(fs, 3, VarintType, 0) = NewNumber(0, m.status)
      BY <1>1, Zenon DEF FileDiffIn
    <3>3. NewNumber(0, m.status) = m.status
      BY DEF NewNumber
    <3>4. LastOf(gs, 3, VarintType, m.status) = NewNumber(m.status, n.status)
      BY <1>2, Zenon DEF FileDiffIn
    <3> QED
      BY <3>1, <3>2, <3>3, <3>4
  <2>4. Unknown(x, FileDiffTags) = m.unknown \o n.unknown
    BY <1>1, <1>2, <1>6 DEF FileDiffIn, Follow
  <2> QED
    BY <2>1, <2>2, <2>3, <2>4, Zenon DEF FileDiffOf, MergeFileDiff
<1>8. AreText(x, {1, 2})
  BY <1>1, <1>2, <1>6 DEF FileDiffIn, Follow
<1>9. ParseFileDiff(b) = Message(x, {1, 2}, MergeFileDiff(m, n))
  BY <1>5, <1>7 DEF ParseFileDiff
<1> QED
  BY <1>5, <1>8, <1>9 DEF Message, b, s, t

(* What is parsed is a message again, even of bytes nobody has written as  *)
(* one.                                                                    *)
LEMMA ResponseRead ==
  ASSUME NEW b \in Seq(Byte), ParseResponse(b) # Malformed
  PROVE  /\ IsResponse(ParseResponse(b))
         /\ Short(ParseResponse(b).msg) /\ Short(ParseResponse(b).body)
<1> DEFINE x == Fields[b]
           T == ResponseTags
<1>1. x \in Seq(AnyField)
  BY FieldsType
<1>2. AreWhole(x) /\ AreText(x, {3}) /\ ParseResponse(b) = ResponseOf(x)
  BY DEF ParseResponse, Message
<1> HIDE DEF x
<1>3. Short(<<>>) /\ 0 \in Int32
  BY MaxInt32Type DEF Short, Int32
<1>4. LastOf(x, 1, VarintType, 0) \in Int32 /\ LastOf(x, 2, VarintType, 0) \in Int32
  BY <1>1, <1>2, <1>3, LastOfType
<1>5. Short(LastOf(x, 3, ChunkType, <<>>)) /\ Short(LastOf(x, 4, ChunkType, <<>>))
  BY <1>1, <1>2, <1>3, LastOfType
<1>6. IsUtf8(LastOf(x, 3, ChunkType, <<>>))
  <2> DEFINE I == Places(x, 3, ChunkType)
  <2>1. CASE I = {}
    <3>1. LastOf(x, 3, ChunkType, <<>>) = <<>>
      BY <2>1 DEF LastOf
    <3> QED
      BY <3>1 DEF IsUtf8
  <2>2. CASE I # {}
    <3>1. I \subseteq 1 .. Len(x) /\ Len(x) \in Nat
      BY <1>1 DEF Places
    <3>2. Max(I) \in I
      <4> HIDE DEF I
      <4> QED
        BY <2>2, <3>1, LastPlace
    <3>3. LastOf(x, 3, ChunkType, <<>>) = x[Max(I)].value
      BY <2>2 DEF LastOf
    <3> QED
      BY <1>2, <3>2, <3>3 DEF AreText
  <2> QED
    BY <2>1, <2>2
<1>7. AreUnknown(Unknown(x, T), T)
  BY <1>1, <1>2, UnknownIsUnknown
<1>8. Unknown(x, T) \in Seq(Byte)
  BY <1>7 DEF AreUnknown
<1> QED
  BY <1>2, <1>4, <1>5, <1>6, <1>7, <1>8 DEF ResponseOf, IsResponse, Short

-----------------------------------------------------------------------------
(* What is made of the elements of a sequence, one by one.                 *)

Maps(m, S, T) == m \in [S -> T]

Mapped(m, s) == [i \in DOMAIN s |-> m[s[i]]]

IsMapped(f, m, s) == Len(f) = Len(s) /\ \A j \in 1 .. Len(s) : f[j] = m[s[j]]

LEMMA MapType ==
  ASSUME NEW S, NEW T, NEW m, Maps(m, S, T)
  PROVE  \A s \in Seq(S) : Mapped(m, s) \in Seq(T) /\ IsMapped(Mapped(m, s), m, s)
<1>0. m \in [S -> T]
  BY DEF Maps
<1> TAKE s \in Seq(S)
<1> DEFINE f == Mapped(m, s)
           n == Len(s)
<1>1. n \in Nat /\ DOMAIN s = 1 .. n /\ \A i \in 1 .. n : s[i] \in S
  BY LenProperties, ElementOfSeq
<1> HIDE DEF n
<1>2. f \in [1 .. n -> T] /\ \A j \in 1 .. n : f[j] = m[s[j]]
  BY <1>0, <1>1 DEF Mapped
<1> HIDE DEF f
<1>3. f \in Seq(T)
  BY <1>1, <1>2, SeqDef
<1>4. Len(f) = n
  BY <1>1, <1>2, <1>3, LenProperties
<1> QED
  BY <1>2, <1>3, <1>4 DEF n, f, IsMapped

LEMMA MapConcat ==
  ASSUME NEW S, NEW T, NEW m, Maps(m, S, T)
  PROVE  \A s, t \in Seq(S) : Mapped(m, s \o t) = Mapped(m, s) \o Mapped(m, t)
<1> TAKE s, t \in Seq(S)
<1> DEFINE w == s \o t
           f == Mapped(m, s)
           g == Mapped(m, t)
           h == Mapped(m, w)
           e == f \o g
<1>1. w \in Seq(S) /\ IsConcat(w, s, t)
  BY ElementsOfConcat
<1> HIDE DEF w
<1>2. /\ f \in Seq(T) /\ IsMapped(f, m, s)
      /\ g \in Seq(T) /\ IsMapped(g, m, t)
      /\ h \in Seq(T) /\ IsMapped(h, m, w)
  BY <1>1, MapType
<1> HIDE DEF f, g, h
<1>3. e \in Seq(T) /\ IsConcat(e, f, g)
  BY <1>2, ElementsOfConcat
<1> HIDE DEF e
<1>4. Len(e) = Len(h) /\ Len(w) = Len(s) + Len(t) /\ DOMAIN e = 1 .. Len(w)
  BY <1>1, <1>2, <1>3 DEF IsConcat, IsMapped
<1>5. ASSUME NEW i \in 1 .. Len(s) PROVE e[i] = h[i]
  <2>1. e[i] = f[i] /\ w[i] = s[i] /\ i \in 1 .. Len(w)
    BY <1>1, <1>2, <1>3, <1>4 DEF IsConcat, IsMapped
  <2> QED
    BY <1>2, <2>1 DEF IsMapped
<1>6. ASSUME NEW i \in 1 .. Len(t) PROVE e[Len(s) + i] = h[Len(s) + i]
  <2>1. e[Len(s) + i] = g[i] /\ w[Len(s) + i] = t[i] /\ Len(s) + i \in 1 .. Len(w)
    BY <1>1, <1>2, <1>3, <1>4 DEF IsConcat, IsMapped
  <2> QED
    BY <1>2, <2>1 DEF IsMapped
<1>7. \A i \in DOMAIN e : e[i] = h[i]
  <2>1. \A i \in DOMAIN e : i \in 1 .. Len(s) \/ \E j \in 1 .. Len(t) : i = Len(s) + j
    BY <1>2, <1>3 DEF IsConcat, IsMapped
  <2> QED
    BY <1>5, <1>6, <2>1
<1>8. e = h
  <2>1. DOMAIN e = 1 .. Len(e) /\ e \in Seq(T) /\ h \in Seq(T) /\ Len(e) = Len(h)
    BY <1>2, <1>3, <1>4, LenProperties
  <2>2. \A i \in 1 .. Len(e) : e[i] = h[i]
    BY <1>7, <2>1
  <2> HIDE DEF IsMapped
  <2> QED
    BY <2>1, <2>2, SeqEqual
<1> QED
  BY <1>8 DEF e, f, g, h, w

-----------------------------------------------------------------------------
(* A sum over a set does not depend on the order of its elements.          *)

Some(s) == CHOOSE x \in s : TRUE

(* g is what SumFunction accumulates. *)
Sums(g, f, S) ==
  g = [s \in SUBSET S |-> IF s = {} THEN 0 ELSE f[Some(s)] + g[s \ {Some(s)}]]

Added(f, S, g) ==
  /\ g \in [SUBSET S -> Nat] /\ g[{}] = 0
  /\ \A s \in SUBSET S : s # {} => g[s] = f[Some(s)] + g[s \ {Some(s)}]

LEMMA SumIs ==
  ASSUME NEW f
  PROVE  SumFunction(f) = (CHOOSE g : Sums(g, f, DOMAIN f))[DOMAIN f]
BY Zenon DEF SumFunction, SumFunctionOnSet, FoldFunctionOnSet, MapThenFoldSet, Sums, Some

LEMMA Summing ==
  ASSUME NEW S, IsFiniteSet(S), NEW f \in [S -> Nat]
  PROVE  \E g : Sums(g, f, S) /\ Added(f, S, g)
<1> DEFINE D == SUBSET S
           m == [s \in D |-> Cardinality(s)]
           B == {{}}
           base == [s \in B |-> 0]
           next == [s \in D \ B |-> s \ {Some(s)}]
           step == [s \in D \ B |-> [n \in Nat |-> f[Some(s)] + n]]
<1>1. \A s \in D : IsFiniteSet(s) /\ Cardinality(s) \in Nat
  BY FS_Subset, FS_CardinalityType
<1>2. m \in [D -> Nat] /\ B \subseteq D /\ base \in [B -> Nat]
  BY <1>1
<1>3. \A s \in D \ B : Some(s) \in s /\ s \ {Some(s)} \in D
  BY DEF Some
<1>4. \A s \in D \ B : m[next[s]] < m[s]
  <2> TAKE s \in D \ B
  <2>1. Cardinality(s \ {Some(s)}) = Cardinality(s) - 1
    BY <1>1, <1>3, FS_RemoveElement
  <2>2. m[next[s]] = Cardinality(s) - 1 /\ m[s] = Cardinality(s) /\ Cardinality(s) \in Nat
    BY <1>1, <1>3, <2>1
  <2> HIDE DEF m, next
  <2> QED
    BY <2>2
<1>5. next \in [D \ B -> D]
  BY <1>3
<1>6. \A s \in D \ B : f[Some(s)] \in Nat
  BY <1>3
<1>7. step \in [D \ B -> [Nat -> Nat]]
  BY <1>6
<1> HIDE DEF D, m, B, base, next, step
<1>8. IsRecursion(D, Nat, m, B, base, next, step)
  BY <1>2, <1>4, <1>5, <1>7 DEF IsRecursion
<1>9. PICK g : Computes(g, D, Nat, B, base, next, step)
  BY <1>8, Recursion
<1>10. g \in [D -> Nat] /\ \A s \in D : g[s] = IF s \in B THEN base[s] ELSE step[s][g[next[s]]]
  BY <1>9 DEF Computes
<1>11. {} \in D /\ g[{}] = 0
  <2>1. {} \in D /\ {} \in B /\ base[{}] = 0
    BY DEF D, B, base
  <2> QED
    BY <1>10, <2>1
<1>12. ASSUME NEW s \in D, s # {} PROVE g[s] = f[Some(s)] + g[s \ {Some(s)}]
  <2>1. s \in D \ B /\ s \notin B
    BY <1>12 DEF B
  <2>2. next[s] = s \ {Some(s)} /\ step[s] = [n \in Nat |-> f[Some(s)] + n]
    BY <2>1 DEF next, step
  <2>3. g[next[s]] \in Nat
    BY <1>5, <1>10, <2>1
  <2>4. g[s] = step[s][g[next[s]]]
    BY <1>10, <2>1
  <2> QED
    BY <2>2, <2>3, <2>4
<1>13. Added(f, S, g)
  BY <1>10, <1>11, <1>12 DEF Added, D
<1>14. g = [s \in D |-> IF s = {} THEN 0 ELSE f[Some(s)] + g[s \ {Some(s)}]]
  <2>1. g = [s \in D |-> g[s]]
    BY <1>10
  <2> QED
    BY <1>11, <1>12, <2>1
<1> QED
  BY <1>13, <1>14 DEF Sums, D

LEMMA SumsAdd ==
  ASSUME NEW S, NEW f, NEW g, Sums(g, f, S), NEW h, Added(f, S, h), IsFiniteSet(S)
  PROVE  Added(f, S, g)
<1> DEFINE D == SUBSET S
           m == [s \in D |-> Cardinality(s)]
           P == {s \in D : g[s] = h[s]}
<1>1. \A s \in D : IsFiniteSet(s) /\ Cardinality(s) \in Nat
  BY FS_Subset, FS_CardinalityType
<1>2. m \in [D -> Nat]
  BY <1>1
<1>3. g = [s \in D |-> IF s = {} THEN 0 ELSE f[Some(s)] + g[s \ {Some(s)}]]
  BY DEF Sums
<1>4. \A s \in D : g[s] = IF s = {} THEN 0 ELSE f[Some(s)] + g[s \ {Some(s)}]
  BY <1>3
<1>5. ASSUME NEW s \in D, \A t \in D : m[t] < m[s] => t \in P
      PROVE  s \in P
  <2>1. CASE s = {}
    BY <1>4, <2>1 DEF Added
  <2>2. CASE ~ (s = {})
    <3> DEFINE r == s \ {Some(s)}
    <3>1. Some(s) \in s
      BY <2>2 DEF Some
    <3>2. Cardinality(r) = Cardinality(s) - 1 /\ r \in D
      BY <1>1, <3>1, FS_RemoveElement
    <3>3. m[r] < m[s]
      <4>1. m[r] = Cardinality(r) /\ m[s] = Cardinality(s)
        BY <3>2
      <4> QED
        BY <1>1, <3>2, <4>1
    <3>4. g[r] = h[r]
      BY <1>5, <3>2, <3>3
    <3>5. g[s] = f[Some(s)] + g[r]
      BY <1>4, <2>2, Zenon
    <3>6. h[s] = f[Some(s)] + h[r]
      BY <2>2, Zenon DEF Added
    <3> HIDE DEF r
    <3> QED
      BY <3>4, <3>5, <3>6
  <2> QED
    BY <2>1, <2>2
<1>6. D \subseteq P
  <2> HIDE DEF D, m, P
  <2> QED
    BY <1>2, <1>5, MeasureInduction, Zenon
<1>7. h \in [D -> Nat]
  BY DEF Added
<1>8. g = h
  <2>1. g = [s \in D |-> g[s]]
    <3>1. DOMAIN g = D
      BY <1>3, Zenon
    <3> QED
      BY <1>3, <1>4
  <2> QED
    BY <1>6, <1>7, <2>1
<1> QED
  BY <1>8

(* Whichever element is counted first. *)
AnyFirst(f, S, g) == \A s \in SUBSET S : \A a \in s : g[s] = f[a] + g[s \ {a}]

LEMMA AddedAny ==
  ASSUME NEW S, NEW f \in [S -> Nat], NEW g, Added(f, S, g), IsFiniteSet(S)
  PROVE  AnyFirst(f, S, g)
<1> DEFINE D == SUBSET S
           m == [s \in D |-> Cardinality(s)]
           P == {s \in D : \A a \in s : g[s] = f[a] + g[s \ {a}]}
<1>1. \A s \in D : IsFiniteSet(s) /\ Cardinality(s) \in Nat
  BY FS_Subset, FS_CardinalityType
<1>2. m \in [D -> Nat]
  BY <1>1
<1>3. g \in [D -> Nat] /\ \A s \in D : s # {} => g[s] = f[Some(s)] + g[s \ {Some(s)}]
  BY DEF Added
<1>4. \A s \in D : \A a \in s : s \ {a} \in D /\ m[s \ {a}] < m[s]
  <2> TAKE s \in D
  <2> TAKE a \in s
  <2>1. Cardinality(s \ {a}) = Cardinality(s) - 1 /\ s \ {a} \in D
    BY <1>1, FS_RemoveElement
  <2>2. m[s \ {a}] = Cardinality(s \ {a}) /\ m[s] = Cardinality(s) /\ Cardinality(s) \in Nat
    BY <1>1, <2>1
  <2> HIDE DEF m
  <2> QED
    BY <2>1, <2>2
<1>5. ASSUME NEW s \in D, \A t \in D : m[t] < m[s] => t \in P
      PROVE  s \in P
  <2> SUFFICES ASSUME NEW a \in s PROVE g[s] = f[a] + g[s \ {a}]
    OBVIOUS
  <2> DEFINE x == Some(s)
  <2>1. x \in s /\ g[s] = f[x] + g[s \ {x}]
    BY <1>3 DEF Some
  <2> HIDE DEF x
  <2>2. CASE x = a
    BY <2>1, <2>2
  <2>3. CASE x # a
    <3> DEFINE r == (s \ {x}) \ {a}
               A == s \ {a}
               X == s \ {x}
    <3>1. A \in P /\ X \in P
      BY <1>4, <1>5, <2>1
    <3>2. x \in A /\ a \in X /\ r = A \ {x} /\ r = X \ {a} /\ r \in D /\ A \in D /\ X \in D
      BY <2>1, <2>3
    <3>3. g[A] = f[x] + g[r] /\ g[X] = f[a] + g[r]
      <4> HIDE DEF r, A, X
      <4> QED
        BY <3>1, <3>2
    <3>4. f[a] \in Nat /\ f[x] \in Nat /\ g[r] \in Nat
      <4>1. a \in S /\ x \in S
        BY <2>1
      <4> HIDE DEF r
      <4> QED
        BY <4>1, <3>2, <1>3
    <3>5. g[s] = f[x] + g[X]
      BY <2>1
    <3> HIDE DEF r, A, X
    <3>6. g[s] = f[a] + g[A]
      BY <3>3, <3>4, <3>5
    <3> QED
      BY <3>6 DEF A
  <2> QED
    BY <2>2, <2>3
<1>6. D \subseteq P
  <2> HIDE DEF D, m, P
  <2> QED
    BY <1>2, <1>5, MeasureInduction, Zenon
<1> QED
  BY <1>6 DEF AnyFirst

(* g is the sum of f over each part of S. *)
IsSum(g, f, S) ==
  /\ g \in [SUBSET S -> Nat] /\ g[{}] = 0 /\ g[S] = SumFunction(f)
  /\ \A s \in SUBSET S : \A a \in S : a \notin s => g[s \cup {a}] = g[s] + f[a]

LEMMA SumFacts ==
  ASSUME NEW S, IsFiniteSet(S), NEW f \in [S -> Nat]
  PROVE  \E g : IsSum(g, f, S)
<1>1. DOMAIN f = S
  OBVIOUS
<1> DEFINE g == CHOOSE h : Sums(h, f, S)
<1>2. PICK h : Sums(h, f, S) /\ Added(f, S, h)
  BY Summing
<1>3. Sums(g, f, S)
  BY <1>2, Zenon
<1>4. SumFunction(f) = g[S]
  BY <1>1, SumIs
<1> HIDE DEF g
<1>5. Added(f, S, g)
  BY <1>2, <1>3, SumsAdd
<1>6. \A s \in SUBSET S : \A a \in s : g[s] = f[a] + g[s \ {a}]
  <2>1. AnyFirst(f, S, g)
    BY <1>5, AddedAny
  <2> QED
    BY <2>1, Zenon DEF AnyFirst
<1>7. g \in [SUBSET S -> Nat] /\ g[{}] = 0
  BY <1>5 DEF Added
<1>8. ASSUME NEW s \in SUBSET S, NEW a \in S, a \notin s
      PROVE  g[s \cup {a}] = g[s] + f[a]
  <2> DEFINE t == s \cup {a}
  <2>1. t \in SUBSET S /\ a \in t /\ t \ {a} = s
    BY <1>8
  <2> HIDE DEF t
  <2>2. g[t] = f[a] + g[s]
    BY <1>6, <2>1
  <2>3. f[a] \in Nat /\ g[s] \in Nat
    BY <1>7
  <2> QED
    BY <2>2, <2>3 DEF t
<1>9. \A s \in SUBSET S : \A a \in S : a \notin s => g[s \cup {a}] = g[s] + f[a]
  BY <1>8
<1>10. IsSum(g, f, S)
  BY <1>4, <1>7, <1>9, Zenon DEF IsSum
<1> QED
  BY <1>10, Zenon

-----------------------------------------------------------------------------
(* communication.request.DirectoryVerification.ContentsEntry               *)

LEMMA EntryWritten ==
  ASSUME NEW k, NEW v, Short(k), Short(v)
  PROVE  /\ Entry(k, v) \in Seq(Byte)
         /\ ParseEntry(Entry(k, v)) = IF IsUtf8(k) /\ IsUtf8(v)
                                      THEN [key |-> k, value |-> v] ELSE Malformed
<1> DEFINE f == ChunkField(1, k)
           g == ChunkField(2, v)
           a == Chunk(1, k)
           b == Chunk(2, v)
           F == <<f>>
           G == <<g>>
           x == F \o G
<1>1. f \in AnyField /\ g \in AnyField /\ Reads(a, F) /\ Reads(b, G)
  <2>1. 1 \in 1 .. 15 /\ 2 \in 1 .. 15
    OBVIOUS
  <2> QED
    BY <2>1, OneChunk
<1>2. /\ f.number = 1 /\ f.type = ChunkType /\ f.value = k
      /\ g.number = 2 /\ g.type = ChunkType /\ g.value = v
  BY DEF ChunkField
<1>3. Entry(k, v) = a \o b
  BY DEF Entry
<1> HIDE DEF f, g, a, b
<1>4. \A j, t, d : /\ LastOf(F, j, t, d) = IF f.number = j /\ f.type = t THEN f.value ELSE d
                   /\ LastOf(G, j, t, d) = IF g.number = j /\ g.type = t THEN g.value ELSE d
  BY <1>1, LastOfOne
<1>5. F \in Seq(AnyField) /\ G \in Seq(AnyField)
  BY <1>1 DEF Reads
<1> HIDE DEF F, G
<1>6. Reads(a \o b, x)
  BY <1>1, ReadsConcat
<1>7. \A j, t, d : LastOf(x, j, t, d) = LastOf(G, j, t, LastOf(F, j, t, d))
  BY <1>5, LastOfConcat
<1> HIDE DEF x
<1>8. LastOf(x, 1, ChunkType, <<>>) = k /\ LastOf(x, 2, ChunkType, <<>>) = v
  <2>1. 1 # 2
    OBVIOUS
  <2> QED
    BY <1>2, <1>4, <1>7, <2>1
<1>9. Fields[a \o b] = x /\ AreWhole(x) /\ a \o b \in Seq(Byte)
  BY <1>6 DEF Reads
<1>10. EntryOf(x) = [key |-> k, value |-> v]
  BY <1>8 DEF EntryOf
<1>11. ParseEntry(a \o b) = IF IsUtf8(k) /\ IsUtf8(v)
                            THEN [key |-> k, value |-> v] ELSE Malformed
  <2> DEFINE e == EntryOf(x)
  <2>1. e = [key |-> k, value |-> v] /\ e.key = k /\ e.value = v
    BY <1>10
  <2>2. ParseEntry(a \o b) = IF AreWhole(x) /\ IsUtf8(e.key) /\ IsUtf8(e.value)
                             THEN e ELSE Malformed
    BY <1>9, Zenon DEF ParseEntry, EntryIsText
  <2> HIDE DEF e
  <2> QED
    BY <1>9, <2>1, <2>2
<1> QED
  BY <1>3, <1>9, <1>11

-----------------------------------------------------------------------------
(* communication.request.DirectoryVerification                             *)

EntryPlaces(fields) == Places(fields, 2, ChunkType)
EntryAt(fields, i) == ParseEntry(fields[i].value)

(* The map that is read of fields, and whether it can be. *)
Contents(fields) == ContentsOf([i \in EntryPlaces(fields) |-> EntryAt(fields, i)])
EntriesAreText(fields) == \A i \in EntryPlaces(fields) : EntryAt(fields, i) # Malformed

(* i is the place of the last entry of its key. *)
LastEntry(fields, i) ==
  /\ i \in EntryPlaces(fields)
  /\ \A j \in EntryPlaces(fields) : EntryAt(fields, j).key = EntryAt(fields, i).key => j <= i

LEMMA ContentsFacts ==
  ASSUME NEW fs \in Seq(AnyField)
  PROVE  /\ Contents(fs) = [k \in DOMAIN Contents(fs) |-> Contents(fs)[k]]
         /\ DOMAIN Contents(fs) = {EntryAt(fs, i).key : i \in EntryPlaces(fs)}
         /\ \A i : LastEntry(fs, i)
                     => Contents(fs)[EntryAt(fs, i).key] = EntryAt(fs, i).value
         /\ \A k \in DOMAIN Contents(fs) : \E i : LastEntry(fs, i) /\ EntryAt(fs, i).key = k
<1> DEFINE P == EntryPlaces(fs)
           e == [i \in P |-> EntryAt(fs, i)]
           I(k) == {i \in P : e[i].key = k}
           K == {EntryAt(fs, i).key : i \in P}
<1>1. P \subseteq 1 .. Len(fs) /\ Len(fs) \in Nat
  BY DEF EntryPlaces, Places
<1>2. DOMAIN e = P /\ \A i \in P : e[i] = EntryAt(fs, i)
  OBVIOUS
<1>3. Contents(fs) = ContentsOf(e)
  BY DEF Contents
<1> HIDE DEF e, P
<1>4. {e[i].key : i \in P} = K
  BY <1>2
<1>5. Contents(fs) = [k \in K |-> e[Max(I(k))].value]
  <2>1. ContentsOf(e) = [k \in {e[i].key : i \in P} |-> e[Max(I(k))].value]
    BY <1>2, Zenon DEF ContentsOf
  <2> QED
    BY <1>3, <1>4, <2>1, Zenon
<1>6. ASSUME NEW k \in K
      PROVE  Max(I(k)) \in P /\ e[Max(I(k))].key = k /\ \A i \in I(k) : i <= Max(I(k))
  <2> DEFINE J == I(k)
  <2>1. J \subseteq 1 .. Len(fs) /\ J # {}
    BY <1>1, <1>2
  <2>2. \A i : i \in J <=> i \in P /\ e[i].key = k
    OBVIOUS
  <2> HIDE DEF J
  <2>3. Max(J) \in J /\ \A i \in J : i <= Max(J)
    BY <1>1, <2>1, LastPlace
  <2>4. Max(J) \in P /\ e[Max(J)].key = k /\ \A i \in J : i <= Max(J)
    BY <2>2, <2>3
  <2> QED
    BY <2>4 DEF J
<1>7. ASSUME NEW i, LastEntry(fs, i)
      PROVE  Contents(fs)[EntryAt(fs, i).key] = EntryAt(fs, i).value
  <2> DEFINE k == EntryAt(fs, i).key
  <2>1. i \in P /\ k \in K /\ i \in I(k)
    BY <1>2, <1>7 DEF LastEntry, P
  <2> HIDE DEF k, K
  <2> DEFINE m == Max(I(k))
  <2>2. m \in P /\ e[m].key = k /\ i <= m
    BY <1>6, <2>1
  <2>3. m <= i
    <3>1. EntryAt(fs, m).key = k
      BY <1>2, <2>2
    <3> HIDE DEF m
    <3> QED
      BY <1>7, <2>2, <3>1 DEF LastEntry, P, k
  <2>4. Contents(fs)[k] = e[m].value
    BY <1>5, <2>1
  <2> HIDE DEF m
  <2>5. m = i
    BY <1>1, <2>1, <2>2, <2>3
  <2>6. e[i] = EntryAt(fs, i)
    BY <1>2, <2>1
  <2>7. Contents(fs)[k] = EntryAt(fs, i).value
    BY <2>4, <2>5, <2>6, Zenon
  <2> QED
    BY <2>7 DEF k
<1>8. ASSUME NEW k \in K PROVE \E i : LastEntry(fs, i) /\ EntryAt(fs, i).key = k
  <2> DEFINE m == Max(I(k))
  <2>1. m \in P /\ e[m].key = k /\ \A i \in I(k) : i <= m
    BY <1>6
  <2>2. \A i : i \in I(k) <=> i \in P /\ e[i].key = k
    OBVIOUS
  <2> HIDE DEF m
  <2>3. EntryAt(fs, m).key = k
    BY <1>2, <2>1
  <2>4. LastEntry(fs, m)
    BY <1>2, <2>1, <2>2, <2>3 DEF LastEntry, P
  <2> QED
    BY <2>3, <2>4
<1>9. DOMAIN Contents(fs) = K
  BY <1>5
<1>10. Contents(fs) = [k \in K |-> Contents(fs)[k]]
  BY <1>5
<1> HIDE DEF K
<1> QED
  BY <1>7, <1>8, <1>9, <1>10 DEF K, P

(* Later fields are read over earlier ones. *)
LEMMA ContentsConcat ==
  ASSUME NEW fs \in Seq(AnyField), NEW gs \in Seq(AnyField)
  PROVE  /\ Contents(fs \o gs) = Overlaid(Contents(fs), Contents(gs))
         /\ EntriesAreText(fs \o gs) <=> EntriesAreText(fs) /\ EntriesAreText(gs)
<1> DEFINE all == fs \o gs
           n == Len(fs)
           A == EntryPlaces(all)
           F == EntryPlaces(fs)
           G == EntryPlaces(gs)
<1>1. all \in Seq(AnyField) /\ IsConcat(all, fs, gs)
  BY ElementsOfConcat
<1> HIDE DEF all
<1>2. /\ \A i \in 1 .. n : i \in A <=> i \in F
      /\ \A i \in 1 .. Len(gs) : n + i \in A <=> i \in G
      /\ \A i \in A : i \in 1 .. n \/ \E j \in 1 .. Len(gs) : i = n + j
      /\ F \subseteq 1 .. n /\ G \subseteq 1 .. Len(gs)
      /\ n \in Nat /\ Len(gs) \in Nat
  BY <1>1 DEF IsConcat, EntryPlaces, Places
<1>3. /\ \A i \in F : i \in A /\ EntryAt(all, i) = EntryAt(fs, i)
      /\ \A i \in G : n + i \in A /\ EntryAt(all, n + i) = EntryAt(gs, i)
  <2>1. \A i \in F : i \in A /\ all[i] = fs[i]
    BY <1>1, <1>2 DEF IsConcat
  <2>2. \A i \in G : n + i \in A /\ all[n + i] = gs[i]
    BY <1>1, <1>2 DEF IsConcat
  <2> QED
    BY <2>1, <2>2 DEF EntryAt
<1>4. \A i \in A : i \in F \/ \E j \in G : i = n + j
  BY <1>2
<1> HIDE DEF A, F, G, n
<1>5. EntriesAreText(all) <=> EntriesAreText(fs) /\ EntriesAreText(gs)
  BY <1>3, <1>4 DEF EntriesAreText, A, F, G
<1> DEFINE c == Contents(fs)
           d == Contents(gs)
           w == Contents(all)
<1>6. /\ w = [k \in DOMAIN w |-> w[k]]
      /\ DOMAIN w = {EntryAt(all, i).key : i \in A}
      /\ DOMAIN c = {EntryAt(fs, i).key : i \in F}
      /\ DOMAIN d = {EntryAt(gs, i).key : i \in G}
      /\ \A i : LastEntry(all, i) => w[EntryAt(all, i).key] = EntryAt(all, i).value
      /\ \A i : LastEntry(fs, i) => c[EntryAt(fs, i).key] = EntryAt(fs, i).value
      /\ \A i : LastEntry(gs, i) => d[EntryAt(gs, i).key] = EntryAt(gs, i).value
      /\ \A k \in DOMAIN c : \E i : LastEntry(fs, i) /\ EntryAt(fs, i).key = k
      /\ \A k \in DOMAIN d : \E i : LastEntry(gs, i) /\ EntryAt(gs, i).key = k
  BY <1>1, ContentsFacts DEF A, F, G
<1> HIDE DEF c, d, w
<1>7. DOMAIN w = DOMAIN c \cup DOMAIN d
  <2>1. \A i \in F : EntryAt(fs, i).key \in DOMAIN w
    BY <1>3, <1>6
  <2>2. \A i \in G : EntryAt(gs, i).key \in DOMAIN w
    BY <1>3, <1>6
  <2>3. \A i \in A : EntryAt(all, i).key \in DOMAIN c \cup DOMAIN d
    BY <1>3, <1>4, <1>6
  <2> QED
    BY <1>6, <2>1, <2>2, <2>3
<1>8. ASSUME NEW k \in DOMAIN d PROVE w[k] = d[k]
  <2>1. PICK i : LastEntry(gs, i) /\ EntryAt(gs, i).key = k
    BY <1>6
  <2>2. i \in G /\ n + i \in A /\ EntryAt(all, n + i) = EntryAt(gs, i)
    BY <1>3, <2>1 DEF LastEntry, G
  <2>3. ASSUME NEW j \in A, EntryAt(all, j).key = k PROVE j <= n + i
    <3>1. CASE j \in F
      BY <1>2, <2>2, <3>1
    <3>2. ASSUME NEW l \in G, j = n + l PROVE j <= n + i
      <4>1. EntryAt(gs, l).key = k
        BY <1>3, <2>3, <3>2
      <4>2. l <= i
        BY <2>1, <4>1 DEF LastEntry, G
      <4> QED
        BY <1>2, <2>2, <3>2, <4>2
    <3> QED
      BY <1>4, <3>1, <3>2
  <2>4. LastEntry(all, n + i)
    BY <2>1, <2>2, <2>3 DEF LastEntry, A
  <2>5. w[EntryAt(all, n + i).key] = EntryAt(all, n + i).value
    BY <1>6, <2>4
  <2>6. d[EntryAt(gs, i).key] = EntryAt(gs, i).value
    BY <1>6, <2>1
  <2> QED
    BY <2>1, <2>2, <2>5, <2>6
<1>9. ASSUME NEW k \in DOMAIN c, k \notin DOMAIN d PROVE w[k] = c[k]
  <2>1. PICK i : LastEntry(fs, i) /\ EntryAt(fs, i).key = k
    BY <1>6
  <2>2. i \in F /\ i \in A /\ EntryAt(all, i) = EntryAt(fs, i)
    BY <1>3, <2>1 DEF LastEntry, F
  <2>3. ASSUME NEW j \in A, EntryAt(all, j).key = k PROVE j <= i
    <3>1. CASE j \in F
      <4>1. EntryAt(fs, j).key = k
        BY <1>3, <2>3, <3>1
      <4> QED
        BY <2>1, <3>1, <4>1 DEF LastEntry, F
    <3>2. ASSUME NEW l \in G, j = n + l PROVE FALSE
      <4>1. EntryAt(gs, l).key = k
        BY <1>3, <2>3, <3>2
      <4> QED
        BY <1>6, <1>9, <4>1
    <3> QED
      BY <1>4, <3>1, <3>2
  <2>4. LastEntry(all, i)
    BY <2>1, <2>2, <2>3 DEF LastEntry, A
  <2>5. w[EntryAt(all, i).key] = EntryAt(all, i).value
    BY <1>6, <2>4
  <2>6. c[EntryAt(fs, i).key] = EntryAt(fs, i).value
    BY <1>6, <2>1
  <2> QED
    BY <2>1, <2>2, <2>5, <2>6
<1>10. w = Overlaid(c, d)
  <2>1. Overlaid(c, d)
          = [k \in DOMAIN c \cup DOMAIN d |-> IF k \in DOMAIN d THEN d[k] ELSE c[k]]
    BY DEF Overlaid
  <2>2. w = [k \in DOMAIN c \cup DOMAIN d |-> w[k]]
    BY <1>6, <1>7
  <2>3. \A k \in DOMAIN c \cup DOMAIN d : w[k] = IF k \in DOMAIN d THEN d[k] ELSE c[k]
    BY <1>8, <1>9
  <2> DEFINE K == DOMAIN c \cup DOMAIN d
             V(k) == IF k \in DOMAIN d THEN d[k] ELSE c[k]
  <2>4. [k \in K |-> w[k]] = [k \in K |-> V(k)]
    BY <2>3
  <2> QED
    BY <2>1, <2>2, <2>4, Zenon
<1> QED
  BY <1>5, <1>10 DEF all, c, d, w

LEMMA NoContents ==
  ASSUME NEW fs \in Seq(AnyField), EntryPlaces(fs) = {}
  PROVE  DOMAIN Contents(fs) = {} /\ EntriesAreText(fs)
BY ContentsFacts DEF EntriesAreText

IsEntry(fs, k, v) ==
  /\ EntriesAreText(fs) <=> IsUtf8(k) /\ IsUtf8(v)
  /\ IsUtf8(k) /\ IsUtf8(v) => Contents(fs) = [x \in {k} |-> v]

LEMMA OneEntry ==
  ASSUME NEW k, NEW v, Short(k), Short(v), Short(Entry(k, v)), NEW f,
         f = ChunkField(2, Entry(k, v))
  PROVE  IsEntry(<<f>>, k, v)
<1> DEFINE fs == <<f>>
           e == EntryAt(fs, 1)
<1>1. f \in AnyField
  <2>1. 2 \in 1 .. 15
    OBVIOUS
  <2> QED
    BY <2>1, OneChunk
<1>2. fs \in Seq(AnyField) /\ DOMAIN fs = {1} /\ fs[1] = f
  BY <1>1
<1>3. f.number = 2 /\ f.type = ChunkType /\ f.value = Entry(k, v)
  BY DEF ChunkField
<1> HIDE DEF fs
<1>4. EntryPlaces(fs) = {1}
  BY <1>2, <1>3 DEF EntryPlaces, Places
<1>5. e = IF IsUtf8(k) /\ IsUtf8(v) THEN [key |-> k, value |-> v] ELSE Malformed
  BY <1>2, <1>3, EntryWritten DEF EntryAt
<1>6. [key |-> k, value |-> v] # Malformed
  <2>1. "key" \in DOMAIN [key |-> k, value |-> v] /\ "key" \notin DOMAIN Malformed
    BY DEF Malformed
  <2> QED
    BY <2>1, Zenon
<1> HIDE DEF e
<1>7. EntriesAreText(fs) <=> IsUtf8(k) /\ IsUtf8(v)
  <2>1. EntriesAreText(fs) <=> e # Malformed
    BY <1>4 DEF EntriesAreText, e
  <2> QED
    BY <1>5, <1>6, <2>1
<1>8. ASSUME IsUtf8(k), IsUtf8(v) PROVE Contents(fs) = [x \in {k} |-> v]
  <2>1. e = [key |-> k, value |-> v]
    BY <1>5, <1>8
  <2>2. e.key = k /\ e.value = v
    BY <2>1
  <2>3. LastEntry(fs, 1)
    BY <1>4 DEF LastEntry
  <2>4. /\ Contents(fs) = [x \in DOMAIN Contents(fs) |-> Contents(fs)[x]]
        /\ DOMAIN Contents(fs) = {EntryAt(fs, i).key : i \in {1}}
        /\ Contents(fs)[EntryAt(fs, 1).key] = EntryAt(fs, 1).value
    BY <1>2, <1>4, <2>3, ContentsFacts
  <2>5. DOMAIN Contents(fs) = {k} /\ Contents(fs)[k] = v
    BY <2>2, <2>4 DEF e
  <2> QED
    BY <2>4, <2>5
<1> QED
  BY <1>7, <1>8 DEF fs, IsEntry

(* A map whose entries can be written. *)
ShortMap(c, D) ==
  /\ c \in [D -> Seq(Byte)] /\ D \subseteq Seq(Byte)
  /\ \A k \in D : Short(k) /\ Short(c[k]) /\ Short(Entry(k, c[k]))

EntryBytes(c, ks) == FlattenSeq([i \in DOMAIN ks |-> Chunk(2, Entry(ks[i], c[ks[i]]))])

LEMMA EntryPart ==
  ASSUME NEW k, NEW v, Short(k), Short(v), Short(Entry(k, v)), NEW f,
         f = ChunkField(2, Entry(k, v))
  PROVE  ChunkPart(Chunk(2, Entry(k, v)), <<f>>, 2, Entry(k, v), VerificationTags)
<1> DEFINE e == Entry(k, v)
           T == VerificationTags
<1>1. 1 \in 1 .. 15 /\ 2 \in 1 .. 15
  OBVIOUS
<1>2. e # <<>>
  <2>1. Chunk(1, k) \in Seq(Byte) /\ Chunk(1, k) # <<>> /\ Chunk(2, v) \in Seq(Byte)
    BY <1>1, FirstOfChunk DEF Short
  <2> DEFINE a == Chunk(1, k)
             b == Chunk(2, v)
  <2>2. e = a \o b
    BY DEF Entry
  <2> HIDE DEF a, b, e
  <2>3. a \in Seq(Byte) /\ a # <<>> /\ b \in Seq(Byte)
    BY <2>1 DEF a, b
  <2>4. Len(a \o b) = Len(a) + Len(b) /\ Len(a) # 0 /\ Len(a) \in Nat /\ Len(b) \in Nat
    BY <2>3
  <2> QED
    BY <2>2, <2>4
<1>3. <<2, ChunkType>> \in T /\ Short(e)
  BY DEF VerificationTags
<1> HIDE DEF T, e
<1>4. ChunkPart(ChunkUnlessEmpty(2, e), ChunkFields(2, e), 2, e, T)
  BY <1>1, <1>3, ChunkWritten
<1>5. ChunkUnlessEmpty(2, e) = Chunk(2, e) /\ ChunkFields(2, e) = <<f>>
  BY <1>2 DEF ChunkUnlessEmpty, ChunkFields, e
<1> QED
  BY <1>4, <1>5 DEF e, T

LEMMA EntryBytesLast ==
  ASSUME NEW D, NEW c, ShortMap(c, D), NEW ks \in Seq(D), NEW k \in D
  PROVE  /\ EntryBytes(c, <<>>) = <<>> /\ EntryBytes(c, ks) \in Seq(Byte)
         /\ EntryBytes(c, ks \o <<k>>) = EntryBytes(c, ks) \o Chunk(2, Entry(k, c[k]))
<1> DEFINE m == [x \in D |-> Chunk(2, Entry(x, c[x]))]
<1>1. \A x \in D : Chunk(2, Entry(x, c[x])) \in Seq(Byte)
  <2>1. 2 \in 1 .. 15
    OBVIOUS
  <2> QED
    BY <2>1, FirstOfChunk DEF ShortMap, Short
<1>2. Maps(m, D, Seq(Byte))
  BY <1>1 DEF Maps
<1>3. ASSUME NEW s \in Seq(D) PROVE EntryBytes(c, s) = FlattenSeq(Mapped(m, s))
  <2>1. \A i \in DOMAIN s : m[s[i]] = Chunk(2, Entry(s[i], c[s[i]]))
    <3> TAKE i \in DOMAIN s
    <3>1. s[i] \in D
      OBVIOUS
    <3> QED
      BY <3>1
  <2> HIDE DEF m
  <2>2. [i \in DOMAIN s |-> m[s[i]]] = [i \in DOMAIN s |-> Chunk(2, Entry(s[i], c[s[i]]))]
    BY <2>1, Zenon
  <2> QED
    BY <2>2, Zenon DEF EntryBytes, Mapped
<1>4. m[k] = Chunk(2, Entry(k, c[k])) /\ m[k] \in Seq(Byte)
  BY <1>1
<1> HIDE DEF m
<1> DEFINE one == <<k>>
           M == Mapped(m, ks)
<1>5. /\ one \in Seq(D) /\ ks \o one \in Seq(D) /\ <<>> \in Seq(D)
      /\ Len(one) = 1 /\ one[1] = k
  BY ConcatProperties
<1> HIDE DEF one, M
<1>6. Mapped(m, ks \o one) = M \o Mapped(m, one)
  BY <1>2, <1>5, MapConcat DEF M
<1>7. Mapped(m, one) = <<m[k]>>
  <2> DEFINE O == Mapped(m, one)
  <2>1. O \in Seq(Seq(Byte)) /\ IsMapped(O, m, one)
    BY <1>2, <1>5, MapType
  <2> HIDE DEF O
  <2>2. Len(O) = 1 /\ O[1] = m[k]
    BY <1>5, <2>1 DEF IsMapped
  <2>3. O = <<m[k]>>
    BY <2>1, <2>2
  <2> QED
    BY <2>3 DEF O
<1>8. M \in Seq(Seq(Byte))
  BY <1>2, MapType DEF M
<1>9. /\ FlattenSeq(M \o <<m[k]>>) = FlattenSeq(M) \o m[k]
      /\ FlattenSeq(M) \in Seq(Byte)
  BY <1>4, <1>8, FlattenLast
<1>10. EntryBytes(c, ks) = FlattenSeq(M)
  BY <1>3 DEF M
<1>11. EntryBytes(c, ks \o one) = FlattenSeq(Mapped(m, ks \o one))
  BY <1>3, <1>5
<1>12. EntryBytes(c, ks \o one) = EntryBytes(c, ks) \o m[k]
  BY <1>6, <1>7, <1>9, <1>10, <1>11
<1>13. EntryBytes(c, <<>>) = <<>>
  <2> DEFINE s == <<>>
             g == [i \in DOMAIN s |-> Chunk(2, Entry(s[i], c[s[i]]))]
  <2>1. g = <<>>
    OBVIOUS
  <2>2. EntryBytes(c, s) = FlattenSeq(g)
    BY DEF EntryBytes
  <2> HIDE DEF g
  <2> QED
    BY <2>1, <2>2, FlattenEmpty
<1> QED
  BY <1>4, <1>9, <1>10, <1>12, <1>13 DEF one

(* fields are what the entries of c for the keys are read as. *)
EntriesIn(c, ks, bytes, fields) ==
  /\ Reads(bytes, fields) /\ Unknown(fields, VerificationTags) = <<>>
  /\ AreText(fields, {1}) /\ \A d : LastOf(fields, 1, ChunkType, d) = d
  /\ EntriesAreText(fields) <=> \A k \in Range(ks) : IsUtf8(k) /\ IsUtf8(c[k])
  /\ EntriesAreText(fields) => Contents(fields) = [k \in Range(ks) |-> c[k]]

LEMMA RangeLast ==
  ASSUME NEW D, NEW ks \in Seq(D), NEW k \in D
  PROVE  Range(<<>>) = {} /\ Range(ks) \subseteq D /\ Range(ks \o <<k>>) = Range(ks) \cup {k}
<1> DEFINE one == <<k>>
           all == ks \o one
<1>1. one \in Seq(D) /\ Len(one) = 1 /\ one[1] = k
  OBVIOUS
<1> HIDE DEF one
<1>2. IsConcat(all, ks, one)
  BY <1>1, ElementsOfConcat
<1> HIDE DEF all
<1>3. Range(all) = Range(ks) \cup {k}
  <2>1. \A x \in Range(all) : x \in Range(ks) \cup {k}
    <3> TAKE x \in Range(all)
    <3>1. PICK i \in DOMAIN all : x = all[i]
      BY DEF Range
    <3>2. CASE i \in 1 .. Len(ks)
      <4>1. x = ks[i] /\ i \in DOMAIN ks
        BY <1>2, <3>1, <3>2 DEF IsConcat
      <4> QED
        BY <4>1 DEF Range
    <3>3. CASE i \notin 1 .. Len(ks)
      <4>1. PICK j \in 1 .. Len(one) : i = Len(ks) + j
        BY <1>2, <3>3 DEF IsConcat
      <4>2. x = one[j] /\ j = 1
        BY <1>1, <1>2, <3>1, <4>1 DEF IsConcat
      <4> QED
        BY <1>1, <4>2
    <3> QED
      BY <3>2, <3>3
  <2>2. \A x \in Range(ks) : x \in Range(all)
    <3> TAKE x \in Range(ks)
    <3>1. PICK i \in DOMAIN ks : x = ks[i]
      BY DEF Range
    <3>2. i \in DOMAIN all /\ x = all[i]
      BY <1>2, <3>1 DEF IsConcat
    <3> QED
      BY <3>2 DEF Range
  <2>3. k \in Range(all)
    <3>1. 1 \in 1 .. Len(one)
      BY <1>1
    <3>2. Len(ks) + 1 \in DOMAIN all /\ all[Len(ks) + 1] = k
      BY <1>1, <1>2, <3>1 DEF IsConcat
    <3> QED
      BY <3>2 DEF Range
  <2> QED
    BY <2>1, <2>2, <2>3
<1>4. Range(<<>>) = {} /\ Range(ks) \subseteq D
  BY DEF Range
<1> QED
  BY <1>3, <1>4 DEF all, one

LEMMA EntriesStep ==
  ASSUME NEW D, NEW c, ShortMap(c, D), NEW ks \in Seq(D), NEW k \in D,
         NEW b, NEW fs, EntriesIn(c, ks, b, fs), NEW f, f = ChunkField(2, Entry(k, c[k]))
  PROVE  EntriesIn(c, ks \o <<k>>, b \o Chunk(2, Entry(k, c[k])), fs \o <<f>>)
<1> DEFINE v == c[k]
           e == Chunk(2, Entry(k, v))
           T == VerificationTags
           R == Range(ks)
           F == <<f>>
           x == fs \o F
<1>1. Short(k) /\ Short(v) /\ Short(Entry(k, v))
  BY DEF ShortMap
<1>2. ChunkPart(e, F, 2, Entry(k, v), T)
  BY <1>1, EntryPart
<1>3. /\ EntriesAreText(F) <=> IsUtf8(k) /\ IsUtf8(v)
      /\ IsUtf8(k) /\ IsUtf8(v) => Contents(F) = [y \in {k} |-> v]
  <2>1. IsEntry(F, k, v)
    BY <1>1, OneEntry
  <2> HIDE DEF F, v
  <2> QED
    BY <2>1, Zenon DEF IsEntry
<1>4. Range(ks \o <<k>>) = R \cup {k}
  BY RangeLast
<1> HIDE DEF R, F, T, e
<1>5. Reads(b, fs) /\ Reads(e, F)
  BY <1>2 DEF EntriesIn, ChunkPart
<1>6. fs \in Seq(AnyField) /\ F \in Seq(AnyField)
  BY <1>5 DEF Reads
<1>7. Reads(b \o e, x)
  BY <1>5, ReadsConcat
<1>8. Follow(x, fs, F)
  BY <1>6, TwoParts
<1>9. /\ Contents(x) = Overlaid(Contents(fs), Contents(F))
      /\ EntriesAreText(x) <=> EntriesAreText(fs) /\ EntriesAreText(F)
  BY <1>6, ContentsConcat
<1> HIDE DEF x
<1>10. Unknown(x, T) = <<>>
  <2>1. Unknown(fs, T) = <<>> /\ Unknown(F, T) = <<>> /\ <<>> \o <<>> = <<>>
    BY <1>2 DEF EntriesIn, ChunkPart, T
  <2>2. Unknown(x, T) = Unknown(fs, T) \o Unknown(F, T)
    BY <1>8, Zenon DEF Follow
  <2> QED
    BY <2>1, <2>2, Zenon
<1>11. AreText(x, {1})
  <2>1. AreText(F, {1})
    <3>1. 2 \notin {1}
      OBVIOUS
    <3> QED
      BY <1>2, <3>1, Zenon DEF ChunkPart
  <2>2. AreText(fs, {1})
    BY DEF EntriesIn
  <2> QED
    BY <1>8, <2>1, <2>2, Zenon DEF Follow
<1>12. \A d : LastOf(x, 1, ChunkType, d) = d
  <2> TAKE d
  <2>1. LastOf(x, 1, ChunkType, d) = LastOf(F, 1, ChunkType, LastOf(fs, 1, ChunkType, d))
    BY <1>8, Zenon DEF Follow
  <2>2. LastOf(fs, 1, ChunkType, d) = d
    BY Zenon DEF EntriesIn
  <2>3. LastOf(F, 1, ChunkType, d) = d
    <3>1. ~ (1 = 2)
      OBVIOUS
    <3>2. LastOf(F, 1, ChunkType, d)
            = IF 1 = 2 /\ ChunkType = ChunkType THEN NewString(d, Entry(k, v)) ELSE d
      <4> HIDE DEF v
      <4>1. \A j, t, z : LastOf(F, j, t, z)
              = IF j = 2 /\ t = ChunkType THEN NewString(z, Entry(k, v)) ELSE z
        BY <1>2 DEF ChunkPart
      <4> QED
        BY <4>1
    <3> QED
      BY <3>1, <3>2
  <2> QED
    BY <2>1, <2>2, <2>3
<1>13. EntriesAreText(x) <=> \A y \in R \cup {k} : IsUtf8(y) /\ IsUtf8(c[y])
  <2>1. EntriesAreText(fs) <=> \A y \in R : IsUtf8(y) /\ IsUtf8(c[y])
    BY Zenon DEF EntriesIn, R
  <2> QED
    BY <1>3, <1>9, <2>1
<1>14. ASSUME EntriesAreText(x) PROVE Contents(x) = [y \in R \cup {k} |-> c[y]]
  <2> DEFINE A == [y \in R |-> c[y]]
             B == [y \in {k} |-> v]
  <2>1. Contents(fs) = A
    BY <1>9, <1>14 DEF EntriesIn, R
  <2>2. Contents(F) = B
    BY <1>3, <1>9, <1>14
  <2>3. DOMAIN A = R /\ DOMAIN B = {k} /\ (\A y \in R : A[y] = c[y]) /\ B[k] = c[k]
    OBVIOUS
  <2> HIDE DEF A, B
  <2>4. Overlaid(A, B) = [y \in R \cup {k} |-> IF y \in {k} THEN B[y] ELSE A[y]]
    BY <2>3, Zenon DEF Overlaid
  <2>5. \A y \in R \cup {k} : (IF y \in {k} THEN B[y] ELSE A[y]) = c[y]
    BY <2>3
  <2>6. [y \in R \cup {k} |-> IF y \in {k} THEN B[y] ELSE A[y]] = [y \in R \cup {k} |-> c[y]]
    BY <2>5, Zenon
  <2> QED
    BY <1>9, <2>1, <2>2, <2>4, <2>6, Zenon
<1>15. EntriesIn(c, ks \o <<k>>, b \o e, x)
  BY <1>4, <1>7, <1>10, <1>11, <1>12, <1>13, <1>14, Zenon DEF EntriesIn, T
<1> QED
  BY <1>15 DEF x, e, F

LEMMA EntriesWritten ==
  ASSUME NEW D, NEW c, ShortMap(c, D), NEW ks \in Seq(D)
  PROVE  \E fields : EntriesIn(c, ks, EntryBytes(c, ks), fields)
<1> DEFINE P == {s \in Seq(D) : \E fields : EntriesIn(c, s, EntryBytes(c, s), fields)}
<1>0. <<>> \in Seq(AnyField) /\ Cut \in AnyField
  BY DEF AnyField
<1>1. <<>> \in P
  <2>1. <<>> \in Seq(D)
    OBVIOUS
  <2>2. EntryBytes(c, <<>>) = <<>>
    <3> DEFINE s == <<>>
               g == [i \in DOMAIN s |-> Chunk(2, Entry(s[i], c[s[i]]))]
    <3>1. g = <<>>
      OBVIOUS
    <3>2. EntryBytes(c, s) = FlattenSeq(g)
      BY DEF EntryBytes
    <3> HIDE DEF g
    <3> QED
      BY <3>1, <3>2, FlattenEmpty
  <2>3. Range(<<>>) = {}
    BY DEF Range
  <2>4. EntryPlaces(<<>>) = {}
    BY DEF EntryPlaces, Places
  <2>5. DOMAIN Contents(<<>>) = {} /\ EntriesAreText(<<>>)
    BY <1>0, <2>4, NoContents
  <2>6. Contents(<<>>) = [k \in {} |-> c[k]]
    BY <1>0, <2>5, ContentsFacts
  <2>7. Unknown(<<>>, VerificationTags) = <<>>
    BY <1>0, UnknownLast
  <2>8. EntriesIn(c, <<>>, <<>>, <<>>)
    BY <2>3, <2>5, <2>6, <2>7, NothingUnknown, NothingIsText, LastOfNothing DEF EntriesIn
  <2> QED
    BY <2>1, <2>2, <2>8
<1>2. ASSUME NEW s \in Seq(D), NEW k \in D, s \in P
      PROVE  s \o <<k>> \in P
  <2>1. PICK fs : EntriesIn(c, s, EntryBytes(c, s), fs)
    BY <1>2
  <2> DEFINE f == ChunkField(2, Entry(k, c[k]))
  <2>2. EntriesIn(c, s \o <<k>>, EntryBytes(c, s) \o Chunk(2, Entry(k, c[k])), fs \o <<f>>)
    BY <2>1, EntriesStep
  <2>3. EntryBytes(c, s \o <<k>>) = EntryBytes(c, s) \o Chunk(2, Entry(k, c[k]))
    BY EntryBytesLast
  <2>4. s \o <<k>> \in Seq(D)
    OBVIOUS
  <2> HIDE DEF f
  <2> QED
    BY <2>2, <2>3, <2>4
<1>3. Seq(D) \subseteq P
  <2> HIDE DEF P
  <2> QED
    BY <1>1, <1>2, SeqInduction, Zenon
<1> QED
  BY <1>3

(* No element comes twice. *)
Distinct(s) == \A i, j \in DOMAIN s : i # j => s[i] # s[j]

LEMMA DistinctLast ==
  ASSUME NEW D, NEW s \in Seq(D), NEW k \in D, Distinct(s \o <<k>>)
  PROVE  Distinct(s) /\ k \notin Range(s)
<1> DEFINE one == <<k>>
           all == s \o one
<1>1. one \in Seq(D) /\ Len(one) = 1 /\ one[1] = k /\ 1 \in 1 .. Len(one)
  OBVIOUS
<1>2. Distinct(all)
  OBVIOUS
<1> HIDE DEF one
<1>3. IsConcat(all, s, one)
  BY <1>1, ElementsOfConcat
<1> HIDE DEF all
<1>4. /\ \A i \in DOMAIN s : i \in DOMAIN all /\ all[i] = s[i] /\ i # Len(s) + 1
      /\ Len(s) + 1 \in DOMAIN all /\ all[Len(s) + 1] = k
  BY <1>1, <1>3 DEF IsConcat
<1>5. Distinct(s)
  BY <1>2, <1>4 DEF Distinct
<1>6. \A i \in DOMAIN s : s[i] # k
  BY <1>2, <1>4 DEF Distinct
<1> QED
  BY <1>5, <1>6 DEF Range

LEMMA SetToSeqsFacts ==
  ASSUME NEW D, IsFiniteSet(D), NEW ks \in SetToSeqs(D)
  PROVE  ks \in Seq(D) /\ Distinct(ks) /\ Range(ks) = D
<1> DEFINE n == Cardinality(D)
<1>1. n \in Nat
  BY FS_CardinalityType
<1>2. ks \in [1 .. n -> D] /\ \A i, j \in 1 .. n : i # j => ks[i] # ks[j]
  BY DEF SetToSeqs
<1> HIDE DEF n
<1>3. ks \in Seq(D) /\ Distinct(ks)
  BY <1>1, <1>2, SeqDef DEF Distinct
<1>4. ks \in Injection(1 .. n, D)
  BY <1>2 DEF Injection, IsInjective
<1>5. IsFiniteSet(1 .. n) /\ Cardinality(1 .. n) = n
  <2>1. 1 \in Int /\ n \in Int /\ (IF 1 > n THEN 0 ELSE n - 1 + 1) = n
    BY <1>1
  <2> QED
    BY <2>1, FS_Interval
<1>6. ks \in Surjection(1 .. n, D)
  BY <1>4, <1>5, FS_Injection DEF n
<1>7. Range(ks) = D
  BY <1>2, <1>6 DEF Surjection, Range
<1> QED
  BY <1>3, <1>7

EntrySizes(c, D) == [key \in D |-> 1 + StringSize(Entry(key, c[key]))]

LEMMA EntrySizesType ==
  ASSUME NEW D, NEW c, ShortMap(c, D)
  PROVE  /\ EntrySizes(c, D) \in [D -> Nat]
         /\ \A k \in D : /\ EntrySizes(c, D)[k] = Len(Chunk(2, Entry(k, c[k])))
                         /\ Chunk(2, Entry(k, c[k])) \in Seq(Byte)
<1>1. ASSUME NEW k \in D
      PROVE  /\ EntrySizes(c, D)[k] = Len(Chunk(2, Entry(k, c[k])))
             /\ Chunk(2, Entry(k, c[k])) \in Seq(Byte)
             /\ 1 + StringSize(Entry(k, c[k])) \in Nat
  <2> DEFINE e == Entry(k, c[k])
  <2>1. 2 \in 1 .. 15 /\ e \in Seq(Byte) /\ Len(e) <= MaxInt32
    BY DEF ShortMap, Short
  <2>2. Chunk(2, e) \in Seq(Byte) /\ Len(Chunk(2, e)) = 1 + StringSize(e)
    BY <2>1, FirstOfChunk
  <2>3. EntrySizes(c, D)[k] = 1 + StringSize(e)
    BY DEF EntrySizes
  <2>4. Len(Chunk(2, e)) \in Nat
    BY <2>2, LenProperties
  <2> HIDE DEF e
  <2> QED
    BY <2>2, <2>3, <2>4 DEF e
<1>2. EntrySizes(c, D) \in [D -> Nat]
  BY <1>1 DEF EntrySizes
<1> QED
  BY <1>1, <1>2

LEMMA EntriesSize ==
  ASSUME NEW D, IsFiniteSet(D), NEW c, ShortMap(c, D), NEW ks \in SetToSeqs(D)
  PROVE  Len(EntryBytes(c, ks)) = SumFunction(EntrySizes(c, D))
<1> DEFINE f == EntrySizes(c, D)
<1>1. f \in [D -> Nat]
  BY EntrySizesType
<1>2. PICK g : IsSum(g, f, D)
  BY <1>1, SumFacts
<1> DEFINE P == {s \in Seq(D) : Distinct(s) => Len(EntryBytes(c, s)) = g[Range(s)]}
<1>3. <<>> \in P
  <2>1. <<>> \in Seq(D) /\ Range(<<>>) = {} /\ Len(<<>>) = 0
    BY DEF Range
  <2>2. EntryBytes(c, <<>>) = <<>>
    <3> DEFINE s == <<>>
               h == [i \in DOMAIN s |-> Chunk(2, Entry(s[i], c[s[i]]))]
    <3>1. h = <<>>
      OBVIOUS
    <3>2. EntryBytes(c, s) = FlattenSeq(h)
      BY DEF EntryBytes
    <3> HIDE DEF h
    <3> QED
      BY <3>1, <3>2, FlattenEmpty
  <2> QED
    BY <1>2, <2>1, <2>2 DEF IsSum
<1>4. ASSUME NEW s \in Seq(D), NEW k \in D, s \in P
      PROVE  s \o <<k>> \in P
  <2> DEFINE t == s \o <<k>>
             b == EntryBytes(c, s)
             e == Chunk(2, Entry(k, c[k]))
             R == Range(s)
  <2>1. t \in Seq(D)
    OBVIOUS
  <2> SUFFICES ASSUME Distinct(t) PROVE Len(EntryBytes(c, t)) = g[Range(t)]
    BY <2>1
  <2>2. Distinct(s) /\ k \notin R
    BY DistinctLast
  <2>3. Len(b) = g[R]
    BY <1>4, <2>2
  <2>4. EntryBytes(c, t) = b \o e /\ b \in Seq(Byte)
    BY EntryBytesLast
  <2>5. f[k] = Len(e) /\ e \in Seq(Byte)
    BY EntrySizesType
  <2>6. Range(t) = R \cup {k} /\ R \in SUBSET D
    BY RangeLast
  <2> HIDE DEF t, b, e, R, f
  <2>7. Len(b \o e) = Len(b) + Len(e)
    BY <2>4, <2>5, ConcatProperties
  <2>8. g[R \cup {k}] = g[R] + f[k]
    BY <1>2, <2>2, <2>6 DEF IsSum
  <2> QED
    BY <2>3, <2>4, <2>5, <2>6, <2>7, <2>8
<1>5. Seq(D) \subseteq P
  <2> HIDE DEF P
  <2> QED
    BY <1>3, <1>4, SeqInduction, Zenon
<1>6. ks \in Seq(D) /\ Distinct(ks) /\ Range(ks) = D
  BY SetToSeqsFacts
<1>7. Len(EntryBytes(c, ks)) = g[D]
  BY <1>5, <1>6
<1> QED
  BY <1>2, <1>7 DEF IsSum

(* What can be written of a DirectoryVerification, and which of it read. *)
AllShort(m) == Short(m.root_name) /\ ShortMap(m.contents, DOMAIN m.contents)
AllText(m) ==
  /\ IsUtf8(m.root_name)
  /\ \A k \in DOMAIN m.contents : IsUtf8(k) /\ IsUtf8(m.contents[k])

(* fields are what the bytes that m is written as are read as. *)
VerificationIn(m, bytes, fields) ==
  /\ Reads(bytes, fields)
  /\ \A d : LastOf(fields, 1, ChunkType, d) = NewString(d, m.root_name)
  /\ AreText(fields, {1}) /\ EntriesAreText(fields) <=> AllText(m)
  /\ Unknown(fields, VerificationTags) = m.unknown
  /\ EntriesAreText(fields) => Contents(fields) = m.contents

LEMMA OverlaidNothing ==
  ASSUME NEW c, c = [k \in DOMAIN c |-> c[k]], NEW d, DOMAIN d = {}
  PROVE  Overlaid(c, d) = c /\ Overlaid(d, c) = c
<1> DEFINE K == DOMAIN c
<1>1. DOMAIN c \cup DOMAIN d = K /\ DOMAIN d \cup DOMAIN c = K
  OBVIOUS
<1>2. Overlaid(c, d) = [k \in K |-> IF k \in DOMAIN d THEN d[k] ELSE c[k]]
  BY <1>1 DEF Overlaid
<1>3. Overlaid(d, c) = [k \in K |-> IF k \in K THEN c[k] ELSE d[k]]
  BY <1>1 DEF Overlaid
<1>4. \A k \in K : /\ (IF k \in DOMAIN d THEN d[k] ELSE c[k]) = c[k]
                   /\ (IF k \in K THEN c[k] ELSE d[k]) = c[k]
  OBVIOUS
<1>5. c = [k \in K |-> c[k]]
  OBVIOUS
<1> HIDE DEF K
<1> QED
  BY <1>2, <1>3, <1>4, <1>5

LEMMA ReadContents ==
  ASSUME NEW fs \in Seq(AnyField), NEW es \in Seq(AnyField), NEW us \in Seq(AnyField),
         EntryPlaces(fs) = {}, EntryPlaces(us) = {}
  PROVE  /\ Contents((fs \o es) \o us) = Contents(es)
         /\ EntriesAreText((fs \o es) \o us) <=> EntriesAreText(es)
<1> DEFINE x == fs \o es
<1>1. x \in Seq(AnyField)
  BY ConcatProperties
<1>2. /\ Contents(x) = Overlaid(Contents(fs), Contents(es))
      /\ EntriesAreText(x) <=> EntriesAreText(fs) /\ EntriesAreText(es)
  BY ContentsConcat
<1> HIDE DEF x
<1>3. /\ Contents(x \o us) = Overlaid(Contents(x), Contents(us))
      /\ EntriesAreText(x \o us) <=> EntriesAreText(x) /\ EntriesAreText(us)
  BY <1>1, ContentsConcat
<1>4. /\ DOMAIN Contents(fs) = {} /\ EntriesAreText(fs)
      /\ DOMAIN Contents(us) = {} /\ EntriesAreText(us)
  BY NoContents
<1>5. Contents(es) = [k \in DOMAIN Contents(es) |-> Contents(es)[k]]
  BY ContentsFacts
<1>6. Overlaid(Contents(fs), Contents(es)) = Contents(es)
  BY <1>4, <1>5, OverlaidNothing
<1>7. Overlaid(Contents(es), Contents(us)) = Contents(es)
  BY <1>4, <1>5, OverlaidNothing
<1>8. Contents(x \o us) = Contents(es)
  BY <1>2, <1>3, <1>6, <1>7, Zenon
<1>9. EntriesAreText(x \o us) <=> EntriesAreText(es)
  BY <1>2, <1>3, <1>4
<1> QED
  BY <1>8, <1>9 DEF x

(* In whatever order SerializeWithCachedSizes walks the map, it writes as   *)
(* many bytes as ByteSizeLong has said, and they can be read.               *)
THEOREM VerificationWritten ==
  ASSUME NEW m, IsVerification(m), AllShort(m), NEW keys \in SetToSeqs(DOMAIN m.contents)
  PROVE  /\ \E fields : VerificationIn(m, SerializeVerification(m, keys), fields)
         /\ Len(SerializeVerification(m, keys)) = VerificationSize(m)
<1> DEFINE T == VerificationTags
           c == m.contents
           D == DOMAIN c
           f1 == ChunkFields(1, m.root_name)
           b1 == ChunkUnlessEmpty(1, m.root_name)
           b2 == EntryBytes(c, keys)
           u == m.unknown
           e == Fields[u]
<1>1. AreUnknown(u, T) /\ IsFiniteSet(D) /\ ShortMap(c, D) /\ Short(m.root_name)
  BY DEF IsVerification, AllShort
<1>2. <<1, ChunkType>> \in T /\ <<2, ChunkType>> \in T
  BY DEF VerificationTags
<1>3. keys \in Seq(D) /\ Range(keys) = D
  BY <1>1, SetToSeqsFacts
<1>4. PICK f2 : EntriesIn(c, keys, b2, f2)
  BY <1>1, <1>3, EntriesWritten
<1>5. ChunkPart(b1, f1, 1, m.root_name, T)
  <2>1. 1 \in 1 .. 15
    OBVIOUS
  <2> HIDE DEF T
  <2> QED
    BY <1>1, <1>2, <2>1, ChunkWritten, Zenon
<1>6. UnknownPart(u, e, T)
  BY <1>1, UnknownWritten
<1>7. EntryPlaces(f1) = {} /\ EntryPlaces(e) = {}
  <2>1. EntryPlaces(e) = {}
    BY <1>1, <1>2 DEF AreUnknown, EntryPlaces, Places
  <2>2. CASE m.root_name = <<>>
    <3>1. f1 = <<>>
      BY <2>2 DEF ChunkFields
    <3> HIDE DEF f1
    <3> QED
      BY <2>1, <3>1 DEF EntryPlaces, Places
  <2>3. CASE m.root_name # <<>>
    <3> DEFINE f == ChunkField(1, m.root_name)
    <3>1. f1 = <<f>> /\ f.number = 1
      BY <2>3 DEF ChunkFields, ChunkField
    <3> HIDE DEF f, f1
    <3>2. EntryPlaces(<<f>>) = {}
      BY <3>1 DEF EntryPlaces, Places
    <3> QED
      BY <2>1, <3>1, <3>2
  <2> QED
    BY <2>2, <2>3
<1>8. SerializeVerification(m, keys) = (b1 \o b2) \o u
  BY DEF SerializeVerification, EntryBytes
<1> HIDE DEF f1, b1, b2, u, e, T
<1>9. Reads(b1, f1) /\ Reads(b2, f2) /\ Reads(u, e)
  BY <1>4, <1>5, <1>6 DEF EntriesIn, ChunkPart, UnknownPart
<1>10. f1 \in Seq(AnyField) /\ f2 \in Seq(AnyField) /\ e \in Seq(AnyField)
  BY <1>9 DEF Reads
<1> DEFINE x2 == f1 \o f2
           x == x2 \o e
<1>11. Contents(x) = Contents(f2) /\ (EntriesAreText(x) <=> EntriesAreText(f2))
  BY <1>7, <1>10, ReadContents
<1>12. Follow(x2, f1, f2)
  BY <1>10, TwoParts
<1>13. Reads(b1 \o b2, x2)
  BY <1>9, ReadsConcat
<1> HIDE DEF x2
<1>14. Follow(x, x2, e)
  BY <1>10, <1>12, TwoParts DEF Follow
<1>15. Reads((b1 \o b2) \o u, x)
  BY <1>9, <1>13, ReadsConcat
<1> HIDE DEF x
<1>16. \A d : LastOf(x, 1, ChunkType, d) = NewString(d, m.root_name)
  <2> TAKE d
  <2>1. LastOf(x, 1, ChunkType, d) = LastOf(e, 1, ChunkType, LastOf(x2, 1, ChunkType, d))
    BY <1>14, Zenon DEF Follow
  <2>2. LastOf(x2, 1, ChunkType, d) = LastOf(f2, 1, ChunkType, LastOf(f1, 1, ChunkType, d))
    BY <1>12, Zenon DEF Follow
  <2>3. LastOf(f1, 1, ChunkType, d) = NewString(d, m.root_name)
    BY <1>5 DEF ChunkPart
  <2>4. \A y : LastOf(f2, 1, ChunkType, y) = y
    BY <1>4, Zenon DEF EntriesIn
  <2>5. \A y : LastOf(e, 1, ChunkType, y) = y
    BY <1>2, <1>6, Zenon DEF UnknownPart
  <2> QED
    BY <2>1, <2>2, <2>3, <2>4, <2>5
<1>17. AreText(x, {1}) <=> IsUtf8(m.root_name)
  <2> DEFINE N == {1}
  <2>1. 1 \in N /\ \A k \in N : <<k, ChunkType>> \in T
    BY <1>2
  <2>2. AreText(f2, N)
    BY <1>4 DEF EntriesIn
  <2> HIDE DEF N
  <2>3. AreText(x, N) <=> AreText(x2, N) /\ AreText(e, N)
    BY <1>14, Zenon DEF Follow
  <2>4. AreText(x2, N) <=> AreText(f1, N) /\ AreText(f2, N)
    BY <1>12, Zenon DEF Follow
  <2>5. AreText(e, N)
    BY <1>6, <2>1, Zenon DEF UnknownPart
  <2>6. AreText(f1, N) <=> IsUtf8(m.root_name)
    BY <1>5, <2>1, Zenon DEF ChunkPart
  <2>7. AreText(x, N) <=> IsUtf8(m.root_name)
    BY <2>2, <2>3, <2>4, <2>5, <2>6
  <2> QED
    BY <2>7 DEF N
<1>18. Unknown(x, T) = u
  <2>1. Unknown(x, T) = Unknown(x2, T) \o Unknown(e, T)
    BY <1>14, Zenon DEF Follow
  <2>2. Unknown(x2, T) = Unknown(f1, T) \o Unknown(f2, T)
    BY <1>12, Zenon DEF Follow
  <2>3. Unknown(f1, T) = <<>> /\ Unknown(f2, T) = <<>>
    BY <1>4, <1>5 DEF ChunkPart, EntriesIn, T
  <2>4. Unknown(e, T) = u /\ u \in Seq(Byte)
    BY <1>6, <1>9 DEF UnknownPart, Reads
  <2>5. <<>> \o <<>> = <<>> /\ <<>> \o u = u
    BY <2>4
  <2> QED
    BY <2>1, <2>2, <2>3, <2>4, <2>5, Zenon
<1>19. EntriesAreText(x) <=> \A k \in D : IsUtf8(k) /\ IsUtf8(c[k])
  <2>1. EntriesAreText(f2) <=> \A k \in Range(keys) : IsUtf8(k) /\ IsUtf8(c[k])
    BY <1>4, Zenon DEF EntriesIn
  <2> QED
    BY <1>3, <1>11, <2>1
<1>20. EntriesAreText(x) => Contents(x) = c
  <2>1. EntriesAreText(f2) => Contents(f2) = [k \in D |-> c[k]]
    BY <1>3, <1>4 DEF EntriesIn
  <2>2. c = [k \in D |-> c[k]]
    BY <1>1 DEF ShortMap
  <2> QED
    BY <1>11, <2>1, <2>2, Zenon
<1>21. VerificationIn(m, SerializeVerification(m, keys), x)
  <2>1. AreText(x, {1}) /\ EntriesAreText(x) <=> AllText(m)
    BY <1>17, <1>19, Zenon DEF AllText
  <2> QED
    BY <1>8, <1>15, <1>16, <1>18, <1>20, <2>1, Zenon DEF VerificationIn, T, u
<1>22. Len(SerializeVerification(m, keys)) = VerificationSize(m)
  <2>1. b1 \in Seq(Byte) /\ b2 \in Seq(Byte) /\ u \in Seq(Byte)
    BY <1>9 DEF Reads
  <2>2. Len((b1 \o b2) \o u) = Len(b1) + Len(b2) + Len(u)
    BY <2>1
  <2> DEFINE i == Len(b1)
             j == Len(b2)
             z == Len(u)
  <2>3. i \in Nat /\ j \in Nat /\ z \in Nat
    BY <2>1, LenProperties
  <2>4. j = SumFunction(EntrySizes(c, D))
    BY <1>1, EntriesSize DEF b2
  <2>5. i = IF m.root_name = <<>> THEN 0 ELSE 1 + StringSize(m.root_name)
    BY <1>5 DEF ChunkPart
  <2>6. VerificationSize(m) = Len(m.unknown) + SumFunction(EntrySizes(c, D))
                    + (IF m.root_name = <<>> THEN 0 ELSE 1 + StringSize(m.root_name))
    BY Zenon DEF VerificationSize, EntrySizes
  <2>7. Len(SerializeVerification(m, keys)) = i + j + z
    BY <1>8, <2>2
  <2>8. z = Len(m.unknown)
    BY DEF u
  <2> HIDE DEF i, j, z
  <2>9. VerificationSize(m) = z + j + i
    BY <2>4, <2>5, <2>6, <2>8
  <2> QED
    BY <2>3, <2>7, <2>9
<1> QED
  BY <1>21, <1>22

LEMMA ParseVerificationIs ==
  ASSUME NEW b, NEW x, Fields[b] = x, AreWhole(x)
  PROVE  ParseVerification(b)
           = IF AreText(x, {1}) /\ EntriesAreText(x)
             THEN [root_name |-> LastOf(x, 1, ChunkType, <<>>), contents |-> Contents(x),
                   unknown |-> Unknown(x, VerificationTags)]
             ELSE Malformed
<1> DEFINE P == Places(x, 2, ChunkType)
           entries == [i \in P |-> ParseEntry(x[i].value)]
           v == VerificationOf(x, entries)
<1>1. ParseVerification(b) = IF \E i \in DOMAIN entries : entries[i] = Malformed THEN Malformed
                             ELSE Message(x, {1}, v)
  BY Zenon DEF ParseVerification, VerificationWith, Entries
<1>2. ContentsOf(entries) = Contents(x)
  BY DEF Contents, EntryPlaces, EntryAt
<1>3. (\E i \in DOMAIN entries : entries[i] = Malformed) <=> ~ EntriesAreText(x)
  <2>1. DOMAIN entries = P /\ \A i \in P : entries[i] = EntryAt(x, i)
    BY DEF EntryAt
  <2> HIDE DEF entries
  <2>2. EntriesAreText(x) <=> \A i \in P : EntryAt(x, i) # Malformed
    BY Zenon DEF EntriesAreText, EntryPlaces
  <2> HIDE DEF P
  <2> QED
    BY <2>1, <2>2
<1>4. v = [root_name |-> LastOf(x, 1, ChunkType, <<>>), contents |-> ContentsOf(entries),
           unknown |-> Unknown(x, VerificationTags)]
  BY DEF VerificationOf
<1> HIDE DEF entries, v, P
<1>5. v = [root_name |-> LastOf(x, 1, ChunkType, <<>>), contents |-> Contents(x),
           unknown |-> Unknown(x, VerificationTags)]
  BY <1>2, <1>4
<1>6. ParseVerification(b) = IF ~ EntriesAreText(x) THEN Malformed ELSE Message(x, {1}, v)
  BY <1>1, <1>3
<1>7. Message(x, {1}, v) = IF AreText(x, {1}) THEN v ELSE Malformed
  BY DEF Message
<1> QED
  BY <1>5, <1>6, <1>7

(* What the client writes of a DirectoryVerification, the server reads as   *)
(* that message, with every entry of its map and no other, or refuses it    *)
(* because one of its strings is not UTF-8.                                 *)
THEOREM VerificationReadBack ==
  ASSUME NEW m, IsVerification(m), AllShort(m), NEW keys \in SetToSeqs(DOMAIN m.contents)
  PROVE  ParseVerification(SerializeVerification(m, keys)) = IF AllText(m) THEN m ELSE Malformed
<1> DEFINE s == SerializeVerification(m, keys)
<1>1. PICK x : VerificationIn(m, s, x)
  BY VerificationWritten
<1> HIDE DEF s
<1>2. Fields[s] = x /\ AreWhole(x)
  BY <1>1 DEF VerificationIn, Reads
<1> DEFINE v == [root_name |-> LastOf(x, 1, ChunkType, <<>>), contents |-> Contents(x),
                 unknown |-> Unknown(x, VerificationTags)]
<1>3. ParseVerification(s) = IF AreText(x, {1}) /\ EntriesAreText(x) THEN v ELSE Malformed
  BY <1>2, ParseVerificationIs
<1>4. AreText(x, {1}) /\ EntriesAreText(x) <=> AllText(m)
  BY <1>1 DEF VerificationIn
<1>5. ASSUME EntriesAreText(x) PROVE v = m
  <2>1. /\ LastOf(x, 1, ChunkType, <<>>) = m.root_name
        /\ Contents(x) = m.contents /\ Unknown(x, VerificationTags) = m.unknown
    BY <1>1, <1>5 DEF VerificationIn, NewString
  <2>2. m = [root_name |-> m.root_name, contents |-> m.contents, unknown |-> m.unknown]
    BY Zenon DEF IsVerification
  <2> QED
    BY <2>1, <2>2, Zenon
<1> HIDE DEF v
<1> QED
  BY <1>3, <1>4, <1>5 DEF s

LEMMA VerificationMerges ==
  ASSUME NEW m, NEW n, IsVerification(m), IsVerification(n), AllShort(m), AllShort(n),
         AllText(m), AllText(n),
         NEW ks \in SetToSeqs(DOMAIN m.contents), NEW ls \in SetToSeqs(DOMAIN n.contents)
  PROVE  ParseVerification(SerializeVerification(m, ks) \o SerializeVerification(n, ls))
           = MergeVerification(m, n)
<1> DEFINE s == SerializeVerification(m, ks)
           t == SerializeVerification(n, ls)
<1>1. PICK fs : VerificationIn(m, s, fs)
  BY VerificationWritten
<1>2. PICK gs : VerificationIn(n, t, gs)
  BY VerificationWritten
<1> HIDE DEF s, t
<1> DEFINE x == fs \o gs
           b == s \o t
<1>3. Reads(s, fs) /\ Reads(t, gs)
  BY <1>1, <1>2 DEF VerificationIn
<1>4. Reads(b, x)
  BY <1>3, ReadsConcat
<1>5. Fields[b] = x /\ AreWhole(x)
  BY <1>4 DEF Reads
<1>6. Follow(x, fs, gs)
  BY <1>3, TwoParts DEF Reads
<1>7. /\ Contents(x) = Overlaid(Contents(fs), Contents(gs))
      /\ EntriesAreText(x) <=> EntriesAreText(fs) /\ EntriesAreText(gs)
  BY <1>3, ContentsConcat DEF Reads
<1> HIDE DEF x, b
<1>8. /\ AreText(fs, {1}) /\ EntriesAreText(fs) /\ AreText(gs, {1}) /\ EntriesAreText(gs)
      /\ Contents(fs) = m.contents /\ Contents(gs) = n.contents
  BY <1>1, <1>2 DEF VerificationIn
<1>9. AreText(x, {1}) /\ EntriesAreText(x)
  <2>1. AreText(x, {1})
    BY <1>6, <1>8, Zenon DEF Follow
  <2> QED
    BY <1>7, <1>8, <2>1
<1>10. ParseVerification(b)
         = [root_name |-> LastOf(x, 1, ChunkType, <<>>), contents |-> Contents(x),
            unknown |-> Unknown(x, VerificationTags)]
  BY <1>5, <1>9, ParseVerificationIs, Zenon
<1>11. LastOf(x, 1, ChunkType, <<>>) = NewString(m.root_name, n.root_name)
  <2>1. LastOf(x, 1, ChunkType, <<>>) = LastOf(gs, 1, ChunkType, LastOf(fs, 1, ChunkType, <<>>))
    BY <1>6, Zenon DEF Follow
  <2>2. LastOf(fs, 1, ChunkType, <<>>) = NewString(<<>>, m.root_name)
    BY <1>1, Zenon DEF VerificationIn
  <2>3. NewString(<<>>, m.root_name) = m.root_name
    BY DEF NewString
  <2>4. LastOf(gs, 1, ChunkType, m.root_name) = NewString(m.root_name, n.root_name)
    BY <1>2, Zenon DEF VerificationIn
  <2> QED
    BY <2>1, <2>2, <2>3, <2>4
<1>12. Unknown(x, VerificationTags) = m.unknown \o n.unknown
  BY <1>1, <1>2, <1>6 DEF VerificationIn, Follow
<1>13. ParseVerification(b)
         = [root_name |-> NewString(m.root_name, n.root_name),
            contents |-> Overlaid(m.contents, n.contents), unknown |-> m.unknown \o n.unknown]
  BY <1>7, <1>8, <1>10, <1>11, <1>12
<1> QED
  BY <1>13 DEF MergeVerification, b, s, t

-----------------------------------------------------------------------------
(* The strings of what is short are short.                                 *)

(* s is a string of no more bytes than t. *)
NotLonger(s, t) == s \in Seq(Byte) /\ t \in Seq(Byte) /\ Len(s) <= Len(t)

LEMMA NotLongerFacts ==
  /\ \A p, q \in Seq(Byte) : NotLonger(p, p \o q) /\ NotLonger(q, p \o q)
  /\ \A r, s, t : NotLonger(r, s) /\ NotLonger(s, t) => NotLonger(r, t)
  /\ \A s, t : NotLonger(s, t) /\ Len(t) <= MaxInt32 => Short(s)
<1>1. ASSUME NEW p \in Seq(Byte), NEW q \in Seq(Byte)
      PROVE  NotLonger(p, p \o q) /\ NotLonger(q, p \o q)
  <2> DEFINE w == p \o q
  <2>1. w \in Seq(Byte) /\ Len(w) = Len(p) + Len(q) /\ Len(p) \in Nat /\ Len(q) \in Nat
    BY ConcatProperties, LenProperties
  <2> HIDE DEF w
  <2>2. NotLonger(p, w) /\ NotLonger(q, w)
    BY <2>1 DEF NotLonger
  <2> QED
    BY <2>2 DEF w
<1>2. ASSUME NEW r, NEW s, NEW t, NotLonger(r, s), NotLonger(s, t) PROVE NotLonger(r, t)
  <2>1. Len(r) \in Nat /\ Len(s) \in Nat /\ Len(t) \in Nat
    BY <1>2, LenProperties DEF NotLonger
  <2> QED
    BY <1>2, <2>1 DEF NotLonger
<1>3. ASSUME NEW s, NEW t, NotLonger(s, t), Len(t) <= MaxInt32 PROVE Short(s)
  <2>1. Len(s) \in Nat /\ Len(t) \in Nat
    BY <1>3, LenProperties DEF NotLonger
  <2> QED
    BY <1>3, <2>1, MaxInt32Type DEF NotLonger, Short
<1> QED
  BY <1>1, <1>2, <1>3

LEMMA ChunkNotLonger ==
  ASSUME NEW k \in 1 .. 15, NEW s \in Seq(Byte)
  PROVE  NotLonger(s, Chunk(k, s)) /\ NotLonger(s, ChunkUnlessEmpty(k, s))
<1> DEFINE t == <<8 * k + ChunkType>>
           v == Varint(Len(s))
<1>1. t \in Seq(Byte)
  <2>1. 8 * k + ChunkType \in Byte
    BY DEF Byte, ChunkType
  <2> QED
    BY <2>1
<1>2. v \in Seq(Byte)
  <2>1. Len(s) \in Nat
    BY LenProperties
  <2>2. v = VarintOf[Len(s)]
    BY <2>1 DEF Varint
  <2> QED
    BY <2>1, <2>2, VarintStep
<1>3. Chunk(k, s) = (t \o v) \o s
  BY DEF Chunk
<1> HIDE DEF t, v
<1>4. t \o v \in Seq(Byte)
  BY <1>1, <1>2, ConcatProperties
<1>5. NotLonger(s, (t \o v) \o s)
  BY <1>4, NotLongerFacts
<1>6. NotLonger(<<>>, <<>>)
  <2>1. <<>> \in Seq(Byte) /\ Len(<<>>) = 0 /\ 0 <= 0
    OBVIOUS
  <2> QED
    BY <2>1 DEF NotLonger
<1>7. CASE s = <<>>
  BY <1>3, <1>5, <1>6, <1>7 DEF ChunkUnlessEmpty
<1>8. CASE s # <<>>
  BY <1>3, <1>5, <1>8 DEF ChunkUnlessEmpty
<1> QED
  BY <1>7, <1>8

LEMMA NumberIsBytes ==
  ASSUME NEW k \in 1 .. 15, NEW n \in Int32
  PROVE  NumberUnlessZero(k, n) \in Seq(Byte)
BY FirstOfNumber DEF NumberUnlessZero

LEMMA FlattenNotLonger ==
  ASSUME NEW seqs \in Seq(Seq(Byte))
  PROVE  FlattenSeq(seqs) \in Seq(Byte) /\ \A i \in DOMAIN seqs : NotLonger(seqs[i], FlattenSeq(seqs))
<1> DEFINE P == {u \in Seq(Seq(Byte)) :
                   /\ FlattenSeq(u) \in Seq(Byte)
                   /\ \A i \in DOMAIN u : NotLonger(u[i], FlattenSeq(u))}
<1>1. <<>> \in P
  <2>1. <<>> \in Seq(Byte) /\ <<>> \in Seq(Seq(Byte)) /\ DOMAIN <<>> = {}
    OBVIOUS
  <2> QED
    BY <2>1, FlattenEmpty
<1>2. ASSUME NEW u \in Seq(Seq(Byte)), NEW x \in Seq(Byte), u \in P
      PROVE  u \o <<x>> \in P
  <2> DEFINE one == <<x>>
             all == u \o one
             a == FlattenSeq(u)
  <2>1. one \in Seq(Seq(Byte)) /\ Len(one) = 1 /\ one[1] = x
    OBVIOUS
  <2>2. FlattenSeq(all) = a \o x /\ a \in Seq(Byte)
    BY FlattenLast
  <2> HIDE DEF one, a
  <2>3. all \in Seq(Seq(Byte)) /\ IsConcat(all, u, one)
    BY <2>1, ElementsOfConcat
  <2> HIDE DEF all
  <2>4. /\ a \o x \in Seq(Byte) /\ NotLonger(a, a \o x) /\ NotLonger(x, a \o x)
        /\ \A s : NotLonger(s, a) => NotLonger(s, a \o x)
    BY <2>2, NotLongerFacts, ConcatProperties
  <2>5. \A i \in DOMAIN u : NotLonger(u[i], a)
    BY <1>2 DEF a
  <2>6. ASSUME NEW i \in DOMAIN all PROVE NotLonger(all[i], a \o x)
    <3>1. CASE i \in 1 .. Len(u)
      <4>1. i \in DOMAIN u /\ all[i] = u[i]
        BY <2>3, <3>1 DEF IsConcat
      <4> QED
        BY <2>4, <2>5, <4>1
    <3>2. CASE i \notin 1 .. Len(u)
      <4>1. PICK j \in 1 .. Len(one) : i = Len(u) + j
        BY <2>3, <3>2 DEF IsConcat
      <4>2. all[i] = one[j] /\ j = 1
        BY <2>1, <2>3, <4>1 DEF IsConcat
      <4> QED
        BY <2>1, <2>4, <4>2
    <3> QED
      BY <3>1, <3>2
  <2>7. all \in P
    BY <2>2, <2>3, <2>4, <2>6
  <2> QED
    BY <2>7 DEF all, one
<1>3. Seq(Seq(Byte)) \subseteq P
  <2> HIDE DEF P
  <2> QED
    BY <1>1, <1>2, SeqInduction, Zenon
<1> QED
  BY <1>3

LEMMA TokenLoginShort ==
  ASSUME NEW m, IsTokenLogin(m)
  PROVE  /\ SerializeTokenLogin(m) \in Seq(Byte)
         /\ Len(SerializeTokenLogin(m)) <= MaxInt32 => Short(m.token) /\ Short(m.name)
<1> DEFINE a == ChunkUnlessEmpty(1, m.token)
           b == ChunkUnlessEmpty(2, m.name)
           u == m.unknown
           w == a \o b
           s == w \o u
<1>1. SerializeTokenLogin(m) = s
  BY DEF SerializeTokenLogin
<1>2. 1 \in 1 .. 15 /\ 2 \in 1 .. 15 /\ m.token \in Seq(Byte) /\ m.name \in Seq(Byte)
      /\ u \in Seq(Byte)
  BY DEF IsTokenLogin
<1>3. NotLonger(m.token, a) /\ NotLonger(m.name, b)
  BY <1>2, ChunkNotLonger
<1> HIDE DEF a, b, u
<1>4. NotLonger(a, w) /\ NotLonger(b, w)
  BY <1>3, NotLongerFacts DEF NotLonger
<1> HIDE DEF w
<1>5. NotLonger(w, s)
  BY <1>2, <1>4, NotLongerFacts DEF NotLonger
<1> HIDE DEF s
<1>6. s \in Seq(Byte)
  BY <1>5 DEF NotLonger
<1>7. NotLonger(m.token, s) /\ NotLonger(m.name, s)
  BY <1>3, <1>4, <1>5, NotLongerFacts
<1> QED
  BY <1>1, <1>6, <1>7, NotLongerFacts

LEMMA FileDiffShort ==
  ASSUME NEW m, IsFileDiff(m)
  PROVE  /\ SerializeFileDiff(m) \in Seq(Byte)
         /\ Len(SerializeFileDiff(m)) <= MaxInt32 => Short(m.relative_path) /\ Short(m.content)
<1> DEFINE a == ChunkUnlessEmpty(1, m.relative_path)
           b == ChunkUnlessEmpty(2, m.content)
           n == NumberUnlessZero(3, m.status)
           u == m.unknown
           v == a \o b
           w == v \o n
           s == w \o u
<1>1. SerializeFileDiff(m) = s
  BY DEF SerializeFileDiff
<1>2. /\ 1 \in 1 .. 15 /\ 2 \in 1 .. 15 /\ 3 \in 1 .. 15
      /\ m.relative_path \in Seq(Byte) /\ m.content \in Seq(Byte) /\ m.status \in Int32
      /\ u \in Seq(Byte)
  BY DEF IsFileDiff
<1>3. NotLonger(m.relative_path, a) /\ NotLonger(m.content, b) /\ n \in Seq(Byte)
  BY <1>2, ChunkNotLonger, NumberIsBytes
<1> HIDE DEF a, b, n, u
<1>4. NotLonger(a, v) /\ NotLonger(b, v)
  BY <1>3, NotLongerFacts DEF NotLonger
<1> HIDE DEF v
<1>5. NotLonger(v, w)
  BY <1>3, <1>4, NotLongerFacts DEF NotLonger
<1> HIDE DEF w
<1>6. NotLonger(w, s)
  BY <1>2, <1>5, NotLongerFacts DEF NotLonger
<1> HIDE DEF s
<1>7. s \in Seq(Byte)
  BY <1>6 DEF NotLonger
<1>8. NotLonger(v, s)
  BY <1>5, <1>6, NotLongerFacts
<1>9. NotLonger(m.relative_path, s) /\ NotLonger(m.content, s)
  BY <1>3, <1>4, <1>8, NotLongerFacts
<1> QED
  BY <1>1, <1>7, <1>9, NotLongerFacts

LEMMA VerificationShort ==
  ASSUME NEW m, IsVerification(m), NEW keys \in SetToSeqs(DOMAIN m.contents)
  PROVE  /\ SerializeVerification(m, keys) \in Seq(Byte)
         /\ Len(SerializeVerification(m, keys)) <= MaxInt32 => AllShort(m)
<1> DEFINE c == m.contents
           D == DOMAIN c
           seqs == [i \in DOMAIN keys |-> Chunk(2, Entry(keys[i], c[keys[i]]))]
           a == ChunkUnlessEmpty(1, m.root_name)
           b == FlattenSeq(seqs)
           u == m.unknown
           w == a \o b
           s == w \o u
<1>1. SerializeVerification(m, keys) = s
  BY DEF SerializeVerification
<1>2. /\ 1 \in 1 .. 15 /\ 2 \in 1 .. 15 /\ m.root_name \in Seq(Byte) /\ u \in Seq(Byte)
      /\ c \in [D -> Seq(Byte)] /\ D \subseteq Seq(Byte) /\ IsFiniteSet(D)
  BY DEF IsVerification, AreUnknown
<1>3. keys \in Seq(D) /\ Range(keys) = D
  BY <1>2, SetToSeqsFacts
<1>4. ASSUME NEW k \in D
      PROVE  /\ NotLonger(k, Entry(k, c[k])) /\ NotLonger(c[k], Entry(k, c[k]))
             /\ NotLonger(Entry(k, c[k]), Chunk(2, Entry(k, c[k])))
  <2> DEFINE p == Chunk(1, k)
             q == Chunk(2, c[k])
             e == Entry(k, c[k])
  <2>1. NotLonger(k, p) /\ NotLonger(c[k], q)
    BY <1>2, ChunkNotLonger
  <2>2. e = p \o q
    BY DEF Entry
  <2> HIDE DEF p, q, e
  <2>3. NotLonger(p, e) /\ NotLonger(q, e)
    BY <2>1, <2>2, NotLongerFacts DEF NotLonger
  <2>4. NotLonger(k, e) /\ NotLonger(c[k], e)
    BY <2>1, <2>3, NotLongerFacts
  <2>5. e \in Seq(Byte)
    BY <2>3 DEF NotLonger
  <2>6. NotLonger(e, Chunk(2, e))
    BY <1>2, <2>5, ChunkNotLonger
  <2> QED
    BY <2>4, <2>6 DEF e
<1>5. seqs \in Seq(Seq(Byte)) /\ DOMAIN seqs = DOMAIN keys
  <2>1. \A i \in DOMAIN keys : keys[i] \in D
    BY <1>3
  <2>2. \A i \in DOMAIN keys : Chunk(2, Entry(keys[i], c[keys[i]])) \in Seq(Byte)
    BY <1>4, <2>1 DEF NotLonger
  <2>3. DOMAIN keys = 1 .. Len(keys) /\ Len(keys) \in Nat
    BY <1>3
  <2>4. seqs \in [1 .. Len(keys) -> Seq(Byte)]
    BY <2>2, <2>3
  <2> HIDE DEF seqs
  <2> QED
    BY <2>3, <2>4, SeqDef
<1>6. \A i \in DOMAIN keys : seqs[i] = Chunk(2, Entry(keys[i], c[keys[i]]))
  OBVIOUS
<1> HIDE DEF seqs
<1>7. b \in Seq(Byte) /\ \A i \in DOMAIN keys : NotLonger(seqs[i], b)
  BY <1>5, FlattenNotLonger
<1>8. NotLonger(m.root_name, a)
  BY <1>2, ChunkNotLonger
<1> HIDE DEF a, b, u
<1>9. NotLonger(a, w) /\ NotLonger(b, w)
  BY <1>7, <1>8, NotLongerFacts DEF NotLonger
<1> HIDE DEF w
<1>10. NotLonger(w, s)
  BY <1>2, <1>9, NotLongerFacts DEF NotLonger
<1> HIDE DEF s
<1>11. s \in Seq(Byte)
  BY <1>10 DEF NotLonger
<1>12. Len(s) <= MaxInt32 => Short(m.root_name)
  BY <1>8, <1>9, <1>10, NotLongerFacts
<1>13. ASSUME Len(s) <= MaxInt32, NEW k \in D PROVE Short(k) /\ Short(c[k]) /\ Short(Entry(k, c[k]))
  <2>1. PICK i \in DOMAIN keys : keys[i] = k
    BY <1>3 DEF Range
  <2> DEFINE e == Entry(k, c[k])
  <2>2. NotLonger(k, e) /\ NotLonger(c[k], e) /\ NotLonger(e, Chunk(2, e))
    BY <1>4
  <2>3. seqs[i] = Chunk(2, e)
    BY <1>6, <2>1
  <2> HIDE DEF e
  <2>4. NotLonger(Chunk(2, e), b)
    BY <1>7, <2>1, <2>3
  <2>5. NotLonger(b, s)
    BY <1>9, <1>10, NotLongerFacts
  <2>6. NotLonger(e, s)
    BY <2>2, <2>4, <2>5, NotLongerFacts
  <2>7. NotLonger(k, s) /\ NotLonger(c[k], s)
    BY <2>2, <2>6, NotLongerFacts
  <2> QED
    BY <1>13, <2>6, <2>7, NotLongerFacts DEF e
<1>14. Len(s) <= MaxInt32 => AllShort(m)
  BY <1>2, <1>12, <1>13 DEF AllShort, ShortMap
<1> QED
  BY <1>1, <1>11, <1>14
=============================================================================
