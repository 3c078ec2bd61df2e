----------------------------- MODULE OrderedProofs -----------------------------
(***************************************************************************)
(* Of some numbers one is the least, which takes the place of induction in *)
(* the proofs of other modules; and what Ascending returns.                *)
(***************************************************************************)
EXTENDS Ordered, Sequences, SequenceTheorems, FiniteSetTheorems,
        WellFoundedInduction, TLAPS

(* Searching *)

Lt == {p \in Nat \X Nat : p[1] < p[2]}

LEMMA LtIsWellFounded == IsWellFoundedOn(Lt, Nat)
<1>1. IsWellFoundedOn(OpToRel(<, Nat), Nat)
  BY NatLessThanWellFounded, Zenon
<1>2. OpToRel(<, Nat) = Lt
  BY DEF OpToRel, Lt
<1> QED
  BY <1>1, <1>2, Zenon

\* Of some numbers one is the least.
LEMMA Least ==
    ASSUME NEW T \in SUBSET Nat, T # {}
    PROVE  \E m \in T : \A n \in T : m <= n
<1>1. PICK m \in T : \A n \in T : <<n, m>> \notin Lt
  BY LtIsWellFounded, WFMin
<1>2. ASSUME NEW n \in T PROVE m <= n
  <2>1. <<n, m>> \notin Lt
    BY <1>1
  <2>2. n \in Nat /\ m \in Nat
    OBVIOUS
  <2>3. n < m => <<n, m>> \in Lt
    BY <2>2 DEF Lt
  <2> QED
    BY <2>1, <2>2, <2>3
<1> QED
  BY <1>2

\* The first place of s, from i on, that is one of those in P.
LEMMA FirstOne ==
    ASSUME NEW i \in Nat, NEW n \in Nat, NEW P, NEW l \in i..n, l \in P
    PROVE  \E j \in i..n : j \in P /\ \A k \in i..(j - 1) : k \notin P
<1> DEFINE T == {j \in i..n : j \in P}
<1>1. T \in SUBSET Nat /\ T # {}
  OBVIOUS
<1>2. PICK m \in T : \A k \in T : m <= k
  BY <1>1, Least
<1>3. \A k \in i..(m - 1) : k \in i..n /\ ~(m <= k)
  BY <1>2
<1> QED
  BY <1>2, <1>3

-------------------------------------------------------------------------------
(* Places in order *)

\* q has its numbers in order, each one once.
Increasing(q) ==
    /\ q \in Seq(Nat)
    /\ \A i, j \in 1..Len(q) : i < j => q[i] < q[j]

\* The first k members of S are those of q.
LEMMA MembersBefore ==
    ASSUME NEW q, Increasing(q), NEW k \in 1..(Len(q) + 1)
    PROVE  LET T == {q[j] : j \in 1..(k - 1)}
           IN  IsFiniteSet(T) /\ Cardinality(T) = k - 1
<1> DEFINE T == {q[j] : j \in 1..(k - 1)}
           f == [j \in 1..(k - 1) |-> q[j]]
<1>1. q \in Seq(Nat) /\ Len(q) \in Nat /\ k \in Nat /\ k - 1 \in Nat
  BY DEF Increasing
<1>2. \A i, j \in 1..(k - 1) : q[i] = q[j] => i = j
  <2>1. SUFFICES ASSUME NEW i \in 1..(k - 1), NEW j \in 1..(k - 1), q[i] = q[j]
                 PROVE  i = j
    OBVIOUS
  <2>2. i \in 1..Len(q) /\ j \in 1..Len(q)
    BY <1>1
  <2>3. q[i] \in Nat /\ q[j] \in Nat
    BY <1>1, <2>2
  <2> QED
    BY <2>1, <2>2, <2>3 DEF Increasing
<1>3. f \in Bijection(1..(k - 1), T)
  <2>1. f \in [1..(k - 1) -> T]
    OBVIOUS
  <2>2. \A i, j \in 1..(k - 1) : f[i] = f[j] => i = j
    BY <1>2
  <2>3. \A t \in T : \E j \in 1..(k - 1) : f[j] = t
    OBVIOUS
  <2> QED
    BY <2>1, <2>2, <2>3 DEF Bijection, Injection, Surjection, IsInjective
<1>4. IsFiniteSet(1..(k - 1)) /\ Cardinality(1..(k - 1)) = k - 1
  <2>1. 1 \in Int /\ k - 1 \in Int
    BY <1>1
  <2>2. /\ IsFiniteSet(1..(k - 1))
        /\ Cardinality(1..(k - 1)) = IF 1 > k - 1 THEN 0 ELSE (k - 1) - 1 + 1
    BY <2>1, FS_Interval
  <2> QED
    BY <1>1, <2>2
<1> HIDE DEF T, f
<1>5. IsFiniteSet(T) /\ Cardinality(T) = k - 1
  BY <1>3, <1>4, FS_Bijection DEF ExistsBijection
<1> QED
  BY <1>5 DEF T

\* If the members of S up to x are those of q, Ascending(S) begins with q.
LEMMA AscendingBegins ==
    ASSUME NEW S \in SUBSET Nat, IsFiniteSet(S), NEW q, Increasing(q),
           NEW x \in Nat, {i \in S : i <= x} = {q[j] : j \in 1..Len(q)}
    PROVE  /\ Len(q) <= Cardinality(S)
           /\ \A k \in 1..Len(q) : Ascending(S)[k] = q[k]
<1> DEFINE T(k) == {q[j] : j \in 1..(k - 1)}
           B(i) == {j \in S : j < i}
<1>1. q \in Seq(Nat) /\ Len(q) \in Nat
  BY DEF Increasing
<1>2. \A k \in 1..Len(q) : q[k] \in S /\ q[k] <= x
  BY <1>1
<1>3. Len(q) <= Cardinality(S)
  <2>1. Len(q) + 1 \in 1..(Len(q) + 1) /\ (Len(q) + 1) - 1 = Len(q)
    BY <1>1
  <2>2. Cardinality({q[j] : j \in 1..Len(q)}) = Len(q)
    <3> DEFINE n == Len(q) + 1
    <3>1. n \in 1..(Len(q) + 1)
      BY <2>1
    <3> HIDE DEF n
    <3>2. Cardinality({q[j] : j \in 1..(n - 1)}) = n - 1
      BY <3>1, MembersBefore
    <3> QED
      BY <2>1, <3>2 DEF n
  <2> DEFINE R == {q[j] : j \in 1..Len(q)}
  <2>3. R \in SUBSET S
    BY <1>2
  <2>4. Cardinality(R) = Len(q)
    BY <2>2
  <2> HIDE DEF R
  <2> QED
    BY <2>3, <2>4, FS_Subset
<1>4. ASSUME NEW k \in 1..Len(q) PROVE B(q[k]) = T(k)
  <2>1. ASSUME NEW j \in B(q[k]) PROVE j \in T(k)
    <3>1. j \in S /\ j < q[k] /\ j <= x /\ j \in Nat
      BY <1>1, <1>2
    <3>2. PICK l \in 1..Len(q) : j = q[l]
      BY <3>1
    <3>3. l < k
      <4>1. q[l] \in Nat /\ q[k] \in Nat /\ ~(q[k] < q[l]) /\ l # k
        BY <1>1, <3>1, <3>2
      <4> QED
        BY <1>1, <4>1 DEF Increasing
    <3> QED
      BY <1>1, <3>2, <3>3
  <2>2. ASSUME NEW l \in 1..(k - 1) PROVE q[l] \in B(q[k])
    <3>1. l \in 1..Len(q) /\ l < k
      BY <1>1
    <3> QED
      BY <1>2, <3>1 DEF Increasing
  <2> QED
    BY <2>1, <2>2
<1>5. ASSUME NEW k \in 1..Len(q) PROVE Cardinality(B(q[k])) = k - 1
  <2>1. k \in 1..(Len(q) + 1)
    BY <1>1
  <2>2. Cardinality(T(k)) = k - 1
    BY <2>1, MembersBefore
  <2> QED
    BY <1>4, <2>2
\* A member has as many before it as no other one.
<1>6. ASSUME NEW i \in S, NEW j \in S, i < j
      PROVE  Cardinality(B(i)) < Cardinality(B(j))
  <2>1. i \in Nat /\ j \in Nat
    OBVIOUS
  <2>2. B(i) \in SUBSET B(j) /\ i \in B(j) /\ i \notin B(i)
    <3>1. \A l \in S : l \in Nat /\ (l < i => l < j)
      BY <2>1, <1>6
    <3>2. ~(i < i)
      BY <2>1
    <3> QED
      BY <1>6, <3>1, <3>2
  <2>3. B(j) \in SUBSET S
    OBVIOUS
  <2> HIDE DEF B
  <2>4. IsFiniteSet(B(j)) /\ Cardinality(B(j)) \in Nat
    BY <2>3, FS_Subset, FS_CardinalityType
  <2>5. /\ IsFiniteSet(B(i)) /\ Cardinality(B(i)) <= Cardinality(B(j))
        /\ Cardinality(B(j)) = Cardinality(B(i)) => B(j) = B(i)
    BY <2>2, <2>4, FS_Subset
  <2>6. Cardinality(B(i)) \in Nat
    BY <2>5, FS_CardinalityType
  <2> QED
    BY <2>2, <2>4, <2>5, <2>6
<1>7. ASSUME NEW k \in 1..Len(q) PROVE Ascending(S)[k] = q[k]
  <2>1. q[k] \in S /\ Cardinality(B(q[k])) = k - 1
    BY <1>2, <1>5
  <2>2. ASSUME NEW i \in S, Cardinality(B(i)) = k - 1 PROVE i = q[k]
    <3> HIDE DEF B
    <3>1. q[k] \in Nat /\ i \in Nat
      BY <2>1
    <3>5. k - 1 \in Int /\ ~(k - 1 < k - 1)
      BY <1>1
    <3>2. ~(i < q[k]) /\ ~(q[k] < i)
      <4>1. i < q[k] => Cardinality(B(i)) < Cardinality(B(q[k]))
        BY <1>6, <2>1
      <4>2. q[k] < i => Cardinality(B(q[k])) < Cardinality(B(i))
        BY <1>6, <2>1
      <4> QED
        BY <2>1, <2>2, <3>1, <3>5, <4>1, <4>2
    <3> QED
      BY <3>1, <3>2
  <2>3. (CHOOSE i \in S : Cardinality(B(i)) = k - 1) = q[k]
    <3> HIDE DEF B
    <3> QED
      BY <2>1, <2>2
  <2>4. Cardinality(S) \in Nat
    BY FS_CardinalityType
  <2>5. k \in 1..Cardinality(S)
    BY <1>1, <1>3, <2>4
  <2> QED
    BY <2>3, <2>5 DEF Ascending
<1> QED
  BY <1>3, <1>7

\* Ascending(S) is the one sequence that has the members of S in order.
LEMMA AscendingIs ==
    ASSUME NEW S \in SUBSET Nat, IsFiniteSet(S), NEW q, Increasing(q),
           S = {q[j] : j \in 1..Len(q)}
    PROVE  Ascending(S) = q
<1>1. q \in Seq(Nat) /\ Len(q) \in Nat /\ DOMAIN q = 1..Len(q)
  BY DEF Increasing
<1>2. \E x \in Nat : \A i \in S : i <= x
  <2>1. CASE Len(q) = 0
    BY <1>1, <2>1
  <2>2. CASE Len(q) # 0
    <3>1. Len(q) \in 1..Len(q)
      BY <1>1, <2>2
    <3>2. \A j \in 1..Len(q) : q[j] <= q[Len(q)]
      <4>1. ASSUME NEW j \in 1..Len(q) PROVE q[j] <= q[Len(q)]
        <5>1. q[j] \in Nat /\ q[Len(q)] \in Nat
          BY <1>1, <3>1
        <5>2. CASE j = Len(q)
          BY <5>1, <5>2
        <5>3. CASE j # Len(q)
          <6>1. j < Len(q)
            BY <1>1, <5>3
          <6> QED
            BY <3>1, <5>1, <6>1 DEF Increasing
        <5> QED
          BY <5>2, <5>3
      <4> QED
        BY <4>1
    <3> QED
      BY <1>1, <3>1, <3>2
  <2> QED
    BY <2>1, <2>2
<1>3. PICK x \in Nat : \A i \in S : i <= x
  BY <1>2
<1>4. {i \in S : i <= x} = {q[j] : j \in 1..Len(q)}
  BY <1>3
<1>5. Len(q) <= Cardinality(S) /\ \A k \in 1..Len(q) : Ascending(S)[k] = q[k]
  BY <1>4, AscendingBegins
<1>6. Cardinality(S) = Len(q)
  <2> DEFINE n == Len(q) + 1
  <2>1. n \in 1..(Len(q) + 1) /\ n - 1 = Len(q)
    BY <1>1
  <2> HIDE DEF n
  <2>2. Cardinality({q[j] : j \in 1..(n - 1)}) = n - 1
    BY <2>1, MembersBefore
  <2> QED
    BY <2>1, <2>2
<1>7. DOMAIN Ascending(S) = 1..Len(q)
  BY <1>6 DEF Ascending
<1>8. Ascending(S) = [k \in 1..Len(q) |-> Ascending(S)[k]]
  <2> DEFINE Mth(k) == CHOOSE i \in S : Cardinality({j \in S : j < i}) = k - 1
  <2>1. Ascending(S) = [k \in 1..Cardinality(S) |-> Mth(k)]
    BY DEF Ascending
  <2> HIDE DEF Mth
  <2> QED
    BY <1>6, <2>1
<1>9. q = [k \in 1..Len(q) |-> q[k]]
  BY <1>1
<1> QED
  BY <1>5, <1>8, <1>9
===============================================================================
