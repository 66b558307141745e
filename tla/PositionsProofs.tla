-------------------------- MODULE PositionsProofs --------------------------
(* What picking positions returns, and what one more position adds.          *)
EXTENDS Positions, SequenceTheorems, FiniteSetTheorems, WellFoundedInduction, TLAPS

LEMMA MinIn == \A S \in SUBSET Nat : S # {} => Min(S) \in S /\ \A y \in S : Min(S) <= y
<1> SUFFICES ASSUME NEW S \in SUBSET Nat, S # {}
             PROVE  Min(S) \in S /\ \A y \in S : Min(S) <= y
  OBVIOUS
<1>1. PICK x \in S : \A y \in S : ~(<<y, x>> \in OpToRel(<, Nat))
  BY WFMin, NatLessThanWellFounded
<1>2. \A y \in S : ~(y < x)
  BY <1>1 DEF OpToRel
<1>3. \A y \in S : x <= y
  BY <1>2
<1> QED  BY <1>3, Zenon DEF Min

\* A set of positions has a largest: the least of those no position is behind.
LEMMA MaxIn ==
  ASSUME NEW n \in Nat, NEW S \in SUBSET (1..n), S # {}
  PROVE  Max(S) \in S /\ \A y \in S : y <= Max(S)
<1> DEFINE U == {u \in Nat : \A i \in S : i <= u}
           m == Min(U)
<1>1. U \in SUBSET Nat /\ n \in U
  OBVIOUS
<1>2. m \in U /\ \A u \in U : m <= u
  <2> HIDE DEF U
  <2> QED  BY <1>1, MinIn
<1> HIDE DEF m
<1>3. m \in S
  <2> SUFFICES ASSUME m \notin S PROVE FALSE
    OBVIOUS
  <2>1. m \in Nat /\ \A i \in S : i <= m - 1
    BY <1>2
  <2>2. PICK i \in S : i <= m - 1
    BY <2>1
  <2>3. m - 1 \in Nat
    BY <2>1, <2>2
  <2>4. m - 1 \in U
    BY <2>1, <2>3
  <2> QED  BY <1>2, <2>1, <2>4
<1>4. m \in S /\ \A y \in S : m >= y
  BY <1>2, <1>3
<1>5. Max(S) \in S /\ \A y \in S : Max(S) >= y
  BY <1>4, Zenon DEF Max
<1> QED  BY <1>5

\* The positions with at least k up to them.
AtLeast(S, k) == {i \in S : Cardinality({j \in S : j <= i}) >= k}

\* The largest element has all the others below it, so there is a k-th for every
\* k up to the number of elements.
LEMMA NthLeast ==
  ASSUME NEW n \in Nat, NEW S \in SUBSET (1..n), NEW k \in 1..Cardinality(S)
  PROVE  Nth(S, k) \in AtLeast(S, k) /\ \A y \in AtLeast(S, k) : Nth(S, k) <= y
<1>0. IsFiniteSet(1..n) /\ S \subseteq 1..n /\ S \subseteq Nat
  BY FS_Interval
<1>1. IsFiniteSet(S) /\ Cardinality(S) \in Nat
  BY <1>0, FS_Subset, FS_CardinalityType, Zenon
<1>2. S # {}
  BY <1>1, FS_EmptySet
<1>5. PICK m \in S : \A i \in S : i <= m
  BY <1>2, MaxIn
<1>6. {j \in S : j <= m} = S
  BY <1>5
<1>7. m \in AtLeast(S, k)
  BY <1>1, <1>5, <1>6 DEF AtLeast
<1>8. AtLeast(S, k) \in SUBSET Nat /\ AtLeast(S, k) # {}
  BY <1>0, <1>7, Zenon DEF AtLeast
<1>9. Min(AtLeast(S, k)) \in AtLeast(S, k) /\ \A y \in AtLeast(S, k) : Min(AtLeast(S, k)) <= y
  BY <1>8, MinIn
<1>10. Nth(S, k) = Min(AtLeast(S, k))
  BY Zenon DEF Nth, AtLeast
<1> QED  BY <1>9, <1>10

LEMMA NthIn ==
  ASSUME NEW n \in Nat, NEW S \in SUBSET (1..n), NEW k \in 1..Cardinality(S)
  PROVE  Nth(S, k) \in S
BY NthLeast DEF AtLeast

\* As many as there are positions, each from one of them.
Picked(f, S, n) ==
  /\ Cardinality(S) \in Nat /\ Cardinality(S) <= n
  /\ DOMAIN Pick(f, S) = 1..Cardinality(S)
  /\ \A k \in DOMAIN Pick(f, S) : \E i \in S : Pick(f, S)[k] = f[i]

LEMMA PickIn ==
  ASSUME NEW n \in Nat, NEW S \in SUBSET (1..n), NEW f
  PROVE  Picked(f, S, n)
<1>1. IsFiniteSet(1..n) /\ Cardinality(1..n) = n
  BY FS_Interval
<1>2. Cardinality(S) \in Nat /\ Cardinality(S) <= n
  BY <1>1, FS_Subset, FS_CardinalityType
<1>3. DOMAIN Pick(f, S) = 1..Cardinality(S)
  BY DEF Pick
<1>4. ASSUME NEW k \in 1..Cardinality(S)
      PROVE  \E i \in S : Pick(f, S)[k] = f[i]
  BY NthIn DEF Pick
<1> QED  BY <1>2, <1>3, <1>4 DEF Picked

LEMMA LenIs ==
  ASSUME NEW m \in Nat, NEW f, f = [k \in 1..m |-> f[k]]
  PROVE  Len(f) = m
<1> DEFINE R == {f[k] : k \in 1..m}
<1>1. f \in [1..m -> R]
  OBVIOUS
<1> HIDE DEF R
<1>2. f \in Seq(R)
  BY <1>1, SeqDef
<1> QED  BY <1>1, <1>2, LenProperties

\* What Pick returns is a sequence.
LEMMA PickSeq ==
  ASSUME NEW n \in Nat, NEW S \in SUBSET (1..n), NEW f
  PROVE  /\ Pick(f, S) \in Seq({f[i] : i \in S})
         /\ Len(Pick(f, S)) = Cardinality(S)
<1> DEFINE m == Cardinality(S)
           R == {f[i] : i \in S}
           p == Pick(f, S)
<1>1. Picked(f, S, n)
  BY PickIn
<1>2. m \in Nat /\ p = [k \in 1..m |-> p[k]] /\ \A k \in 1..m : p[k] \in R
  BY <1>1 DEF Picked, Pick
<1> HIDE DEF m, R, p
<1>3. p \in [1..m -> R]
  BY <1>2
<1>4. p \in Seq(R)
  BY <1>2, <1>3, SeqDef
<1>5. Len(p) = m
  BY <1>2, LenIs
<1> QED  BY <1>4, <1>5 DEF m, R, p

LEMMA MinIs ==
  \A S \in SUBSET Nat, x \in Nat : x \in S /\ (\A y \in S : x <= y) => Min(S) = x
<1> SUFFICES ASSUME NEW S \in SUBSET Nat, NEW x \in Nat, x \in S, \A y \in S : x <= y
             PROVE  Min(S) = x
  OBVIOUS
<1>1. Min(S) \in S /\ \A y \in S : Min(S) <= y
  BY MinIn
<1>2. PICK m \in Nat : m = Min(S)
  BY <1>1
<1>3. m <= x /\ x <= m
  BY <1>1, <1>2
<1> QED  BY <1>2, <1>3

\* One more position, behind the others, leaves the earlier places alone and
\* takes the place after them.
LEMMA NthBehind ==
  ASSUME NEW n \in Nat, NEW S \in SUBSET (1..n)
  PROVE  /\ Cardinality(S) \in Nat
         /\ Cardinality(S \cup {n + 1}) = Cardinality(S) + 1
         /\ \A k \in 1..Cardinality(S) : Nth(S \cup {n + 1}, k) = Nth(S, k)
         /\ Nth(S \cup {n + 1}, Cardinality(S) + 1) = n + 1
<1> DEFINE T == S \cup {n + 1}
           m == Cardinality(S)
           Upto(A, i) == {j \in A : j <= i}
<1>0. \A i \in S : i \in Nat /\ i <= n
  OBVIOUS
<1>1. IsFiniteSet(1..n) /\ S \subseteq 1..n /\ S \subseteq Nat /\ T \subseteq Nat
  <2>1. IsFiniteSet(1..n)
    BY FS_Interval
  <2> QED  BY <1>0, <2>1
<1>2. IsFiniteSet(S) /\ m \in Nat
  BY <1>1, FS_Subset, FS_CardinalityType, Zenon
<1>3. n + 1 \notin S
  OBVIOUS
<1>4. Cardinality(T) = m + 1
  BY <1>2, <1>3, FS_AddElement
<1>5. \A i \in S : Upto(T, i) = Upto(S, i)
  OBVIOUS
<1>6. Upto(T, n + 1) = T
  <2>1. \A j \in T : j <= n + 1
    BY <1>0
  <2> QED  BY <2>1
<1>7. \A i \in S : Cardinality(Upto(S, i)) \in Nat /\ Cardinality(Upto(S, i)) <= m
  <2> SUFFICES ASSUME NEW i \in S
               PROVE  Cardinality(Upto(S, i)) \in Nat /\ Cardinality(Upto(S, i)) <= m
    OBVIOUS
  <2>1. PICK A : A = Upto(S, i)
    OBVIOUS
  <2>2. A \subseteq S
    BY <2>1
  <2>3. IsFiniteSet(A) /\ Cardinality(A) <= Cardinality(S)
    BY <1>2, <2>2, FS_Subset
  <2>4. Cardinality(A) \in Nat
    BY <2>3, FS_CardinalityType
  <2> QED  BY <2>1, <2>3, <2>4
<1>8. \A A, k : AtLeast(A, k) = {i \in A : Cardinality(Upto(A, i)) >= k}
  BY DEF AtLeast
<1> HIDE DEF Upto
<1>9. \A k \in 1..(m + 1) : AtLeast(T, k) = AtLeast(S, k) \cup {n + 1}
  <2> TAKE k \in 1..(m + 1)
  <2>1. Cardinality(Upto(T, n + 1)) >= k
    BY <1>2, <1>4, <1>6
  <2>2. \A i \in S : Cardinality(Upto(T, i)) = Cardinality(Upto(S, i))
    BY <1>5
  <2>3. \A i : i \in AtLeast(T, k) <=> i \in T /\ Cardinality(Upto(T, i)) >= k
    BY <1>8
  <2>4. \A i : i \in AtLeast(S, k) <=> i \in S /\ Cardinality(Upto(S, i)) >= k
    BY <1>8
  <2> QED  BY <2>1, <2>2, <2>3, <2>4
<1>10. AtLeast(S, m + 1) = {}
  <2>1. \A i \in S : ~(Cardinality(Upto(S, i)) >= m + 1)
    BY <1>2, <1>7
  <2> HIDE DEF m
  <2> QED  BY <1>8, <2>1
<1>11. \A A, k : Nth(A, k) = Min(AtLeast(A, k))
  BY DEF Nth, AtLeast
<1>12. \A k \in 1..m : Nth(T, k) = Nth(S, k)
  <2> TAKE k \in 1..m
  <2>1. PICK x : x = Nth(S, k)
    OBVIOUS
  <2>2. x \in AtLeast(S, k) /\ \A y \in AtLeast(S, k) : x <= y
    BY <2>1, NthLeast
  <2>3. AtLeast(S, k) \subseteq S
    BY DEF AtLeast
  <2>4. x \in S /\ x \in Nat /\ x <= n + 1
    <3>1. x \in S
      BY <2>2, <2>3
    <3>2. x \in Nat /\ x <= n
      BY <1>0, <3>1
    <3> QED  BY <3>1, <3>2
  <2>5. AtLeast(T, k) = AtLeast(S, k) \cup {n + 1}
    BY <1>2, <1>9
  <2>6. AtLeast(T, k) \in SUBSET Nat /\ x \in AtLeast(T, k) /\ \A y \in AtLeast(T, k) : x <= y
    <3>1. AtLeast(S, k) \subseteq Nat
      BY <1>1, <2>3
    <3>2. \A y \in AtLeast(S, k) \cup {n + 1} : y \in Nat /\ x <= y
      BY <2>2, <2>4, <3>1
    <3> QED  BY <2>2, <2>5, <3>2
  <2>7. Min(AtLeast(T, k)) = x
    BY <2>4, <2>6, MinIs
  <2> QED  BY <1>11, <2>1, <2>7
<1>13. Nth(T, m + 1) = n + 1
  <2>1. AtLeast(T, m + 1) = {n + 1}
    BY <1>2, <1>9, <1>10
  <2>2. Min(AtLeast(T, m + 1)) = n + 1
    BY <2>1, MinIs
  <2> QED  BY <1>11, <2>2
<1> QED  BY <1>2, <1>4, <1>12, <1>13

PickExtends(f, g, S, n) ==
  /\ Pick(g, S) = Pick(f, S)
  /\ Pick(g, S \cup {n + 1}) = Append(Pick(f, S), g[n + 1])

\* What is picked does not change while its positions keep what they have; one
\* more position behind them appends what is there.
LEMMA PickAppend ==
  ASSUME NEW n \in Nat, NEW S \in SUBSET (1..n), NEW f, NEW g, \A i \in S : g[i] = f[i]
  PROVE  PickExtends(f, g, S, n)
<1> DEFINE T == S \cup {n + 1}
           m == Cardinality(S)
<1>1. /\ m \in Nat /\ Cardinality(T) = m + 1
      /\ \A k \in 1..m : Nth(T, k) = Nth(S, k)
      /\ Nth(T, m + 1) = n + 1
  BY NthBehind
<1>2. \A k \in 1..m : Nth(S, k) \in S
  BY NthIn
<1>3. Pick(f, S) \in Seq({f[i] : i \in S}) /\ Len(Pick(f, S)) = m
  BY PickSeq
<1> HIDE DEF T, m
<1>4. Pick(f, S) = [k \in 1..m |-> f[Nth(S, k)]] /\ Pick(g, S) = [k \in 1..m |-> g[Nth(S, k)]]
  BY DEF Pick, m
<1>5. Pick(g, S) = Pick(f, S)
  BY <1>2, <1>4
<1>6. Pick(g, T) = [k \in 1..(m + 1) |-> g[Nth(T, k)]]
  BY <1>1 DEF Pick
<1> DEFINE p == Pick(f, S)
           R == {f[i] : i \in S}
           q == Pick(g, T)
           x == g[n + 1]
<1>7. \A k \in 1..m : q[k] = p[k]
  <2> TAKE k \in 1..m
  <2>1. k \in 1..(m + 1)
    BY <1>1
  <2>2. q[k] = g[Nth(T, k)]
    BY <1>6, <2>1
  <2>3. p[k] = f[Nth(S, k)]
    BY <1>4
  <2>4. Nth(T, k) = Nth(S, k) /\ Nth(S, k) \in S
    BY <1>1, <1>2
  <2> QED  BY <2>2, <2>3, <2>4
<1>8. q = [k \in 1..(m + 1) |-> q[k]] /\ q[m + 1] = x
  BY <1>1, <1>6
<1> HIDE DEF p, R, q, x
<1>9. Append(p, x) = [k \in 1..(m + 1) |-> IF k <= m THEN p[k] ELSE x]
  <2>1. p \in Seq(R \cup {x}) /\ x \in R \cup {x} /\ Len(p) = m
    BY <1>3 DEF p, R
  <2>2. /\ Append(p, x) \in Seq(R \cup {x}) /\ Len(Append(p, x)) = m + 1
        /\ \A k \in 1..m : Append(p, x)[k] = p[k]
        /\ Append(p, x)[m + 1] = x
    BY <2>1, AppendProperties
  <2>3. Append(p, x) = [k \in 1..(m + 1) |-> Append(p, x)[k]]
    BY <2>2, LenProperties
  <2> QED  BY <1>1, <2>2, <2>3
<1>10. q = Append(p, x)
  BY <1>1, <1>7, <1>8, <1>9
<1> QED  BY <1>5, <1>10 DEF PickExtends, p, q, x, T

=============================================================================
