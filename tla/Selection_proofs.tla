-------------------------- MODULE Selection_proofs --------------------------
(***************************************************************************)
(* What Nth and Select return, for any finite set of places.               *)
(***************************************************************************)
EXTENDS Selection, FiniteSetTheorems, TLAPS

\* How many places of P lie below x.
Rank(P, x) == Cardinality({y \in P : y < x})

\* The places of P lie below those of Q.
Before(P, Q) == \A x \in P, y \in Q : x < y

\* All places of P, m further on.
Moved(P, m) == {x + m : x \in P}
----------------------------------------------------------------------------
\* A rank is a number below the size of the set.
LEMMA RankBound ==
    ASSUME NEW P \in SUBSET Int, IsFiniteSet(P), NEW x \in P
    PROVE  Rank(P, x) \in 0 .. Cardinality(P) - 1
<1> DEFINE B == {y \in P : y < x}
<1>1. B \in SUBSET P /\ B # P
  <2>1. x \notin B /\ B \in SUBSET P
    OBVIOUS
  <2> HIDE DEF B
  <2>2. QED BY <2>1
<1>2. IsFiniteSet(B) /\ Cardinality(B) <= Cardinality(P) /\ Cardinality(B) # Cardinality(P)
  BY <1>1, FS_Subset
<1>3. Cardinality(B) \in Nat /\ Cardinality(P) \in Nat
  BY <1>2, FS_CardinalityType
<1>4. Rank(P, x) = Cardinality(B)
  BY DEF Rank
<1> HIDE DEF B
<1>5. QED BY <1>2, <1>3, <1>4

\* A higher place has a higher rank.
LEMMA RankOrder ==
    ASSUME NEW P \in SUBSET Int, IsFiniteSet(P), NEW x \in P, NEW z \in P, x < z
    PROVE  Rank(P, x) < Rank(P, z)
<1> DEFINE B == {y \in P : y < x}
           C == {y \in P : y < z}
<1>1. B \in SUBSET C /\ x \in C /\ x \notin B /\ C \in SUBSET P
  <2>1. \A y \in P : y < x => y < z
    OBVIOUS
  <2>2. ~(x < x)
    OBVIOUS
  <2>3. B \in SUBSET C
    BY <2>1
  <2>4. QED BY <2>2, <2>3
<1>2. IsFiniteSet(C)
  BY <1>1, FS_Subset
<1>3. IsFiniteSet(B) /\ Cardinality(B) <= Cardinality(C) /\ Cardinality(B) # Cardinality(C)
  BY <1>1, <1>2, FS_Subset
<1>4. Cardinality(B) \in Nat /\ Cardinality(C) \in Nat
  BY <1>2, <1>3, FS_CardinalityType
<1>5. Rank(P, x) = Cardinality(B) /\ Rank(P, z) = Cardinality(C)
  BY DEF Rank
<1> HIDE DEF B, C
<1>6. QED BY <1>3, <1>4, <1>5

\* Every number below the size of the set is the rank of a place: ranks are an injection
\* into as many numbers as there are places.
LEMMA RankOnto ==
    ASSUME NEW P \in SUBSET Int, IsFiniteSet(P), NEW k \in 1 .. Cardinality(P)
    PROVE  \E x \in P : Rank(P, x) = k - 1
<1> DEFINE T == 0 .. Cardinality(P) - 1
           f == [x \in P |-> Rank(P, x)]
<1>1. Cardinality(P) \in Nat
  BY FS_CardinalityType
<1>2. 0 \in Int /\ Cardinality(P) - 1 \in Int
  BY <1>1
<1>3. IsFiniteSet(T) /\ Cardinality(T) = Cardinality(P)
  BY <1>1, <1>2, FS_Interval
<1>4. \A x \in P : Rank(P, x) \in T
  BY RankBound
<1>5. \A x, z \in P : Rank(P, x) = Rank(P, z) => x = z
  <2>1. SUFFICES ASSUME NEW x \in P, NEW z \in P, Rank(P, x) = Rank(P, z), x # z PROVE FALSE
    OBVIOUS
  <2>2. x < z \/ z < x
    BY <2>1
  <2>3. Rank(P, x) \in Int /\ Rank(P, z) \in Int
    BY <1>1, <1>4
  <2>4. QED BY <2>1, <2>2, <2>3, RankOrder
<1>6. f \in Injection(P, T)
  <2>1. f \in [P -> T]
    BY <1>4
  <2>2. \A x, z \in P : f[x] = f[z] => x = z
    BY <1>5
  <2> HIDE DEF f, T
  <2>3. QED BY <2>1, <2>2 DEF Injection, IsInjective
<1>7. f \in Surjection(P, T)
  BY <1>3, <1>6, FS_Injection
<1>8. \A n \in T : \E x \in P : f[x] = n
  <2> HIDE DEF f, T
  <2>1. QED BY <1>7 DEF Surjection
<1>9. k - 1 \in T
  BY <1>1
<1>10. QED BY <1>8, <1>9

\* Nth(P, k) is a place of P, the only one with k - 1 others below it.
LEMMA NthRank ==
    ASSUME NEW P \in SUBSET Int, IsFiniteSet(P), NEW k \in 1 .. Cardinality(P)
    PROVE  Nth(P, k) \in P /\ Rank(P, Nth(P, k)) = k - 1
  BY RankOnto DEF Nth, Rank

\* A place with k - 1 others below it is the k-th.
LEMMA NthUnique ==
    ASSUME NEW P \in SUBSET Int, IsFiniteSet(P), NEW x \in P, NEW k \in Int,
           Rank(P, x) = k - 1
    PROVE  k \in 1 .. Cardinality(P) /\ Nth(P, k) = x
<1>1. Cardinality(P) \in Nat
  BY FS_CardinalityType
<1>2. k \in 1 .. Cardinality(P)
  BY <1>1, RankBound
<1>3. Nth(P, k) \in P /\ Rank(P, Nth(P, k)) = k - 1
  BY <1>2, NthRank
<1>4. Nth(P, k) = x
  <2>1. SUFFICES ASSUME Nth(P, k) # x PROVE FALSE
    OBVIOUS
  <2>2. Nth(P, k) \in Int /\ x \in Int
    BY <1>3
  <2>3. Rank(P, x) < Rank(P, x)
    <3>1. CASE Nth(P, k) < x
      BY <1>3, <3>1, RankOrder
    <3>2. CASE x < Nth(P, k)
      BY <1>3, <3>2, RankOrder
    <3>3. QED BY <2>1, <2>2, <3>1, <3>2
  <2>4. QED BY <2>3
<1>5. QED BY <1>2, <1>4

\* Every place is the k-th for some k.
LEMMA NthOnto ==
    ASSUME NEW P \in SUBSET Int, IsFiniteSet(P), NEW x \in P
    PROVE  \E k \in 1 .. Cardinality(P) : Nth(P, k) = x
<1>1. Cardinality(P) \in Nat
  BY FS_CardinalityType
<1>2. Rank(P, x) + 1 \in Int /\ Rank(P, x) = (Rank(P, x) + 1) - 1
  BY <1>1, RankBound
<1>3. QED BY <1>2, NthUnique

\* The places come in their order.
LEMMA NthOrder ==
    ASSUME NEW P \in SUBSET Int, IsFiniteSet(P),
           NEW j \in 1 .. Cardinality(P), NEW k \in 1 .. Cardinality(P), j < k
    PROVE  Nth(P, j) < Nth(P, k)
<1>1. Cardinality(P) \in Nat
  BY FS_CardinalityType
<1>2. /\ Nth(P, j) \in P /\ Rank(P, Nth(P, j)) = j - 1
      /\ Nth(P, k) \in P /\ Rank(P, Nth(P, k)) = k - 1
  BY NthRank
<1>3. SUFFICES ASSUME ~(Nth(P, j) < Nth(P, k)) PROVE FALSE
  OBVIOUS
<1>4. CASE Nth(P, j) = Nth(P, k)
  <2>1. j - 1 = k - 1 /\ j \in Int /\ k \in Int
    BY <1>1, <1>2, <1>4
  <2>2. QED BY <2>1
<1>5. CASE Nth(P, k) < Nth(P, j)
  <2>1. k - 1 < j - 1
    BY <1>2, <1>5, RankOrder
  <2>2. QED BY <1>1, <2>1
<1>6. Nth(P, j) \in Int /\ Nth(P, k) \in Int
  BY <1>2
<1>7. QED BY <1>3, <1>4, <1>5, <1>6

\* A finite set of integers that is not empty has a greatest element.
LEMMA Greatest ==
    ASSUME NEW P \in SUBSET Int, IsFiniteSet(P), P # {}
    PROVE  \E x \in P : \A y \in P : y <= x
<1>1. Cardinality(P) \in Nat /\ Cardinality(P) # 0
  BY FS_CardinalityType, FS_EmptySet
<1>2. Cardinality(P) \in 1 .. Cardinality(P)
  BY <1>1
<1> DEFINE x == Nth(P, Cardinality(P))
<1>3. x \in P /\ Rank(P, x) = Cardinality(P) - 1
  BY <1>2, NthRank
<1> HIDE DEF x
<1>4. ASSUME NEW y \in P PROVE y <= x
  <2>1. SUFFICES ASSUME x < y PROVE FALSE
    BY <1>3
  <2>2. Rank(P, x) < Rank(P, y)
    BY <1>3, <2>1, RankOrder
  <2>3. Rank(P, y) \in 0 .. Cardinality(P) - 1
    BY RankBound
  <2>4. QED BY <1>1, <1>3, <2>2, <2>3
<1>5. QED BY <1>3, <1>4
----------------------------------------------------------------------------
\* Select returns as many elements as there are places, each an element at a place.
LEMMA SelectType ==
    ASSUME NEW P \in SUBSET Int, IsFiniteSet(P), NEW S, NEW s, \A x \in P : s[x] \in S
    PROVE  /\ Select(s, P) \in Seq(S)
           /\ Len(Select(s, P)) = Cardinality(P)
           /\ \A k \in 1 .. Cardinality(P) : Select(s, P)[k] = s[Nth(P, k)]
<1>1. Cardinality(P) \in Nat
  BY FS_CardinalityType
<1>2. \A k \in 1 .. Cardinality(P) : s[Nth(P, k)] \in S
  BY NthRank
<1>3. QED BY <1>1, <1>2 DEF Select

\* What is selected is what s has at the places.
LEMMA SelectRange ==
    ASSUME NEW P \in SUBSET Int, IsFiniteSet(P), NEW s
    PROVE  {Select(s, P)[k] : k \in DOMAIN Select(s, P)} = {s[x] : x \in P}
<1>1. DOMAIN Select(s, P) = 1 .. Cardinality(P)
  BY DEF Select
<1>2. \A k \in 1 .. Cardinality(P) : Select(s, P)[k] = s[Nth(P, k)] /\ Nth(P, k) \in P
  BY NthRank DEF Select
<1>3. \A x \in P : \E k \in 1 .. Cardinality(P) : Select(s, P)[k] = s[x]
  BY NthOnto DEF Select
<1>4. \A k \in DOMAIN Select(s, P) : \E x \in P : Select(s, P)[k] = s[x]
  BY <1>1, <1>2
<1>5. \A x \in P : \E k \in DOMAIN Select(s, P) : Select(s, P)[k] = s[x]
  BY <1>1, <1>3
<1> DEFINE A == {Select(s, P)[k] : k \in DOMAIN Select(s, P)}
           B == {s[x] : x \in P}
<1>6. \A v : v \in A => v \in B
  BY <1>4
<1>7. \A v : v \in B => v \in A
  BY <1>5
<1>8. A = B
  <2> HIDE DEF A, B
  <2>1. QED BY <1>6, <1>7
<1>9. QED BY <1>8

\* Nothing is selected at no place.
LEMMA SelectNone ==
    ASSUME NEW s
    PROVE  Select(s, {}) = <<>>
<1>1. Cardinality({}) = 0
  BY FS_EmptySet
<1>2. QED BY <1>1 DEF Select

\* Two sequences that agree at the places, up to a shift, select the same.
LEMMA SelectMoved ==
    ASSUME NEW P \in SUBSET Int, IsFiniteSet(P), NEW m \in Int, NEW s, NEW t,
           \A x \in P : s[x + m] = t[x]
    PROVE  /\ IsFiniteSet(Moved(P, m)) /\ Cardinality(Moved(P, m)) = Cardinality(P)
           /\ Select(s, Moved(P, m)) = Select(t, P)
<1> DEFINE Q == Moved(P, m)
<1>1. ASSUME NEW R \in SUBSET P
      PROVE  IsFiniteSet(Moved(R, m)) /\ Cardinality(Moved(R, m)) = Cardinality(R)
  <2>1. IsFiniteSet(R)
    BY FS_Subset
  <2> DEFINE f == [x \in R |-> x + m]
  <2>2. f \in Bijection(R, Moved(R, m))
    <3>1. f \in [R -> Moved(R, m)]
      BY DEF Moved
    <3>2. \A a, b \in R : f[a] = f[b] => a = b
      <4>1. SUFFICES ASSUME NEW a \in R, NEW b \in R, f[a] = f[b] PROVE a = b
        OBVIOUS
      <4>2. a \in Int /\ b \in Int /\ a + m = b + m
        BY <4>1
      <4>3. QED BY <4>2
    <3>3. \A v \in Moved(R, m) : \E a \in R : f[a] = v
      BY DEF Moved
    <3> HIDE DEF f
    <3>4. QED BY <3>1, <3>2, <3>3 DEF Bijection, Injection, IsInjective, Surjection
  <2>3. ExistsBijection(R, Moved(R, m))
    <3> HIDE DEF f
    <3>1. QED BY <2>2 DEF ExistsBijection
  <2>4. QED BY <2>1, <2>3, FS_Bijection
<1>2. IsFiniteSet(Q) /\ Cardinality(Q) = Cardinality(P) /\ Q \in SUBSET Int
  <2>1. P \in SUBSET P
    OBVIOUS
  <2>2. IsFiniteSet(Q) /\ Cardinality(Q) = Cardinality(P)
    <3> HIDE DEF Q
    <3>1. QED BY <1>1, <2>1 DEF Q
  <2>3. \A x \in P : x + m \in Int
    OBVIOUS
  <2>4. QED BY <2>2, <2>3 DEF Moved
<1>3. Cardinality(P) \in Nat
  BY FS_CardinalityType
<1>4. ASSUME NEW k \in 1 .. Cardinality(P) PROVE Nth(Q, k) = Nth(P, k) + m
  <2> DEFINE x == Nth(P, k)
  <2>1. x \in P /\ Rank(P, x) = k - 1
    BY NthRank
  <2> HIDE DEF x
  <2>2. x + m \in Q
    BY <2>1 DEF Moved
  <2>3. {y \in Q : y < x + m} = Moved({y \in P : y < x}, m)
    BY <2>1 DEF Moved
  <2>4. Rank(Q, x + m) = k - 1
    BY <1>1, <2>1, <2>3 DEF Rank
  <2> HIDE DEF Q
  <2>5. k \in Int
    BY <1>3
  <2>6. QED BY <1>2, <2>2, <2>4, <2>5, NthUnique DEF x
<1> HIDE DEF Q
<1>5. \A k \in 1 .. Cardinality(P) : s[Nth(Q, k)] = t[Nth(P, k)]
  BY <1>4, NthRank
<1>6. Select(s, Q) = Select(t, P)
  BY <1>2, <1>5 DEF Select
<1>7. QED BY <1>2, <1>6 DEF Q

\* Two sequences that agree at the places select the same.
LEMMA SelectAgree ==
    ASSUME NEW P \in SUBSET Int, IsFiniteSet(P), NEW s, NEW t, \A x \in P : s[x] = t[x]
    PROVE  Select(s, P) = Select(t, P)
<1>1. \A k \in 1 .. Cardinality(P) : s[Nth(P, k)] = t[Nth(P, k)]
  BY NthRank
<1>2. QED BY <1>1 DEF Select

\* The places of two sets, one below the other, select one after the other.
LEMMA SelectSplit ==
    ASSUME NEW P \in SUBSET Int, IsFiniteSet(P), NEW Q \in SUBSET Int, IsFiniteSet(Q),
           Before(P, Q), NEW S, NEW s, \A x \in P \cup Q : s[x] \in S
    PROVE  Select(s, P \cup Q) = Select(s, P) \o Select(s, Q)
<1> DEFINE U == P \cup Q
           p == Cardinality(P)
           q == Cardinality(Q)
<1>1. p \in Nat /\ q \in Nat
  BY FS_CardinalityType
<1>2. P \cap Q = {}
  BY DEF Before
<1>3. IsFiniteSet(U) /\ Cardinality(U) = p + q /\ U \in SUBSET Int
  <2>1. IsFiniteSet(U) /\ Cardinality(U) = p + q - Cardinality(P \cap Q)
    BY FS_Union
  <2>2. Cardinality(P \cap Q) = 0
    BY <1>2, FS_EmptySet
  <2> HIDE DEF p, q
  <2>3. QED BY <1>1, <2>1, <2>2
<1>4. ASSUME NEW k \in 1 .. p PROVE Nth(U, k) = Nth(P, k)
  <2> DEFINE x == Nth(P, k)
  <2>1. x \in P /\ Rank(P, x) = k - 1
    BY NthRank
  <2> HIDE DEF x
  <2>2. {y \in U : y < x} = {y \in P : y < x}
    <3>1. x \in Int /\ \A y \in Q : y \in Int /\ ~(y < x)
      <4>1. \A y \in Q : x < y /\ y \in Int /\ x \in Int
        BY <2>1 DEF Before
      <4>2. QED BY <2>1, <4>1
    <3>2. QED BY <3>1
  <2>3. Rank(U, x) = k - 1 /\ x \in U /\ k \in Int
    BY <1>1, <2>1, <2>2 DEF Rank
  <2> HIDE DEF U
  <2>4. QED BY <1>3, <2>3, NthUnique DEF x
<1>5. ASSUME NEW k \in 1 .. q PROVE Nth(U, p + k) = Nth(Q, k)
  <2> DEFINE x == Nth(Q, k)
             B == {y \in Q : y < x}
  <2>1. x \in Q /\ Rank(Q, x) = k - 1
    BY NthRank
  <2> HIDE DEF x
  <2>2. {y \in U : y < x} = P \cup B /\ P \cap B = {} /\ B \in SUBSET Q
    BY <2>1, <1>2 DEF Before
  <2>3. IsFiniteSet(B)
    BY <2>2, FS_Subset
  <2>4. Cardinality(B) = k - 1
    BY <2>1 DEF Rank
  <2>5. Cardinality(P \cup B) = p + (k - 1)
    <3> HIDE DEF B
    <3>1. Cardinality(P \cup B) = p + Cardinality(B) - Cardinality(P \cap B)
      BY <2>3, FS_Union
    <3>2. Cardinality(P \cap B) = 0
      BY <2>2, FS_EmptySet
    <3>3. k \in Int
      BY <1>1
    <3> HIDE DEF p
    <3>4. QED BY <1>1, <2>4, <3>1, <3>2, <3>3
  <2>6. Rank(U, x) = (p + k) - 1 /\ x \in U /\ p + k \in Int
    <3>1. Rank(U, x) = Cardinality(P \cup B)
      BY <2>2 DEF Rank
    <3>2. k \in Int /\ x \in U
      BY <1>1, <2>1
    <3> HIDE DEF U, B, p
    <3>3. QED BY <1>1, <2>5, <3>1, <3>2
  <2> HIDE DEF U, B, p
  <2>7. QED BY <1>3, <2>6, NthUnique DEF x
<1>6. /\ Select(s, P) \in Seq(S) /\ Len(Select(s, P)) = p
      /\ \A k \in 1 .. p : Select(s, P)[k] = s[Nth(P, k)]
  BY SelectType
<1>7. /\ Select(s, Q) \in Seq(S) /\ Len(Select(s, Q)) = q
      /\ \A k \in 1 .. q : Select(s, Q)[k] = s[Nth(Q, k)]
  BY SelectType
<1>8. /\ Select(s, U) \in Seq(S) /\ Len(Select(s, U)) = p + q
      /\ \A k \in 1 .. p + q : Select(s, U)[k] = s[Nth(U, k)]
  <2>1. \A x \in U : s[x] \in S
    OBVIOUS
  <2> HIDE DEF U
  <2>2. QED BY <1>3, <2>1, SelectType
<1> HIDE DEF U, p, q
<1> DEFINE a == Select(s, P)
           b == Select(s, Q)
           u == Select(s, U)
<1>9. ASSUME NEW k \in 1 .. p + q PROVE u[k] = (a \o b)[k]
  <2>1. CASE k <= p
    <3>1. k \in 1 .. p
      BY <1>1, <2>1
    <3>2. u[k] = a[k]
      BY <1>4, <1>6, <1>8, <3>1
    <3> HIDE DEF a, b, u
    <3>3. QED BY <1>1, <1>6, <1>7, <3>1, <3>2 DEF a, b
  <2>2. CASE ~(k <= p)
    <3>1. k - p \in 1 .. q /\ k = p + (k - p)
      BY <1>1, <2>2
    <3>2. u[k] = b[k - p]
      BY <1>5, <1>7, <1>8, <3>1
    <3> HIDE DEF a, b, u
    <3>3. QED BY <1>1, <1>6, <1>7, <3>1, <3>2, <2>2 DEF a, b
  <2>3. QED BY <2>1, <2>2
<1>10. u \in Seq(S) /\ Len(u) = p + q
  BY <1>8
<1>11. a \o b \in Seq(S) /\ Len(a \o b) = p + q
  BY <1>1, <1>6, <1>7
<1>12. u = a \o b
  <2> HIDE DEF u, a, b
  <2>1. QED BY <1>9, <1>10, <1>11
<1>13. QED BY <1>12 DEF U

\* All places select the sequence itself.
LEMMA SelectAll ==
    ASSUME NEW S, NEW s \in Seq(S)
    PROVE  Select(s, DOMAIN s) = s
<1> DEFINE n == Len(s)
<1>1. n \in Nat /\ DOMAIN s = 1 .. n
  OBVIOUS
<1> HIDE DEF n
<1>2. 1 \in Int /\ n \in Int
  BY <1>1
<1>3. IsFiniteSet(1 .. n) /\ Cardinality(1 .. n) = n
  BY <1>1, <1>2, FS_Interval
<1>4. ASSUME NEW k \in 1 .. n PROVE Nth(1 .. n, k) = k
  <2>1. {y \in 1 .. n : y < k} = 1 .. k - 1
    BY <1>1
  <2>2. k - 1 \in Int
    BY <1>1
  <2>3. Cardinality(1 .. k - 1) = k - 1
    BY <1>1, <1>2, <2>2, FS_Interval
  <2>4. Rank(1 .. n, k) = k - 1
    BY <2>1, <2>3 DEF Rank
  <2>5. k \in Int /\ 1 .. n \in SUBSET Int
    BY <1>1
  <2>6. QED BY <1>3, <2>4, <2>5, NthUnique
<1>5. Select(s, 1 .. n) = [k \in 1 .. n |-> s[k]]
  BY <1>3, <1>4 DEF Select
<1>6. QED BY <1>1, <1>5 DEF n
=============================================================================
