-------------------------- MODULE EventLog_proofs ---------------------------
(***************************************************************************)
(* What appends and reads do to an array of envelopes in id order, for any *)
(* array, cursor, filter and page size.                                    *)
(***************************************************************************)
EXTENDS EventLog, Selection_proofs, SequenceTheorems

\* Every id of sequence a precedes every id of sequence b.
Below(a, b) == \A x \in Range(a), y \in Range(b) : x.id < y.id

----------------------------------------------------------------------------
\* Event ids are positive numbers.
LEMMA EventId == \A e \in Event : e.id \in Nat /\ e.id > 0
  BY DEF Event

\* The last element of a non-empty array is an event.
LEMMA LastElement ==
    ASSUME NEW log \in Seq(Event), log # <<>>
    PROVE  /\ Len(log) \in DOMAIN log /\ log[Len(log)] \in Event
           /\ \A i \in DOMAIN log : i \in Nat /\ 1 <= i /\ i <= Len(log) /\ log[i] \in Event
  OBVIOUS

\* The last id of an array is a number, 0 for an empty one.
LEMMA LastIdNat == ASSUME NEW log \in Seq(Event) PROVE LastId(log) \in Nat
<1>1. CASE log = <<>>  BY <1>1 DEF LastId
<1>2. CASE log # <<>>  BY <1>2, LastElement, EventId DEF LastId
<1>3. QED BY <1>1, <1>2

\* Appending an envelope makes its id the last one.
LEMMA LastIdAppend ==
    ASSUME NEW log \in Seq(Event), NEW e \in Event
    PROVE  LastId(Append(log, e)) = e.id
  BY DEF LastId

\* In an increasing sequence no id is above the last one.
LEMMA LastIdMax ==
    ASSUME NEW log \in Seq(Event), Increasing(log)
    PROVE  /\ \A x \in Range(log) : x.id <= LastId(log)
           /\ log # <<>> => \E x \in Range(log) : x.id = LastId(log)
<1>1. CASE log = <<>>  BY <1>1 DEF Range
<1>2. CASE log # <<>>  BY <1>2, LastElement, EventId DEF LastId, Increasing, Range
<1>3. QED BY <1>1, <1>2

\* Appending adds one element to the range.
LEMMA AppendRange ==
    ASSUME NEW log \in Seq(Event), NEW e \in Event
    PROVE  Range(Append(log, e)) = Range(log) \cup {e}
<1> DEFINE a == Append(log, e)
<1>1. /\ DOMAIN a = 1 .. Len(log) + 1 /\ DOMAIN log = 1 .. Len(log)
      /\ a[Len(log) + 1] = e /\ \A i \in DOMAIN log : a[i] = log[i]
  OBVIOUS
<1>2. ASSUME NEW x PROVE x \in Range(a) <=> x \in Range(log) \cup {e}
  BY <1>1 DEF Range
<1>3. QED BY <1>2

\* Concatenating joins the ranges.
LEMMA ConcatRange ==
    ASSUME NEW log \in Seq(Event), NEW b \in Seq(Event)
    PROVE  Range(log \o b) = Range(log) \cup Range(b)
<1> DEFINE a == log \o b
<1>1. /\ DOMAIN a = 1 .. Len(log) + Len(b)
      /\ DOMAIN log = 1 .. Len(log) /\ DOMAIN b = 1 .. Len(b)
      /\ \A i \in DOMAIN log : i \in DOMAIN a /\ a[i] = log[i]
      /\ \A i \in DOMAIN b : Len(log) + i \in DOMAIN a /\ a[Len(log) + i] = b[i]
      /\ \A i \in DOMAIN a :
            i \in DOMAIN log \/ (i - Len(log) \in DOMAIN b /\ a[i] = b[i - Len(log)])
  OBVIOUS
<1> HIDE DEF a
<1>2. ASSUME NEW x \in Range(a) PROVE x \in Range(log) \cup Range(b)
  <2>1. PICK i \in DOMAIN a : x = a[i]  BY DEF Range
  <2>2. CASE i \in DOMAIN log  BY <1>1, <2>1, <2>2 DEF Range
  <2>3. CASE i - Len(log) \in DOMAIN b /\ a[i] = b[i - Len(log)]  BY <2>1, <2>3 DEF Range
  <2>4. QED BY <1>1, <2>1, <2>2, <2>3
<1>3. Range(log) \subseteq Range(a)  BY <1>1 DEF Range
<1>4. Range(b) \subseteq Range(a)  BY <1>1 DEF Range
<1>5. QED BY <1>2, <1>3, <1>4 DEF a

\* What dropping the head of a queue leaves, element by element.
LEMMA TailRange ==
    ASSUME NEW q \in Seq(Event), q # <<>>
    PROVE  /\ Tail(q) \in Seq(Event) /\ Head(q) \in Event
           /\ Len(Tail(q)) = Len(q) - 1
           /\ DOMAIN q = 1 .. Len(q) /\ DOMAIN Tail(q) = 1 .. Len(q) - 1
           /\ 1 \in DOMAIN q /\ Head(q) = q[1]
           /\ \A i \in DOMAIN Tail(q) : i + 1 \in DOMAIN q /\ Tail(q)[i] = q[i + 1]
           /\ Range(q) = {Head(q)} \cup Range(Tail(q))
<1>1. /\ Tail(q) \in Seq(Event) /\ Head(q) \in Event /\ Len(Tail(q)) = Len(q) - 1
      /\ DOMAIN q = 1 .. Len(q) /\ DOMAIN Tail(q) = 1 .. Len(q) - 1
      /\ 1 \in DOMAIN q /\ Head(q) = q[1]
      /\ \A i \in DOMAIN Tail(q) : i + 1 \in DOMAIN q /\ Tail(q)[i] = q[i + 1]
  OBVIOUS
<1>2. \A i \in DOMAIN q : i = 1 \/ (i - 1 \in DOMAIN Tail(q) /\ Tail(q)[i - 1] = q[i])
  BY <1>1
<1> DEFINE t == Tail(q)
<1>3. /\ DOMAIN t = 1 .. Len(q) - 1 /\ \A i \in DOMAIN t : i + 1 \in DOMAIN q /\ t[i] = q[i + 1]
      /\ \A i \in DOMAIN q : i = 1 \/ (i - 1 \in DOMAIN t /\ t[i - 1] = q[i])
  BY <1>1, <1>2
<1> HIDE DEF t
<1>4. ASSUME NEW x \in Range(q) PROVE x \in {q[1]} \cup Range(t)
  <2>1. PICK i \in DOMAIN q : x = q[i]  BY DEF Range
  <2>2. CASE i = 1  BY <2>1, <2>2
  <2>3. CASE i - 1 \in DOMAIN t /\ t[i - 1] = q[i]  BY <2>1, <2>3 DEF Range
  <2>4. QED BY <1>3, <2>1, <2>2, <2>3
<1>5. Range(t) \subseteq Range(q)  BY <1>3 DEF Range
<1>6. q[1] \in Range(q)  BY <1>1 DEF Range
<1>7. QED BY <1>1, <1>4, <1>5, <1>6 DEF t

\* Dropping the head of an increasing sequence: the rest is above it.
LEMMA TailIncreasing ==
    ASSUME NEW q \in Seq(Event), q # <<>>, Increasing(q)
    PROVE  /\ Increasing(Tail(q))
           /\ \A x \in Range(Tail(q)) : Head(q).id < x.id
           /\ Range(Tail(q)) = Range(q) \ {Head(q)}
<1> DEFINE t == Tail(q)
<1>1. /\ t \in Seq(Event) /\ Head(q) = q[1] /\ q[1] \in Event /\ 1 \in DOMAIN q
      /\ DOMAIN q = 1 .. Len(q) /\ DOMAIN t = 1 .. Len(q) - 1 /\ Len(q) \in Nat
      /\ \A i \in DOMAIN t : i + 1 \in DOMAIN q /\ t[i] = q[i + 1] /\ t[i] \in Event
      /\ Range(q) = {q[1]} \cup Range(t)
  BY TailRange
<1> HIDE DEF t
<1>2. Increasing(t)
  <2>1. ASSUME NEW i \in DOMAIN t, NEW j \in DOMAIN t, i < j PROVE t[i].id < t[j].id
    <3>1. i + 1 \in DOMAIN q /\ j + 1 \in DOMAIN q /\ i + 1 < j + 1
      BY <1>1, <2>1
    <3>2. q[i + 1].id < q[j + 1].id
      BY <3>1 DEF Increasing
    <3>3. QED BY <1>1, <3>2
  <2>2. QED BY <2>1 DEF Increasing
<1>3. \A i \in DOMAIN t : q[1].id < t[i].id  BY <1>1 DEF Increasing
<1>4. \A x \in Range(t) : q[1].id < x.id  BY <1>3 DEF Range
<1>5. q[1] \notin Range(t)  BY <1>1, <1>4, EventId
<1>6. QED BY <1>1, <1>2, <1>4, <1>5 DEF t

\* Appending an envelope above all the others keeps the id order.
LEMMA AppendIncreasing ==
    ASSUME NEW q \in Seq(Event), NEW e \in Event, Increasing(q),
           \A x \in Range(q) : x.id < e.id
    PROVE  Increasing(Append(q, e))
<1> DEFINE a == Append(q, e)
<1>1. /\ DOMAIN a = 1 .. Len(q) + 1 /\ DOMAIN q = 1 .. Len(q) /\ Len(q) \in Nat
      /\ a[Len(q) + 1] = e /\ \A i \in DOMAIN q : a[i] = q[i]
  OBVIOUS
<1>2. \A i \in DOMAIN a : i \in DOMAIN q \/ i = Len(q) + 1
  BY <1>1
<1>3. \A i \in DOMAIN q : q[i].id < e.id
  BY DEF Range
<1>4. QED BY <1>1, <1>2, <1>3 DEF Increasing

\* Concatenating an array and a batch above it keeps the id order.
LEMMA ConcatIncreasing ==
    ASSUME NEW a \in Seq(Event), NEW b \in Seq(Event),
           Increasing(a), Increasing(b), Below(a, b)
    PROVE  Increasing(a \o b)
<1> DEFINE c == a \o b
<1>1. /\ DOMAIN c = 1 .. Len(a) + Len(b) /\ DOMAIN a = 1 .. Len(a) /\ DOMAIN b = 1 .. Len(b)
      /\ Len(a) \in Nat /\ Len(b) \in Nat
      /\ \A i \in DOMAIN c : \/ i \in DOMAIN a /\ c[i] = a[i]
                             \/ i > Len(a) /\ i - Len(a) \in DOMAIN b /\ c[i] = b[i - Len(a)]
  OBVIOUS
<1>2. \A i \in DOMAIN a, j \in DOMAIN b : a[i].id < b[j].id
  BY DEF Below, Range
<1>3. QED BY <1>1, <1>2 DEF Increasing
----------------------------------------------------------------------------
(* Reads.                                                                  *)

\* The places of an array a read returns.
Hits(log, c, f) == {i \in DOMAIN log : AfterCursor(c, log[i]) /\ Matches(f, log[i])}

\* They are finitely many places, no more than the array has.
LEMMA HitsFinite ==
    ASSUME NEW log \in Seq(Event), NEW P \in SUBSET DOMAIN log
    PROVE  P \in SUBSET Int /\ IsFiniteSet(P) /\ Cardinality(P) <= Len(log)
<1>1. 1 \in Int /\ Len(log) \in Int /\ Len(log) \in Nat /\ DOMAIN log = 1 .. Len(log)
  OBVIOUS
<1>2. /\ IsFiniteSet(1 .. Len(log))
      /\ Cardinality(1 .. Len(log)) = IF 1 > Len(log) THEN 0 ELSE Len(log) - 1 + 1
  BY <1>1, FS_Interval
<1>3. P \in SUBSET (1 .. Len(log))
  BY <1>1
<1>4. IsFiniteSet(P) /\ Cardinality(P) <= Cardinality(1 .. Len(log))
  BY <1>2, <1>3, FS_Subset
<1>5. Cardinality(P) \in Nat
  BY <1>4, FS_CardinalityType
<1>6. P \in SUBSET Int
  BY <1>3
<1>7. Cardinality(1 .. Len(log)) = Len(log)
  BY <1>1, <1>2
<1>8. QED BY <1>4, <1>6, <1>7

\* What is read are events of the array.
LEMMA HitsAre ==
    ASSUME NEW log \in Seq(Event), NEW P \in SUBSET DOMAIN log
    PROVE  /\ Select(log, P) \in Seq(Event) /\ Len(Select(log, P)) = Cardinality(P)
           /\ Cardinality(P) \in Nat
           /\ \A k \in 1 .. Cardinality(P) : Select(log, P)[k] = log[Nth(P, k)]
<1>1. P \in SUBSET Int /\ IsFiniteSet(P)
  BY HitsFinite
<1>2. \A x \in P : log[x] \in Event
  OBVIOUS
<1>3. QED BY <1>1, <1>2, SelectType, FS_CardinalityType

\* A limit cuts a result short, or not at all.
LEMMA TakeIs ==
    ASSUME NEW s \in Seq(Event), NEW n \in Nat
    PROVE  /\ Take(s, n) \in Seq(Event)
           /\ Len(s) <= n => Take(s, n) = s
           /\ n <= Len(s) => /\ Len(Take(s, n)) = n
                             /\ \A i \in 1 .. n : Take(s, n)[i] = s[i]
           /\ n = 0 => Take(s, n) = <<>>
<1> DEFINE m == IF n < Len(s) THEN n ELSE Len(s)
<1>1. m \in Nat /\ m <= Len(s) /\ Len(s) \in Nat /\ 1 \in Int /\ m \in Int
  OBVIOUS
<1>2. Take(s, n) = SubSeq(s, 1, m)
  BY DEF Take
<1>3. /\ Len(s) <= n => m = Len(s)
      /\ n <= Len(s) => m = n
  OBVIOUS
<1> HIDE DEF m
<1>4. \A i \in 1 .. m : s[i] \in Event
  BY <1>1
<1>5. /\ SubSeq(s, 1, m) \in Seq(Event)
      /\ Len(SubSeq(s, 1, m)) = IF 1 <= m THEN m - 1 + 1 ELSE 0
      /\ \A i \in 1 .. m - 1 + 1 : SubSeq(s, 1, m)[i] = s[1 + i - 1]
  BY <1>1, <1>4, SubSeqProperties
<1>6. Len(SubSeq(s, 1, m)) = m
  BY <1>1, <1>5
<1>7. \A i \in 1 .. m : SubSeq(s, 1, m)[i] = s[i]
  <2>1. \A i \in 1 .. m : i \in 1 .. m - 1 + 1 /\ 1 + i - 1 = i
    BY <1>1
  <2>2. QED BY <1>5, <2>1
<1>8. ASSUME Len(s) <= n PROVE Take(s, n) = s
  BY <1>2, <1>3, <1>5, <1>6, <1>7, <1>8, SeqEqual
<1>9. ASSUME n = 0 PROVE Take(s, n) = <<>>
  <2>1. m = 0
    BY <1>1, <1>3, <1>9
  <2> DEFINE w == SubSeq(s, 1, m)
  <2>2. w \in Seq(Event) /\ Len(w) = 0
    BY <1>5, <1>6, <2>1
  <2> HIDE DEF w
  <2>3. w = <<>>
    BY <2>2
  <2>4. QED BY <1>2, <2>3 DEF w
<1>10. QED BY <1>2, <1>3, <1>5, <1>6, <1>7, <1>8, <1>9

\* The first k places of a selection and the others.
LEMMA SelectCut ==
    ASSUME NEW log \in Seq(Event), NEW P \in SUBSET DOMAIN log, NEW k \in 1 .. Cardinality(P)
    PROVE  LET m == Nth(P, k)
               U == {x \in P : x <= m}
               Q == {x \in P : x > m}
           IN  /\ m \in P /\ Len(Select(log, U)) = k
               /\ Select(log, P) = Select(log, U) \o Select(log, Q)
<1> DEFINE m == Nth(P, k)
           L == {x \in P : x < m}
           U == {x \in P : x <= m}
           Q == {x \in P : x > m}
<1>1. P \in SUBSET Int /\ IsFiniteSet(P)
  BY HitsFinite
<1>2. m \in P /\ Rank(P, m) = k - 1
  BY <1>1, NthRank
<1>3. Cardinality(L) = k - 1
  BY <1>2 DEF Rank
<1> HIDE DEF m
<1>4. /\ L \in SUBSET DOMAIN log /\ U \in SUBSET DOMAIN log /\ Q \in SUBSET DOMAIN log
      /\ U = L \cup {m} /\ m \notin L /\ P = U \cup Q
  <2>1. m \in Int /\ \A x \in P : x \in Int /\ x \in DOMAIN log
    BY <1>1, <1>2
  <2>2. \A x \in P : (x <= m <=> (x < m \/ x = m)) /\ (x > m <=> ~(x <= m))
    BY <2>1
  <2>3. QED BY <1>2, <2>1, <2>2
<1>5. Before(U, Q)
  <2>1. m \in Int /\ \A x \in P : x \in Int
    BY <1>1, <1>2
  <2>2. QED BY <2>1 DEF Before
<1> HIDE DEF L, U, Q
<1>6. /\ IsFiniteSet(L) /\ IsFiniteSet(U) /\ IsFiniteSet(Q)
      /\ U \in SUBSET Int /\ Q \in SUBSET Int
  BY <1>4, HitsFinite
<1>7. Cardinality(U) = k
  <2>1. Cardinality(L \cup {m}) = Cardinality(L) + 1
    BY <1>4, <1>6, FS_AddElement
  <2>2. QED BY <1>3, <1>4, <2>1
<1>8. Len(Select(log, U)) = k
  BY <1>4, <1>7, HitsAre
<1>9. Select(log, U \cup Q) = Select(log, U) \o Select(log, Q)
  <2>1. \A x \in U \cup Q : log[x] \in Event
    BY <1>4
  <2>2. \A A \in SUBSET Int : IsFiniteSet(A) => \A B \in SUBSET Int :
            IsFiniteSet(B) /\ Before(A, B) => \A S, s :
                (\A x \in A \cup B : s[x] \in S) =>
                    Select(s, A \cup B) = Select(s, A) \o Select(s, B)
    BY SelectSplit
  <2>3. \A S, s : (\A x \in U \cup Q : s[x] \in S) =>
            Select(s, U \cup Q) = Select(s, U) \o Select(s, Q)
    BY <1>5, <1>6, <2>2
  <2>4. QED BY <2>1, <2>3
<1>10. QED BY <1>2, <1>4, <1>8, <1>9 DEF m, U, Q

\* A page, and the read that starts after its last event, are what one read returns.
LEMMA PageThenRest ==
    ASSUME NEW log \in Seq(Event), Increasing(log), NEW c \in Nat \cup {Earliest},
           NEW f, NEW limit \in Nat \ {0}, Select(log, Hits(log, c, f)) # <<>>
    PROVE  LET all == Select(log, Hits(log, c, f))
               page == Take(all, limit)
           IN  /\ page # <<>>
               /\ all = page \o Select(log, Hits(log, LastId(page), f))
<1> DEFINE P == Hits(log, c, f)
           all == Select(log, P)
           page == Take(all, limit)
           k == IF limit < Len(all) THEN limit ELSE Len(all)
           m == Nth(P, k)
           U == {x \in P : x <= m}
           Q == {x \in P : x > m}
<1>1. P \in SUBSET DOMAIN log
  BY DEF Hits
<1>2. /\ all \in Seq(Event) /\ Len(all) = Cardinality(P) /\ all # <<>>
      /\ \A i \in 1 .. Cardinality(P) : all[i] = log[Nth(P, i)]
  <2>1. all # <<>>
    OBVIOUS
  <2> HIDE DEF P
  <2>2. QED BY <1>1, <2>1, HitsAre
<1> HIDE DEF P, all
<1>3. k \in 1 .. Cardinality(P) /\ k \in Nat /\ k >= 1 /\ k <= Len(all) /\ Len(all) \in Nat
  <2>1. Len(all) \in Nat /\ Len(all) > 0
    BY <1>2
  <2>2. QED BY <1>2, <2>1
<1>4. page \in Seq(Event) /\ Len(page) = k /\ \A i \in 1 .. k : page[i] = all[i]
  <2>1. CASE limit < Len(all)
    BY <1>2, <1>3, <2>1, TakeIs
  <2>2. CASE ~(limit < Len(all))
    <3>1. Len(all) <= limit
      BY <1>3, <2>2
    <3>2. page = all
      BY <1>2, <3>1, TakeIs
    <3>3. QED BY <1>2, <1>3, <2>2, <3>2
  <2>3. QED BY <2>1, <2>2
<1> HIDE DEF page, k
<1>5. m \in P /\ Len(Select(log, U)) = k /\ all = Select(log, U) \o Select(log, Q)
  BY <1>1, <1>3, SelectCut DEF all
<1>6. page = Select(log, U)
  <2> DEFINE a == Select(log, U)
             b == Select(log, Q)
  <2>1. U \in SUBSET DOMAIN log /\ Q \in SUBSET DOMAIN log
    BY <1>1
  <2>2. a \in Seq(Event) /\ b \in Seq(Event)
    BY <2>1, HitsAre
  <2>3. Len(a) = k /\ all = a \o b
    BY <1>5
  <2> HIDE DEF a, b, U, Q, m
  <2>4. \A i \in 1 .. k : all[i] = a[i]
    BY <1>3, <2>2, <2>3
  <2>5. page = a
    BY <1>4, <2>2, <2>3, <2>4, SeqEqual
  <2>6. QED BY <2>5 DEF a
<1>7. LastId(page) = log[m].id
  <2>1. page # <<>> /\ page[Len(page)] = all[k]
    BY <1>3, <1>4
  <2>2. all[k] = log[m]
    BY <1>2, <1>3
  <2>3. QED BY <2>1, <2>2 DEF LastId
<1>8. Hits(log, LastId(page), f) = Q
  <2> DEFINE d == log[m].id
  <2>1. m \in DOMAIN log /\ m \in Nat /\ log[m] \in Event /\ AfterCursor(c, log[m])
    BY <1>1, <1>5 DEF P, Hits
  <2>2. d \in Nat /\ d \notin {Earliest, Latest}
    BY <2>1, EventId, CursorAssumption
  <2> HIDE DEF m
  <2>3. ASSUME NEW i \in DOMAIN log PROVE i > m <=> AfterCursor(d, log[i])
    <3>1. i \in Nat /\ log[i].id \in Nat
      BY EventId
    <3>2. AfterCursor(d, log[i]) <=> log[i].id > d
      BY <2>2 DEF AfterCursor
    <3>3. CASE i > m
      BY <2>1, <2>2, <3>1, <3>2, <3>3 DEF Increasing
    <3>4. CASE i = m
      BY <2>1, <2>2, <3>1, <3>2, <3>4
    <3>5. CASE i < m
      BY <2>1, <2>2, <3>1, <3>2, <3>5 DEF Increasing
    <3>6. QED BY <2>1, <3>1, <3>3, <3>4, <3>5
  <2>4. ASSUME NEW i \in DOMAIN log, i > m PROVE AfterCursor(c, log[i])
    <3>1. log[i].id \in Nat /\ i \in Nat /\ log[m].id < log[i].id
      BY <2>1, <2>4, EventId DEF Increasing
    <3>2. CASE c = Earliest
      BY <3>2 DEF AfterCursor
    <3>3. CASE c \in Nat
      <4>1. c \notin {Earliest, Latest}
        BY <3>3, CursorAssumption
      <4>2. log[m].id > c
        BY <2>1, <4>1 DEF AfterCursor
      <4>3. log[i].id > c
        BY <2>2, <3>1, <3>3, <4>2
      <4>4. QED BY <4>1, <4>3 DEF AfterCursor
    <3>4. QED BY <3>2, <3>3
  <2>5. \A i \in DOMAIN log :
            (AfterCursor(d, log[i]) /\ Matches(f, log[i]))
                <=> (AfterCursor(c, log[i]) /\ Matches(f, log[i]) /\ i > m)
    BY <2>3, <2>4
  <2>6. Hits(log, d, f) = {i \in DOMAIN log : AfterCursor(d, log[i]) /\ Matches(f, log[i])}
    BY DEF Hits
  <2> HIDE DEF d
  <2>7. Hits(log, d, f) = Q
    BY <2>5, <2>6 DEF P, Hits
  <2>8. QED BY <1>7, <2>7 DEF d
<1>9. page # <<>>
  BY <1>3, <1>4
<1>10. QED
  <2> HIDE DEF m, U, Q
  <2>1. all = page \o Select(log, Hits(log, LastId(page), f))
    BY <1>5, <1>6, <1>8
  <2>2. QED BY <1>9, <2>1 DEF page, all, P
=============================================================================
