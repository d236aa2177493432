-------------------------- MODULE FileStore_proofs --------------------------
(***************************************************************************)
(* Proofs about FileStore when no append is under way while a process      *)
(* scans the file: what every reading process has in its array, and, with  *)
(* one appending process, what an acknowledged append leaves on disk.  For *)
(* any number of processes, fibers, ids, appends and faults.               *)
(***************************************************************************)
EXTENDS FileStore, Selection_proofs, SequenceTheorems

\* At most one process appends.
OneWriter == \A p, q \in Writers : p = q

\* A process that is not up has neither a poll nor an append under way, and one that
\* never appends has no append.
RestInv ==
    /\ \A p \in Procs : mode[p] # "up" =>
        tail[p] = NoTail /\ \A f \in Fibers : job[p][f] = NoJob
    /\ \A p \in Procs \ Writers : \A f \in Fibers : job[p][f] = NoJob
    /\ \A p \in Procs, f \in Fibers : job[p][f].pc = "idle" => job[p][f] = NoJob

\* While one process is about to truncate the file, it is as that process has scanned it.
BootInv ==
    \A p \in Procs : mode[p] = "boot" =>
        /\ readBytes[p] = Consumed(file)
        /\ \A q \in Procs : mode[q] = "boot" => q = p
        /\ \A q \in Procs : ~Writing(q)

\* The halves of a line, as opposed to what ends one.
Half(u) == u # Newline

\* No half of a line is in s twice.
Once(s) == \A i, j \in DOMAIN s : s[i] = s[j] /\ Half(s[i]) => i = j

\* No half of a line of one of these events is in s.
Without(s, ids) == \A i \in DOMAIN s : Half(s[i]) => s[i][1] \notin Range(ids)

\* What an append under way has to itself: its ids, each once, and the lines it has yet
\* to write.
Owns(j) ==
    /\ Range(j.ids) \subseteq made
    /\ \A i, k \in DOMAIN j.ids : j.ids[i] = j.ids[k] => i = k
    /\ j.pc = "stamp" => Without(file, j.ids)
    /\ j.pc = "write" =>
        /\ Once(j.rest)
        /\ \A i \in DOMAIN j.rest : Half(j.rest[i]) =>
            /\ j.rest[i][1] \in Range(j.ids)
            /\ \A k \in DOMAIN file : file[k] # j.rest[i]

\* No two appends under way have an id in common.
Apart ==
    \A p, q \in Procs, f, g \in Fibers :
        p # q \/ f # g => Range(job[p][f].ids) \cap Range(job[q][g].ids) = {}

\* A half of a line is in the file once, of an id that was handed out, and what an append
\* has yet to write is nowhere else.
UniqueInv ==
    /\ Once(file)
    /\ \A i \in DOMAIN file : Half(file[i]) => file[i][1] \in made
    /\ \A p \in Procs, f \in Fibers : Owns(job[p][f])
    /\ Apart

\* A place of the file where a process may have stopped reading.
LineEnd(n) == n \in 0 .. Len(file) /\ (n > 0 => file[n] = Newline)

\* What MirrorsFile says of one process.
Mirrors(p) ==
    /\ LineEnd(readBytes[p])
    /\ store[p] = Scan(SubSeq(file, 1, readBytes[p]))

\* The poll under way holds the lines that follow the offset.
Polls(p) ==
    /\ tail[p].pc # "idle" => tail[p].offset = readBytes[p]
    /\ tail[p].pc = "read" =>
        LET end == readBytes[p] + tail[p].consumed
        IN  /\ LineEnd(end)
            /\ tail[p].events = Scan(SubSeq(file, readBytes[p] + 1, end))

MirrorInv == \A p \in Procs \ Writers : mode[p] # "down" /\ ~kept[p] => Mirrors(p) /\ Polls(p)

\* The lines of one append are in s in one piece, within its first bound units.
Holds(s, ids, bound) ==
    \E n \in 0 .. Len(s) :
        /\ n + Len(Buffer(ids)) <= bound
        /\ \A i \in DOMAIN Buffer(ids) : s[n + i] = Buffer(ids)[i]

\* What an append has written so far ends s, and the rest of its lines is yet to follow.
Underway(s, ids, rest) ==
    \E n \in 0 .. Len(s) :
        /\ rest # <<>> /\ n + Len(Buffer(ids)) = Len(s) + Len(rest)
        /\ \A i \in DOMAIN Buffer(ids) :
            Buffer(ids)[i] = IF n + i <= Len(s) THEN s[n + i] ELSE rest[(n + i) - Len(s)]

\* What an append has got to do with the file at each of its points.
Written(j) ==
    /\ j.pc = "write" => Underway(file, j.ids, j.rest)
    /\ j.pc = "sync" => Holds(file, j.ids, Len(file))
    /\ j.pc = "record" => Holds(file, j.ids, synced)

\* Acknowledged appends are on disk, and one append writes at a time.
AckInv ==
    /\ \A ids \in acked : Holds(file, ids, synced)
    /\ \A p \in Procs, f \in Fibers : Written(job[p][f])
    /\ \A p \in Procs, f, g \in Fibers :
        job[p][f].pc \in {"write", "sync"} /\ job[p][g].pc \in {"write", "sync"} => f = g

IInv == TypeOK /\ RestInv /\ BootInv /\ UniqueInv /\ MirrorInv
----------------------------------------------------------------------------
\* Where the lines that hold an event end, without the search for where they start.
EventEnd(b, n) ==
    /\ n \in 3 .. Len(b) /\ b[n] = Newline
    /\ b[n - 2][2] = 1 /\ b[n - 1] = <<b[n - 2][1], 2>>
    /\ n = 3 \/ b[n - 3] = Newline

\* A unit is a half of a line, numbered 1 or 2, of an event, or it is a newline.
LEMMA Halves ==
    ASSUME NEW u \in Unit
    PROVE  /\ Half(u) => u[1] \in Id /\ u[2] \in {1, 2} /\ u = <<u[1], u[2]>>
           /\ ~Half(u) => u[2] = 0
  BY DEF Unit, Newline, Half

\* A piece of a sequence.
LEMMA Piece ==
    ASSUME NEW S, NEW s \in Seq(S), NEW m \in 0 .. Len(s), NEW n \in m .. Len(s)
    PROVE  /\ SubSeq(s, m + 1, n) \in Seq(S) /\ Len(SubSeq(s, m + 1, n)) = n - m
           /\ \A i \in 1 .. n - m : SubSeq(s, m + 1, n)[i] = s[m + i]
<1>1. m + 1 \in Int /\ n \in Int /\ \A i \in m + 1 .. n : s[i] \in S
  OBVIOUS
<1>2. /\ SubSeq(s, m + 1, n) \in Seq(S)
      /\ Len(SubSeq(s, m + 1, n)) = IF m + 1 <= n THEN n - (m + 1) + 1 ELSE 0
      /\ \A i \in 1 .. n - (m + 1) + 1 : SubSeq(s, m + 1, n)[i] = s[(m + 1) + i - 1]
  BY <1>1, SubSeqProperties
<1>3. \A i \in 1 .. n - m : (m + 1) + i - 1 = m + i /\ i \in 1 .. n - (m + 1) + 1
  OBVIOUS
<1>4. QED BY <1>2, <1>3

\* A sequence is its first n elements and the others.
LEMMA Cut ==
    ASSUME NEW S, NEW s \in Seq(S), NEW n \in 0 .. Len(s)
    PROVE  /\ SubSeq(s, 1, n) \in Seq(S) /\ Len(SubSeq(s, 1, n)) = n
           /\ \A i \in 1 .. n : SubSeq(s, 1, n)[i] = s[i]
           /\ From(s, n) \in Seq(S) /\ Len(From(s, n)) = Len(s) - n
           /\ \A i \in 1 .. Len(s) - n : From(s, n)[i] = s[n + i]
           /\ s = SubSeq(s, 1, n) \o From(s, n)
<1>1. /\ SubSeq(s, 1, n) \in Seq(S) /\ Len(SubSeq(s, 1, n)) = n
      /\ \A i \in 1 .. n : SubSeq(s, 1, n)[i] = s[i]
  <2>1. 0 \in 0 .. Len(s) /\ n \in 0 .. Len(s) /\ 0 + 1 = 1 /\ n - 0 = n
    OBVIOUS
  <2>2. /\ SubSeq(s, 0 + 1, n) \in Seq(S) /\ Len(SubSeq(s, 0 + 1, n)) = n - 0
        /\ \A i \in 1 .. n - 0 : SubSeq(s, 0 + 1, n)[i] = s[0 + i]
    BY <2>1, Piece
  <2>3. QED BY <2>1, <2>2
<1>2. /\ From(s, n) \in Seq(S) /\ Len(From(s, n)) = Len(s) - n
      /\ \A i \in 1 .. Len(s) - n : From(s, n)[i] = s[n + i]
  <2>1. Len(s) \in n .. Len(s)
    OBVIOUS
  <2>2. QED BY <2>1, Piece DEF From
<1> DEFINE a == SubSeq(s, 1, n)
           b == From(s, n)
<1>3. s = a \o b
  <2> HIDE DEF a, b
  <2>1. a \o b \in Seq(S) /\ Len(a \o b) = Len(s)
    BY <1>1, <1>2 DEF a, b
  <2>2. ASSUME NEW i \in 1 .. Len(s) PROVE (a \o b)[i] = s[i]
    <3>1. CASE i <= n
      BY <1>1, <1>2, <3>1 DEF a, b
    <3>2. CASE ~(i <= n)
      <4>1. i - n \in 1 .. Len(s) - n /\ n + (i - n) = i
        BY <3>2
      <4>2. (a \o b)[i] = b[i - n]
        BY <1>1, <1>2, <3>2 DEF a, b
      <4>3. b[i - n] = s[n + (i - n)]
        BY <1>2, <4>1 DEF b
      <4>4. QED BY <4>1, <4>2, <4>3
    <3>3. QED BY <3>1, <3>2
  <2>3. QED BY <2>1, <2>2, SeqEqual
<1>4. QED BY <1>1, <1>2, <1>3

\* A maximum is an element, and no other is above it.
LEMMA MaxIs ==
    ASSUME NEW P \in SUBSET Int, IsFiniteSet(P), P # {}
    PROVE  Max(P) \in P /\ \A y \in P : y <= Max(P)
<1>1. \E x \in P : \A y \in P : x >= y
  <2>1. PICK x \in P : \A y \in P : y <= x
    BY Greatest
  <2>2. \A y \in P : x >= y
    BY <2>1
  <2>3. QED BY <2>2
<1>2. Max(P) \in P /\ \A y \in P : Max(P) >= y
  BY <1>1 DEF Max
<1>3. QED BY <1>2

\* Sets of places of a file are finite.
LEMMA PlacesFinite ==
    ASSUME NEW b \in Seq(Unit), NEW P \in SUBSET (0 .. Len(b))
    PROVE  P \in SUBSET Int /\ IsFiniteSet(P)
<1>1. 0 \in Int /\ Len(b) \in Int
  OBVIOUS
<1>2. IsFiniteSet(0 .. Len(b))
  BY <1>1, FS_Interval
<1>3. 0 .. Len(b) \in SUBSET Int
  OBVIOUS
<1>4. IsFiniteSet(P)
  BY <1>2, FS_Subset
<1>5. QED BY <1>3, <1>4

\* What is consumed ends in a newline, and none follows.
LEMMA ConsumedIs ==
    ASSUME NEW b \in Seq(Unit)
    PROVE  /\ Consumed(b) \in 0 .. Len(b)
           /\ Consumed(b) > 0 => b[Consumed(b)] = Newline
           /\ \A n \in 1 .. Len(b) : b[n] = Newline => n <= Consumed(b)
<1> DEFINE P == Newlines(b) \cup {0}
<1>1. P \in SUBSET (0 .. Len(b)) /\ P # {}
  BY DEF Newlines
<1>2. P \in SUBSET Int /\ IsFiniteSet(P)
  BY <1>1, PlacesFinite
<1>3. Max(P) \in P /\ \A y \in P : y <= Max(P)
  <2> HIDE DEF P
  <2>1. QED BY <1>1, <1>2, MaxIs
<1>4. Consumed(b) = Max(P)
  BY DEF Consumed
<1>5. QED BY <1>1, <1>3, <1>4 DEF Newlines

\* A place that ends in a newline and that none follows is what is consumed.
LEMMA ConsumedAt ==
    ASSUME NEW b \in Seq(Unit), NEW c \in 0 .. Len(b), c > 0 => b[c] = Newline,
           \A n \in 1 .. Len(b) : b[n] = Newline => n <= c
    PROVE  Consumed(b) = c
<1>1. /\ Consumed(b) \in 0 .. Len(b)
      /\ Consumed(b) > 0 => b[Consumed(b)] = Newline
      /\ \A n \in 1 .. Len(b) : b[n] = Newline => n <= Consumed(b)
  BY ConsumedIs
<1>2. QED BY <1>1

\* A newline ends a line with an event when the event's two halves are all there is between
\* it and the newline before.
LEMMA EventEndIs ==
    ASSUME NEW b \in Seq(Unit), NEW n
    PROVE  n \in EventEnds(b) <=> EventEnd(b, n)
<1>1. CASE n \notin Newlines(b)
  BY <1>1 DEF EventEnds, EventEnd, Newlines
<1>2. CASE n \in Newlines(b)
  <2> DEFINE P == {m \in Newlines(b) : m < n} \cup {0}
             m == Max(P)
             line == SubSeq(b, m + 1, n - 1)
  <2>1. n \in 1 .. Len(b) /\ b[n] = Newline
    BY <1>2 DEF Newlines
  <2>2. P \in SUBSET (0 .. Len(b)) /\ P # {}
    BY DEF Newlines
  <2>3. P \in SUBSET Int /\ IsFiniteSet(P)
    BY <2>2, PlacesFinite
  <2>4. m \in P /\ \A y \in P : y <= m
    <3> HIDE DEF P
    <3>1. QED BY <2>2, <2>3, MaxIs
  <2> HIDE DEF m
  <2>5. /\ m \in 0 .. n - 1 /\ (m > 0 => b[m] = Newline)
        /\ \A k \in 1 .. n - 1 : b[k] = Newline => k <= m
    BY <2>1, <2>4 DEF Newlines
  <2>6. /\ Len(line) = (n - 1) - m
        /\ \A i \in 1 .. (n - 1) - m : line[i] = b[m + i]
    <3>1. m \in 0 .. Len(b) /\ n - 1 \in m .. Len(b)
      BY <2>1, <2>5
    <3>2. QED BY <3>1, Piece
  <2>7. LineOf(b, n) = line
    BY DEF LineOf, m
  <2>8. n \in EventEnds(b) <=> Decodes(line)
    BY <1>2, <2>7 DEF EventEnds
  <2> HIDE DEF P, line
  <2>9. ASSUME Decodes(line) PROVE EventEnd(b, n)
    <3>1. Len(line) = 2 /\ line[1][2] = 1 /\ line[2] = <<line[1][1], 2>>
      BY <2>9 DEF Decodes
    <3>2. m = n - 3
      <4>1. n \in Int /\ m \in Int
        BY <2>1, <2>5
      <4>2. (n - 1) - m = 2
        BY <2>6, <3>1
      <4>3. QED BY <4>1, <4>2
    <3>3. line[1] = b[n - 2] /\ line[2] = b[n - 1]
      <4>1. 1 \in 1 .. (n - 1) - m /\ 2 \in 1 .. (n - 1) - m /\ m + 1 = n - 2 /\ m + 2 = n - 1
        BY <2>1, <3>2
      <4>2. QED BY <2>6, <4>1
    <3>4. n \in 3 .. Len(b) /\ (n = 3 \/ b[n - 3] = Newline)
      BY <2>1, <2>5, <3>2
    <3>5. QED BY <2>1, <3>1, <3>3, <3>4 DEF EventEnd
  <2>10. ASSUME EventEnd(b, n) PROVE Decodes(line)
    <3>1. /\ n \in 3 .. Len(b)
          /\ b[n - 2][2] = 1 /\ b[n - 1] = <<b[n - 2][1], 2>>
          /\ n = 3 \/ b[n - 3] = Newline
      BY <2>10 DEF EventEnd
    <3>2. b[n - 2] # Newline /\ b[n - 1] # Newline
      BY <3>1 DEF Newline
    <3>3. m # n - 2 /\ m # n - 1
      <4>1. n - 2 > 0 /\ n - 1 > 0
        BY <3>1
      <4>2. QED BY <2>5, <3>2, <4>1
    <3>4. n - 3 <= m
      BY <2>5, <3>1
    <3>5. m = n - 3
      <4>1. n \in Int /\ m \in Int /\ m <= n - 1
        BY <2>1, <2>5
      <4>2. QED BY <3>3, <3>4, <4>1
    <3>6. 1 \in 1 .. (n - 1) - m /\ 2 \in 1 .. (n - 1) - m /\ m + 1 = n - 2 /\ m + 2 = n - 1
      BY <2>1, <3>5
    <3>7. line[1] = b[n - 2] /\ line[2] = b[n - 1] /\ Len(line) = 2
      BY <2>1, <2>6, <3>5, <3>6
    <3>8. QED BY <3>1, <3>7 DEF Decodes
  <2>11. QED BY <2>8, <2>9, <2>10
<1>3. QED BY <1>1, <1>2

\* The places where lines with an event end are finitely many, and before each is the
\* second half of that event.
LEMMA EndPlaces ==
    ASSUME NEW b \in Seq(Unit)
    PROVE  /\ EventEnds(b) \in SUBSET (0 .. Len(b))
           /\ EventEnds(b) \in SUBSET Int /\ IsFiniteSet(EventEnds(b))
           /\ \A n \in EventEnds(b) :
                /\ n - 1 \in DOMAIN b /\ b[n - 1][1] \in Id
                /\ b[n - 1] = <<b[n - 1][1], 2>>
<1>1. EventEnds(b) \in SUBSET (0 .. Len(b))
  BY DEF EventEnds, Newlines
<1>2. ASSUME NEW n \in EventEnds(b)
      PROVE  n - 1 \in DOMAIN b /\ b[n - 1][1] \in Id /\ b[n - 1] = <<b[n - 1][1], 2>>
  <2>1. n \in 3 .. Len(b) /\ b[n - 1] = <<b[n - 2][1], 2>>
    BY EventEndIs DEF EventEnd
  <2>2. n - 1 \in DOMAIN b
    BY <2>1
  <2>3. b[n - 1] \in Unit /\ Half(b[n - 1])
    BY <2>1, <2>2 DEF Half, Newline
  <2>4. b[n - 1][1] \in Id
    BY <2>3, Halves
  <2>5. QED BY <2>1, <2>2, <2>4
<1>3. QED BY <1>1, <1>2, PlacesFinite

\* The event at the end of a line.
EventAt(b) == [n \in EventEnds(b) |-> b[n - 1][1]]

\* Scanning yields ids, each of an event whose second half is in the file.
LEMMA ScanType ==
    ASSUME NEW b \in Seq(Unit)
    PROVE  /\ Scan(b) \in Seq(Id)
           /\ \A x \in Range(Scan(b)) : \E n \in DOMAIN b : b[n] = <<x, 2>>
<1> DEFINE P == EventEnds(b)
           s == EventAt(b)
<1>1. /\ P \in SUBSET Int /\ IsFiniteSet(P)
      /\ \A n \in P : s[n] \in Id /\ n - 1 \in DOMAIN b /\ b[n - 1] = <<s[n], 2>>
  BY EndPlaces DEF EventAt
<1>2. Scan(b) = Select(s, P)
  BY DEF Scan, EventAt
<1> HIDE DEF P, s
<1>3. Scan(b) \in Seq(Id)
  BY <1>1, <1>2, SelectType
<1>4. {Scan(b)[k] : k \in DOMAIN Scan(b)} = {s[n] : n \in P}
  <2>1. {Select(s, P)[k] : k \in DOMAIN Select(s, P)} = {s[n] : n \in P}
    BY <1>1, SelectRange
  <2>2. QED BY <1>2, <2>1
<1>5. Range(Scan(b)) = {s[n] : n \in P}
  BY <1>4 DEF Range
<1>6. QED BY <1>1, <1>3, <1>5

\* Where the lines with an event end in two files put together, when the first one ends
\* in a newline or is empty.
LEMMA EndsJoin ==
    ASSUME NEW a \in Seq(Unit), NEW b \in Seq(Unit), Len(a) > 0 => a[Len(a)] = Newline
    PROVE  EventEnds(a \o b) = EventEnds(a) \cup Moved(EventEnds(b), Len(a))
<1> DEFINE c == a \o b
           l == Len(a)
<1>1. l \in Nat /\ Len(b) \in Nat
  OBVIOUS
<1>2. c \in Seq(Unit) /\ Len(c) = l + Len(b)
  OBVIOUS
<1>3. \A i \in 1 .. l : c[i] = a[i]
  OBVIOUS
<1>4. ASSUME NEW i \in 1 .. Len(b) PROVE c[l + i] = b[i]
  <2>1. l + i \in 1 .. l + Len(b) /\ ~(l + i <= l) /\ (l + i) - l = i
    BY <1>1
  <2>2. QED BY <2>1
<1>5. l > 0 => c[l] = Newline /\ l \in 1 .. l
  BY <1>1, <1>3
<1> HIDE DEF c, l
<1>6. ASSUME NEW n \in 1 .. l PROVE EventEnd(c, n) <=> EventEnd(a, n)
  <2>1. n \in Int /\ n <= l /\ Len(c) >= l
    BY <1>1, <1>2
  <2>2. c[n] = a[n]
    BY <1>3
  <2>3. n >= 3 => c[n - 1] = a[n - 1] /\ c[n - 2] = a[n - 2]
    <3>1. n >= 3 => n - 1 \in 1 .. l /\ n - 2 \in 1 .. l
      BY <1>1, <2>1
    <3>2. QED BY <1>3, <3>1
  <2>4. n > 3 => c[n - 3] = a[n - 3]
    <3>1. n > 3 => n - 3 \in 1 .. l
      BY <1>1, <2>1
    <3>2. QED BY <1>3, <3>1
  <2>5. CASE n < 3
    BY <2>1, <2>5 DEF EventEnd
  <2>6. CASE n >= 3
    <3>1. n \in 3 .. Len(c) /\ n \in 3 .. Len(a)
      BY <1>1, <1>2, <2>1, <2>6 DEF l
    <3>2. n = 3 \/ n > 3
      BY <2>1, <2>6
    <3>3. QED BY <2>2, <2>3, <2>4, <2>6, <3>1, <3>2 DEF EventEnd
  <2>7. QED BY <2>1, <2>5, <2>6
<1>7. ASSUME NEW k \in 1 .. Len(b) PROVE EventEnd(c, l + k) <=> EventEnd(b, k)
  <2>1. k \in Int /\ k <= Len(b) /\ l + k <= Len(c) /\ c[l + k] = b[k]
    BY <1>1, <1>2, <1>4
  <2>2. CASE k >= 3
    <3>1. k - 1 \in 1 .. Len(b) /\ k - 2 \in 1 .. Len(b)
      BY <1>1, <2>1, <2>2
    <3>2. c[l + (k - 1)] = b[k - 1] /\ c[l + (k - 2)] = b[k - 2]
      BY <1>4, <3>1
    <3>3. (l + k) - 1 = l + (k - 1) /\ (l + k) - 2 = l + (k - 2) /\ (l + k) - 3 = l + (k - 3)
      BY <1>1, <2>1
    <3>4. k > 3 => c[l + (k - 3)] = b[k - 3]
      <4>1. SUFFICES ASSUME k > 3 PROVE k - 3 \in 1 .. Len(b)
        BY <1>4
      <4>2. QED BY <1>1, <2>1, <4>1
    <3>5. k = 3 => (l + k = 3 \/ c[l + (k - 3)] = Newline)
      BY <1>1, <1>5
    <3>6. l + k \in 3 .. Len(c) /\ k \in 3 .. Len(b)
      BY <1>1, <1>2, <2>1, <2>2
    <3>7. k > 3 => l + k # 3 /\ k # 3
      BY <1>1, <2>1
    <3>8. k = 3 \/ k > 3
      BY <2>1, <2>2
    <3>9. QED BY <2>1, <3>2, <3>3, <3>4, <3>5, <3>6, <3>7, <3>8 DEF EventEnd
  <2>3. CASE k \in {1, 2}
    <3>1. ~EventEnd(b, k)
      BY <2>3 DEF EventEnd
    <3>2. ~EventEnd(c, l + k)
      <4>1. SUFFICES ASSUME EventEnd(c, l + k) PROVE FALSE
        OBVIOUS
      <4>2. l + k >= 3 /\ c[(l + k) - 2][2] = 1 /\ c[(l + k) - 1][2] = 2
        BY <4>1 DEF EventEnd
      <4>3. l > 0
        BY <1>1, <2>3, <4>2
      <4>4. c[l] = <<0, 0>>
        BY <1>5, <4>3 DEF Newline
      <4>5. CASE k = 1
        <5>1. (l + k) - 1 = l
          BY <1>1, <4>5
        <5>2. QED BY <4>2, <4>4, <5>1
      <4>6. CASE k = 2
        <5>1. (l + k) - 2 = l
          BY <1>1, <4>6
        <5>2. QED BY <4>2, <4>4, <5>1
      <4>7. QED BY <2>3, <4>5, <4>6
    <3>3. QED BY <3>1, <3>2
  <2>4. QED BY <2>1, <2>2, <2>3
<1>8. /\ EventEnds(c) \in SUBSET (1 .. l + Len(b))
      /\ EventEnds(a) \in SUBSET (1 .. l)
      /\ EventEnds(b) \in SUBSET (1 .. Len(b))
  BY <1>2 DEF EventEnds, Newlines, l
<1>9. ASSUME NEW n \in EventEnds(c) PROVE n \in EventEnds(a) \cup Moved(EventEnds(b), l)
  <2>1. EventEnd(c, n)
    BY <1>2, EventEndIs
  <2>2. CASE n \in 1 .. l
    BY <1>6, <2>1, <2>2, EventEndIs
  <2>3. CASE n \notin 1 .. l
    <3>1. n - l \in 1 .. Len(b) /\ n = l + (n - l) /\ n = (n - l) + l
      BY <1>1, <1>8, <2>3
    <3>2. EventEnd(b, n - l)
      BY <1>7, <2>1, <3>1
    <3>3. QED BY <3>1, <3>2, EventEndIs DEF Moved
  <2>4. QED BY <2>2, <2>3
<1>10. ASSUME NEW n \in EventEnds(a) PROVE n \in EventEnds(c)
  BY <1>2, <1>6, <1>8, EventEndIs
<1>11. ASSUME NEW k \in EventEnds(b) PROVE k + l \in EventEnds(c)
  <2>1. k \in 1 .. Len(b) /\ EventEnd(b, k)
    BY <1>8, EventEndIs
  <2>2. EventEnd(c, l + k) /\ l + k = k + l
    BY <1>1, <1>7, <2>1
  <2>3. QED BY <1>2, <2>2, EventEndIs
<1>12. QED BY <1>9, <1>10, <1>11 DEF Moved, c, l

\* Scanning two files put together yields the events of one, then those of the other,
\* when the first one ends in a newline or is empty.
LEMMA ScanJoin ==
    ASSUME NEW a \in Seq(Unit), NEW b \in Seq(Unit), Len(a) > 0 => a[Len(a)] = Newline
    PROVE  Scan(a \o b) = Scan(a) \o Scan(b)
<1> DEFINE c == a \o b
           l == Len(a)
           A == EventEnds(a)
           B == EventEnds(b)
           M == Moved(B, l)
           s == EventAt(c)
<1>1. l \in Int /\ c \in Seq(Unit)
  OBVIOUS
<1>2. EventEnds(c) = A \cup M
  BY EndsJoin
<1>3. /\ A \in SUBSET Int /\ IsFiniteSet(A) /\ A \in SUBSET (0 .. l)
      /\ \A n \in A : n - 1 \in DOMAIN a
  BY EndPlaces
<1>4. /\ B \in SUBSET Int /\ IsFiniteSet(B)
      /\ \A n \in B : n - 1 \in DOMAIN b
  BY EndPlaces
<1>5. \A n \in EventEnds(c) : s[n] \in Id /\ s[n] = c[n - 1][1]
  BY <1>1, EndPlaces DEF EventAt
<1>6. \A n \in A : s[n] = EventAt(a)[n]
  <2>1. SUFFICES ASSUME NEW n \in A PROVE c[n - 1] = a[n - 1]
    BY <1>2, <1>5 DEF EventAt
  <2>2. QED BY <1>3
<1>7. \A n \in B : s[n + l] = EventAt(b)[n]
  <2>1. SUFFICES ASSUME NEW n \in B PROVE s[n + l] = EventAt(b)[n]
    OBVIOUS
  <2>2. n + l \in EventEnds(c)
    BY <1>2 DEF Moved
  <2>3. s[n + l] = c[(n + l) - 1][1]
    BY <1>5, <2>2
  <2>4. n - 1 \in 1 .. Len(b)
    BY <1>4
  <2>5. c[(n + l) - 1] = b[n - 1]
    <3>1. n \in Int /\ l \in Nat /\ Len(c) = l + Len(b)
      BY <1>4
    <3>2. (n + l) - 1 \in 1 .. l + Len(b) /\ ~((n + l) - 1 <= l) /\ ((n + l) - 1) - l = n - 1
      BY <2>4, <3>1
    <3>3. QED BY <3>2
  <2>6. QED BY <2>3, <2>5 DEF EventAt
<1>8. IsFiniteSet(M) /\ Select(s, M) = Select(EventAt(b), B)
  <2> HIDE DEF s, B, l, M
  <2>1. QED BY <1>1, <1>4, <1>7, SelectMoved DEF M
<1>9. M \in SUBSET Int /\ \A n \in M : n > l
  <2>1. \A n \in B : n >= 2 /\ n \in Int
    BY <1>4
  <2>2. QED BY <1>1, <2>1 DEF Moved
<1>10. Before(A, M)
  <2> HIDE DEF A, M, l
  <2>1. QED BY <1>1, <1>3, <1>9 DEF Before
<1>11. Select(s, A) = Select(EventAt(a), A)
  <2> HIDE DEF s, A
  <2>1. QED BY <1>3, <1>6, SelectAgree
<1>12. Select(s, A \cup M) = Select(s, A) \o Select(s, M)
  <2>1. \A n \in A \cup M : s[n] \in Id
    BY <1>2, <1>5
  <2> HIDE DEF s, A, M
  <2>2. QED BY <1>3, <1>8, <1>9, <1>10, <2>1, SelectSplit
<1>13. Scan(c) = Select(s, A \cup M)
  BY <1>2 DEF Scan, EventAt
<1>14. Scan(a) = Select(EventAt(a), A) /\ Scan(b) = Select(EventAt(b), B)
  BY DEF Scan, EventAt
<1> HIDE DEF s, A, B, M
<1>15. QED BY <1>8, <1>11, <1>12, <1>13, <1>14 DEF c

\* Without a newline there is no line, and no event.
LEMMA ScanNothing ==
    ASSUME NEW b \in Seq(Unit), \A n \in 1 .. Len(b) : b[n] # Newline
    PROVE  Scan(b) = <<>>
<1>1. EventEnds(b) = {}
  BY DEF EventEnds, Newlines
<1>2. QED BY <1>1, SelectNone DEF Scan

\* The events are those of the lines that are consumed.
LEMMA ScanWhole ==
    ASSUME NEW b \in Seq(Unit)
    PROVE  Scan(b) = Scan(SubSeq(b, 1, Consumed(b)))
<1> DEFINE c == Consumed(b)
           x == SubSeq(b, 1, c)
           y == From(b, c)
<1>1. /\ c \in 0 .. Len(b) /\ (c > 0 => b[c] = Newline)
      /\ \A n \in 1 .. Len(b) : b[n] = Newline => n <= c
  BY ConsumedIs
<1> HIDE DEF c
<1>2. /\ x \in Seq(Unit) /\ Len(x) = c /\ \A i \in 1 .. c : x[i] = b[i]
      /\ y \in Seq(Unit) /\ Len(y) = Len(b) - c
      /\ \A i \in 1 .. Len(b) - c : y[i] = b[c + i]
      /\ b = x \o y
  BY <1>1, Cut
<1> HIDE DEF x, y
<1>3. Len(x) > 0 => x[Len(x)] = Newline
  BY <1>1, <1>2
<1>4. \A n \in 1 .. Len(y) : y[n] # Newline
  <2>1. SUFFICES ASSUME NEW n \in 1 .. Len(y) PROVE y[n] # Newline
    OBVIOUS
  <2>2. y[n] = b[c + n] /\ c + n \in 1 .. Len(b) /\ ~(c + n <= c)
    BY <1>1, <1>2
  <2>3. QED BY <1>1, <2>2
<1>5. Scan(y) = <<>>
  BY <1>2, <1>4, ScanNothing
<1>6. Scan(x \o y) = Scan(x) \o Scan(y)
  BY <1>2, <1>3, ScanJoin
<1>7. Scan(x) \in Seq(Id)
  BY <1>2, ScanType
<1>8. Scan(x) \o <<>> = Scan(x)
  BY <1>7, ConcatEmptySeq
<1>9. QED BY <1>2, <1>5, <1>6, <1>8 DEF x, c

\* The lines of an append end in a newline; every half in them is of one of its events,
\* and is there once.
LEMMA BufferIs ==
    ASSUME NEW ids \in Seq(Id)
    PROVE  /\ Buffer(ids) \in Seq(Unit) /\ Len(Buffer(ids)) > 0
           /\ Buffer(ids)[Len(Buffer(ids))] = Newline
           /\ \A i \in DOMAIN Buffer(ids) : Half(Buffer(ids)[i]) =>
                Buffer(ids)[i][1] \in Range(ids)
           /\ (\A i, k \in DOMAIN ids : ids[i] = ids[k] => i = k) => Once(Buffer(ids))
<1> DEFINE b == Buffer(ids)
           n == Len(ids)
           q(i) == ((i - 1) \div 3) + 1
           m(i) == ((i - 1) % 3) + 1
<1>1. CASE ids = <<>>
  <2>1. b = <<Newline>>
    BY <1>1 DEF Buffer
  <2>2. b \in Seq(Unit) /\ Len(b) = 1 /\ b[1] = Newline /\ DOMAIN b = {1}
    BY <2>1 DEF Unit
  <2> HIDE DEF b
  <2>3. \A i \in DOMAIN b : ~Half(b[i])
    BY <2>2 DEF Half
  <2>4. QED BY <2>2, <2>3 DEF Once, b
<1>2. CASE ids # <<>>
  <2>1. n \in Nat /\ n > 0 /\ DOMAIN ids = 1 .. n
    BY <1>2
  <2> HIDE DEF n
  <2>2. ASSUME NEW i \in 1 .. 3 * n
        PROVE  q(i) \in 1 .. n /\ m(i) \in {1, 2, 3} /\ i = 3 * (q(i) - 1) + m(i)
    BY <2>1
  <2>3. ASSUME NEW x \in Id
        PROVE  /\ Line(x)[1] = <<x, 1>> /\ Line(x)[2] = <<x, 2>> /\ Line(x)[3] = Newline
               /\ \A k \in {1, 2, 3} : Line(x)[k] \in Unit
    BY DEF Line, Unit
  <2>4. b = [i \in 1 .. 3 * n |-> Line(ids[q(i)])[m(i)]]
    BY <1>2 DEF Buffer, n
  <2> HIDE DEF b
  <2>5. \A i \in 1 .. 3 * n : b[i] = Line(ids[q(i)])[m(i)] /\ ids[q(i)] \in Id
    BY <2>1, <2>2, <2>4
  <2> HIDE DEF q, m
  <2>6. 3 * n \in Nat /\ 3 * n > 0
    BY <2>1
  <2>7. b \in Seq(Unit) /\ Len(b) = 3 * n /\ DOMAIN b = 1 .. 3 * n
    <3>1. \A i \in 1 .. 3 * n : b[i] \in Unit
      BY <2>2, <2>3, <2>5
    <3>2. b \in [1 .. 3 * n -> Unit]
      BY <2>4, <3>1
    <3>3. b \in Seq(Unit)
      BY <2>6, <3>2 DEF Seq
    <3>4. QED BY <2>6, <3>2, <3>3
  <2>8. b[3 * n] = Newline
    <3>1. 3 * n \in 1 .. 3 * n /\ m(3 * n) = 3
      BY <2>1, <2>2 DEF m
    <3>2. QED BY <2>3, <2>5, <3>1
  <2>9. ASSUME NEW i \in 1 .. 3 * n, Half(b[i])
        PROVE  m(i) \in {1, 2} /\ b[i] = <<ids[q(i)], m(i)>> /\ b[i][1] = ids[q(i)]
    BY <2>2, <2>3, <2>5, <2>9 DEF Half
  <2>10. \A i \in 1 .. 3 * n : Half(b[i]) => b[i][1] \in Range(ids)
    BY <2>1, <2>2, <2>9 DEF Range
  <2>11. ASSUME \A i, k \in DOMAIN ids : ids[i] = ids[k] => i = k PROVE Once(b)
    <3>1. SUFFICES ASSUME NEW i \in 1 .. 3 * n, NEW k \in 1 .. 3 * n, b[i] = b[k], Half(b[i])
                   PROVE  i = k
      BY <2>7 DEF Once
    <3>2. b[i] = <<ids[q(i)], m(i)>> /\ b[k] = <<ids[q(k)], m(k)>>
      BY <2>9, <3>1
    <3>3. ids[q(i)] = ids[q(k)] /\ m(i) = m(k)
      <4>1. <<ids[q(i)], m(i)>> = <<ids[q(k)], m(k)>>
        BY <3>1, <3>2
      <4>2. QED BY <4>1
    <3>4. q(i) = q(k)
      BY <2>1, <2>2, <2>11, <3>3
    <3>5. QED BY <2>2, <3>3, <3>4
  <2>12. QED BY <2>6, <2>7, <2>8, <2>10, <2>11 DEF b
<1>3. QED BY <1>1, <1>2

\* What a recovery returns: the events of the complete lines and where those end, unless
\* it keeps what follows them as a line.
LEMMA RecoverIs ==
    ASSUME NEW raw \in Seq(Unit)
    PROVE  /\ Recover(raw).events \in Seq(Id)
           /\ Recover(raw).validBytes \in 0 .. Len(raw)
           /\ Recover(raw).kept \in BOOLEAN
           /\ Recover(raw).kept => Recover(raw).validBytes = Len(raw)
           /\ ~Recover(raw).kept =>
                Recover(raw).events = Scan(raw) /\ Recover(raw).validBytes = Consumed(raw)
<1> DEFINE rest == From(raw, Consumed(raw))
<1>1. Scan(raw) \in Seq(Id) /\ Consumed(raw) \in 0 .. Len(raw)
  BY ScanType, ConsumedIs
<1>2. rest \in Seq(Unit)
  BY <1>1, Cut
<1> HIDE DEF rest
<1>3. CASE Decodes(rest)
  <2>1. Len(rest) = 2 /\ rest[1][2] = 1
    BY <1>3 DEF Decodes
  <2>2. rest[1] \in Unit
    <3>1. 1 \in 1 .. Len(rest)
      BY <2>1
    <3>2. QED BY <1>2, <3>1, ElementOfSeq
  <2>3. rest[1][1] \in Id
    BY <2>1, <2>2, Halves
  <2>4. Recover(raw) =
            [events |-> Append(Scan(raw), rest[1][1]), validBytes |-> Len(raw), kept |-> TRUE]
    BY <1>3 DEF Recover, rest
  <2>5. QED BY <1>1, <2>3, <2>4
<1>4. CASE ~Decodes(rest)
  <2>1. Recover(raw) = [events |-> Scan(raw), validBytes |-> Consumed(raw), kept |-> FALSE]
    BY <1>4 DEF Recover, rest
  <2>2. QED BY <1>1, <2>1
<1>5. QED BY <1>3, <1>4

\* The filter of the tail keeps ids, and all of them when the array has none.
LEMMA FreshIs ==
    ASSUME NEW events \in Seq(Id), NEW known
    PROVE  /\ Fresh(events, known) \in Seq(Id)
           /\ Range(events) \cap Range(known) = {} => Fresh(events, known) = events
<1> DEFINE P == {i \in DOMAIN events : events[i] \notin Range(known)}
<1>1. DOMAIN events = 1 .. Len(events) /\ Len(events) \in Nat
  OBVIOUS
<1>2. P \in SUBSET (1 .. Len(events))
  BY <1>1
<1>3. 1 .. Len(events) \in SUBSET Int /\ 1 \in Int /\ Len(events) \in Int
  OBVIOUS
<1>4. IsFiniteSet(1 .. Len(events))
  BY <1>3, FS_Interval
<1>5. P \in SUBSET Int
  BY <1>2, <1>3
<1>6. IsFiniteSet(P)
  <2> HIDE DEF P
  <2>1. QED BY <1>2, <1>4, FS_Subset
<1>7. \A x \in P : events[x] \in Id
  BY <1>1
<1>8. Fresh(events, known) \in Seq(Id)
  <2> HIDE DEF P
  <2>1. Select(events, P) \in Seq(Id)
    BY <1>5, <1>6, <1>7, SelectType
  <2>2. QED BY <2>1 DEF Fresh, P
<1>9. ASSUME Range(events) \cap Range(known) = {} PROVE Fresh(events, known) = events
  <2>1. P = DOMAIN events
    BY <1>9 DEF Range
  <2>2. Select(events, DOMAIN events) = events
    BY SelectAll
  <2>3. QED BY <2>1, <2>2 DEF Fresh
<1>10. QED BY <1>8, <1>9
----------------------------------------------------------------------------
\* The types of an append under way and of a tail fiber.
JobType == [pc : {"idle", "stamp", "write", "sync", "record"}, ids : Seq(Id), rest : Seq(Unit)]

TailType == [pc : {"idle", "known", "read"}, offset : Nat, events : Seq(Id), consumed : Nat]

\* Both have them at rest.
LEMMA RestTypes == NoJob \in JobType /\ NoTail \in TailType
  BY DEF NoJob, NoTail, JobType, TailType

\* A step of one fiber's append leaves every other append alone.
LEMMA JobSet ==
    ASSUME TypeOK, NEW p \in Procs, NEW f \in Fibers, NEW j \in JobType, SetJob(p, f, j)
    PROVE  /\ job' \in [Procs -> [Fibers -> JobType]]
           /\ job'[p][f] = j
           /\ \A q \in Procs, g \in Fibers : q # p \/ g # f => job'[q][g] = job[q][g]
<1>1. job \in [Procs -> [Fibers -> JobType]]
  BY DEF TypeOK, JobType
<1>2. job' = [job EXCEPT ![p] = [job[p] EXCEPT ![f] = j]]
  BY <1>1 DEF SetJob
<1>3. job'[p] = [job[p] EXCEPT ![f] = j] /\ \A q \in Procs : q # p => job'[q] = job[q]
  BY <1>1, <1>2
<1>4. [job[p] EXCEPT ![f] = j] \in [Fibers -> JobType]
  BY <1>1
<1>5. QED BY <1>1, <1>2, <1>3, <1>4

\* The append of a fiber and the poll of a process are records of their types.
LEMMA RecordTypes ==
    ASSUME TypeOK
    PROVE  /\ \A p \in Procs, f \in Fibers :
                /\ job[p][f] \in JobType
                /\ job[p][f].pc \in {"idle", "stamp", "write", "sync", "record"}
                /\ job[p][f].ids \in Seq(Id) /\ job[p][f].rest \in Seq(Unit)
           /\ \A p \in Procs :
                /\ tail[p] \in TailType
                /\ tail[p].pc \in {"idle", "known", "read"} /\ tail[p].offset \in Nat
                /\ tail[p].events \in Seq(Id) /\ tail[p].consumed \in Nat
<1>1. job \in [Procs -> [Fibers -> JobType]] /\ tail \in [Procs -> TailType]
  BY DEF TypeOK, JobType, TailType
<1>2. \A j \in JobType :
        /\ j.pc \in {"idle", "stamp", "write", "sync", "record"}
        /\ j.ids \in Seq(Id) /\ j.rest \in Seq(Unit)
  BY DEF JobType
<1>3. \A t \in TailType :
        /\ t.pc \in {"idle", "known", "read"} /\ t.offset \in Nat
        /\ t.events \in Seq(Id) /\ t.consumed \in Nat
  BY DEF TailType
<1>4. QED BY <1>1, <1>2, <1>3

\* What each step of an append makes of it.
LEMMA JobSteps ==
    ASSUME FileAssumption, TypeOK, NEW p \in Procs, NEW f \in Fibers
    PROVE  /\ \A id \in Id : Stamp(p, f, id) =>
                \E j \in JobType :
                    /\ SetJob(p, f, j) /\ j.pc = "stamp" /\ j.rest = <<>>
                    /\ j.ids = Append(job[p][f].ids, id)
           /\ Open(p, f) =>
                \E j \in JobType :
                    /\ SetJob(p, f, j) /\ j.pc = "write" /\ j.ids = job[p][f].ids
                    /\ j.rest = Buffer(j.ids)
           /\ WriteSome(p, f) =>
                \E n \in 1 .. Len(job[p][f].rest), j \in JobType :
                    /\ SetJob(p, f, j) /\ j.ids = job[p][f].ids
                    /\ j.rest = From(job[p][f].rest, n)
                    /\ j.pc = IF n = Len(job[p][f].rest) THEN "sync" ELSE "write"
                    /\ file' = file \o SubSeq(job[p][f].rest, 1, n)
           /\ Sync(p, f) =>
                \E j \in JobType :
                    SetJob(p, f, j) /\ j.pc = "record" /\ j.ids = job[p][f].ids
<1> DEFINE b == job[p][f]
<1>1. b \in JobType /\ b.ids \in Seq(Id) /\ b.rest \in Seq(Unit)
  BY RecordTypes
<1> HIDE DEF b
<1>2. ASSUME NEW id \in Id, Stamp(p, f, id)
      PROVE  \E j \in JobType :
                /\ SetJob(p, f, j) /\ j.pc = "stamp" /\ j.rest = <<>>
                /\ j.ids = Append(b.ids, id)
  <2> DEFINE j == [pc |-> "stamp", ids |-> Append(b.ids, id), rest |-> <<>>]
  <2>1. j \in JobType
    <3>1. Append(b.ids, id) \in Seq(Id)
      BY <1>1
    <3>2. QED BY <3>1 DEF JobType
  <2>2. SetJob(p, f, j)
    BY <1>2 DEF Stamp, b
  <2>3. j.pc = "stamp" /\ j.rest = <<>> /\ j.ids = Append(b.ids, id)
    OBVIOUS
  <2> HIDE DEF j
  <2>4. QED BY <2>1, <2>2, <2>3
<1>3. ASSUME Open(p, f)
      PROVE  \E j \in JobType :
                /\ SetJob(p, f, j) /\ j.pc = "write" /\ j.ids = b.ids /\ j.rest = Buffer(j.ids)
  <2> DEFINE j == [b EXCEPT !.pc = "write", !.rest = Buffer(b.ids)]
  <2>1. Buffer(b.ids) \in Seq(Unit)
    BY <1>1, BufferIs
  <2>2. j \in JobType /\ j.pc = "write" /\ j.ids = b.ids /\ j.rest = Buffer(b.ids)
    BY <1>1, <2>1 DEF JobType
  <2>3. SetJob(p, f, j)
    BY <1>3 DEF Open, b
  <2> HIDE DEF j
  <2>4. QED BY <2>2, <2>3
<1>4. ASSUME WriteSome(p, f)
      PROVE  \E n \in 1 .. Len(b.rest), j \in JobType :
                /\ SetJob(p, f, j) /\ j.ids = b.ids /\ j.rest = From(b.rest, n)
                /\ j.pc = IF n = Len(b.rest) THEN "sync" ELSE "write"
                /\ file' = file \o SubSeq(b.rest, 1, n)
  <2>1. PICK n \in 1 .. Len(b.rest) :
            /\ file' = file \o SubSeq(b.rest, 1, n)
            /\ SetJob(p, f, [b EXCEPT !.rest = From(@, n),
                             !.pc = IF n = Len(b.rest) THEN "sync" ELSE "write"])
    BY <1>4 DEF WriteSome, b
  <2> DEFINE pc == IF n = Len(b.rest) THEN "sync" ELSE "write"
             j == [b EXCEPT !.rest = From(@, n), !.pc = pc]
  <2>2. pc \in {"sync", "write"}
    OBVIOUS
  <2>3. From(b.rest, n) \in Seq(Unit)
    BY <1>1, <2>1, Cut
  <2> HIDE DEF pc
  <2>4. j \in JobType /\ j.pc = pc /\ j.ids = b.ids /\ j.rest = From(b.rest, n)
    BY <1>1, <2>2, <2>3 DEF JobType
  <2>5. SetJob(p, f, j)
    BY <2>1 DEF pc
  <2> HIDE DEF j
  <2>6. QED BY <2>1, <2>4, <2>5 DEF pc
<1>5. ASSUME Sync(p, f)
      PROVE  \E j \in JobType : SetJob(p, f, j) /\ j.pc = "record" /\ j.ids = b.ids
  <2> DEFINE j == [b EXCEPT !.pc = "record"]
  <2>1. j \in JobType /\ j.pc = "record" /\ j.ids = b.ids
    BY <1>1 DEF JobType
  <2>2. SetJob(p, f, j)
    BY <1>5 DEF Sync, b
  <2> HIDE DEF j
  <2>3. QED BY <2>1, <2>2
<1>6. QED BY <1>2, <1>3, <1>4, <1>5 DEF b

\* A truncation takes back what the process that truncates found to be no line.
LEMMA TruncateIs ==
    ASSUME TypeOK, BootInv, NEW p \in Procs, BootTruncate(p)
    PROVE  /\ readBytes[p] = Consumed(file) /\ readBytes[p] \in 0 .. Len(file)
           /\ file' = SubSeq(file, 1, Consumed(file)) /\ file' \in Seq(Unit)
           /\ Len(file') = Consumed(file)
           /\ \A i \in 1 .. Consumed(file) : file'[i] = file[i]
           /\ synced' \in 0 .. Len(file') /\ synced' <= synced
           /\ \A n \in 0 .. synced : n <= Consumed(file) => n <= synced'
<1>1. file \in Seq(Unit) /\ synced \in 0 .. Len(file)
  BY DEF TypeOK
<1>2. Consumed(file) \in 0 .. Len(file)
  BY <1>1, ConsumedIs
<1>3. readBytes[p] = Consumed(file) /\ file' = SubSeq(file, 1, Consumed(file))
  BY DEF BootTruncate, BootInv
<1> DEFINE c == Consumed(file)
<1>4. /\ SubSeq(file, 1, c) \in Seq(Unit) /\ Len(SubSeq(file, 1, c)) = c
      /\ \A i \in 1 .. c : SubSeq(file, 1, c)[i] = file[i]
  BY <1>1, <1>2, Cut
<1>5. synced' = Min({synced, c})
  BY <1>3 DEF BootTruncate
<1> HIDE DEF c
<1>6. synced' \in {synced, c} /\ synced' <= synced /\ synced' <= c
  <2>1. synced \in Int /\ c \in Int
    BY <1>1, <1>2 DEF c
  <2>2. \E x \in {synced, c} : \A y \in {synced, c} : x <= y
    BY <2>1
  <2>3. synced' \in {synced, c} /\ \A y \in {synced, c} : synced' <= y
    BY <1>5, <2>2 DEF Min
  <2>4. QED BY <2>3
<1>7. QED BY <1>1, <1>2, <1>3, <1>4, <1>6 DEF c

\* What is left of the processes that end.
LEMMA StopIs ==
    ASSUME FileAssumption, TypeOK, NEW P \in SUBSET Procs, Stop(P), faults < MaxFaults
    PROVE  /\ mode' \in [Procs -> {"down", "boot", "up"}]
           /\ store' \in [Procs -> Seq(Id)] /\ readBytes' \in [Procs -> Nat]
           /\ last' \in [Procs -> 0 .. MaxId] /\ tail' \in [Procs -> TailType]
           /\ job' \in [Procs -> [Fibers -> JobType]] /\ kept' \in [Procs -> BOOLEAN]
           /\ faults' \in 0 .. MaxFaults
           /\ \A q \in P :
                /\ mode'[q] = "down" /\ tail'[q] = NoTail
                /\ \A g \in Fibers : job'[q][g] = NoJob
           /\ \A q \in Procs \ P :
                /\ mode'[q] = mode[q] /\ store'[q] = store[q] /\ readBytes'[q] = readBytes[q]
                /\ tail'[q] = tail[q] /\ kept'[q] = kept[q] /\ job'[q] = job[q]
<1>1. /\ mode \in [Procs -> {"down", "boot", "up"}]
      /\ store \in [Procs -> Seq(Id)] /\ readBytes \in [Procs -> Nat]
      /\ last \in [Procs -> 0 .. MaxId] /\ tail \in [Procs -> TailType]
      /\ job \in [Procs -> [Fibers -> JobType]] /\ kept \in [Procs -> BOOLEAN]
      /\ faults \in 0 .. MaxFaults /\ MaxId \in Nat /\ MaxFaults \in Nat
  BY DEF TypeOK, FileAssumption, JobType, TailType
<1>2. mode' \in [Procs -> {"down", "boot", "up"}] /\ kept' \in [Procs -> BOOLEAN]
  BY <1>1 DEF Stop
<1>3. store' \in [Procs -> Seq(Id)]
  <2>1. <<>> \in Seq(Id)
    BY EmptySeq
  <2>2. QED BY <1>1, <2>1 DEF Stop
<1>4. readBytes' \in [Procs -> Nat] /\ last' \in [Procs -> 0 .. MaxId] /\ faults' \in 0 .. MaxFaults
  BY <1>1 DEF Stop
<1>5. tail' \in [Procs -> TailType] /\ job' \in [Procs -> [Fibers -> JobType]]
  BY <1>1, RestTypes DEF Stop
<1>6. \A q \in P :
        /\ mode'[q] = "down" /\ tail'[q] = NoTail
        /\ \A g \in Fibers : job'[q][g] = NoJob
  BY DEF Stop
<1>7. \A q \in Procs \ P :
        /\ mode'[q] = mode[q] /\ store'[q] = store[q] /\ readBytes'[q] = readBytes[q]
        /\ tail'[q] = tail[q] /\ kept'[q] = kept[q] /\ job'[q] = job[q]
  BY DEF Stop
<1>8. QED BY <1>2, <1>3, <1>4, <1>5, <1>6, <1>7

\* Every step keeps the types: a truncation is to a length the file has.
LEMMA TypeStep ==
    ASSUME FileAssumption, TypeOK, RestInv, BootInv, [Next]_vars
    PROVE  TypeOK'
<1> USE DEF JobType, TailType
<1>1. /\ file \in Seq(Unit) /\ synced \in 0 .. Len(file)
      /\ mode \in [Procs -> {"down", "boot", "up"}]
      /\ store \in [Procs -> Seq(Id)] /\ readBytes \in [Procs -> Nat]
      /\ last \in [Procs -> 0 .. MaxId] /\ tail \in [Procs -> TailType]
      /\ job \in [Procs -> [Fibers -> JobType]] /\ kept \in [Procs -> BOOLEAN]
      /\ made \subseteq Id /\ acked \subseteq Seq(Id) /\ calls \in 0 .. MaxCalls
      /\ faults \in 0 .. MaxFaults
  BY DEF TypeOK
<1>2. MaxId \in Nat /\ MaxCalls \in Nat /\ MaxFaults \in Nat
  BY DEF FileAssumption
<1> USE RestTypes
<1> HIDE DEF JobType, TailType
<1>3. /\ \A q \in Procs, g \in Fibers : job[q][g].ids \in Seq(Id) /\ job[q][g].rest \in Seq(Unit)
      /\ \A q \in Procs : /\ tail[q] \in TailType /\ tail[q].offset \in Nat
                           /\ tail[q].events \in Seq(Id) /\ tail[q].consumed \in Nat
  BY RecordTypes
<1>4. CASE UNCHANGED vars
  BY <1>4 DEF vars, TypeOK
<1>5. CASE Crash
  <2>1. PICK n \in synced .. Len(file) : file' = SubSeq(file, 1, n) /\ synced' = n
    BY <1>5 DEF Crash
  <2>2. n \in 0 .. Len(file)
    BY <1>1, <2>1
  <2>3. file' \in Seq(Unit) /\ Len(file') = n
    BY <1>1, <2>1, <2>2, Cut
  <2>4. synced' \in 0 .. Len(file')
    BY <2>1, <2>2, <2>3
  <2>5. Stop(Procs) /\ UNCHANGED <<made, acked, calls>> /\ faults < MaxFaults
    BY <1>5 DEF Crash
  <2>6. /\ mode' \in [Procs -> {"down", "boot", "up"}]
        /\ store' \in [Procs -> Seq(Id)] /\ readBytes' \in [Procs -> Nat]
        /\ last' \in [Procs -> 0 .. MaxId] /\ tail' \in [Procs -> TailType]
        /\ job' \in [Procs -> [Fibers -> JobType]] /\ kept' \in [Procs -> BOOLEAN]
        /\ faults' \in 0 .. MaxFaults
    BY <2>5, StopIs
  <2>7. QED BY <1>1, <2>3, <2>4, <2>5, <2>6 DEF TypeOK, JobType, TailType
<1>6. ASSUME NEW p \in Procs, Boot(p) PROVE TypeOK'
  <2> DEFINE r == Recover(file)
  <2>1. r.events \in Seq(Id) /\ r.validBytes \in Nat /\ r.kept \in BOOLEAN
    BY <1>1, RecoverIs
  <2>2. /\ mode' = [mode EXCEPT ![p] = IF r.validBytes < Len(file) THEN "boot" ELSE "up"]
        /\ store' = [store EXCEPT ![p] = r.events]
        /\ readBytes' = [readBytes EXCEPT ![p] = r.validBytes]
        /\ kept' = [kept EXCEPT ![p] = r.kept]
        /\ UNCHANGED <<file, synced, last, tail, job, made, acked, calls, faults>>
    BY <1>6 DEF Boot
  <2> HIDE DEF r
  <2>3. /\ mode' \in [Procs -> {"down", "boot", "up"}] /\ store' \in [Procs -> Seq(Id)]
        /\ readBytes' \in [Procs -> Nat] /\ kept' \in [Procs -> BOOLEAN]
    BY <1>1, <2>1, <2>2
  <2>4. QED BY <1>1, <2>2, <2>3 DEF TypeOK, JobType, TailType
<1>7. ASSUME NEW p \in Procs, BootTruncate(p) PROVE TypeOK'
  <2>1. file' \in Seq(Unit) /\ synced' \in 0 .. Len(file')
    BY <1>7, TruncateIs
  <2>2. /\ mode' = [mode EXCEPT ![p] = "up"]
        /\ UNCHANGED <<store, readBytes, last, tail, job, kept, made, acked, calls, faults>>
    BY <1>7 DEF BootTruncate
  <2>3. mode' \in [Procs -> {"down", "boot", "up"}]
    BY <1>1, <2>2
  <2>4. QED BY <1>1, <2>1, <2>2, <2>3 DEF TypeOK, JobType, TailType
<1>8. ASSUME NEW p \in Procs, Kill(p) PROVE TypeOK'
  <2>1. Stop({p}) /\ UNCHANGED <<file, synced, made, acked, calls>> /\ faults < MaxFaults
    BY <1>8 DEF Kill
  <2>2. /\ mode' \in [Procs -> {"down", "boot", "up"}]
        /\ store' \in [Procs -> Seq(Id)] /\ readBytes' \in [Procs -> Nat]
        /\ last' \in [Procs -> 0 .. MaxId] /\ tail' \in [Procs -> TailType]
        /\ job' \in [Procs -> [Fibers -> JobType]] /\ kept' \in [Procs -> BOOLEAN]
        /\ faults' \in 0 .. MaxFaults
    <3>1. {p} \in SUBSET Procs
      OBVIOUS
    <3>2. QED BY <2>1, <3>1, StopIs
  <2>3. QED BY <1>1, <2>1, <2>2 DEF TypeOK, JobType, TailType
<1>9. ASSUME NEW p \in Procs, TailKnown(p) PROVE TypeOK'
  <2> DEFINE t == [NoTail EXCEPT !.pc = "known", !.offset = readBytes[p]]
  <2>1. t \in TailType
    BY <1>1 DEF TailType, NoTail
  <2>2. /\ tail' = [tail EXCEPT ![p] = t]
        /\ UNCHANGED <<file, synced, mode, store, readBytes, last, job, kept, made, acked, calls,
                       faults>>
    BY <1>9 DEF TailKnown
  <2> HIDE DEF t
  <2>3. tail' \in [Procs -> TailType]
    BY <1>1, <2>1, <2>2
  <2>4. QED BY <1>1, <2>2, <2>3 DEF TypeOK, JobType, TailType
<1>10. ASSUME NEW p \in Procs, TailRead(p) PROVE TypeOK'
  <2> DEFINE bytes == From(file, tail[p].offset)
             t == IF Consumed(bytes) = 0 THEN NoTail
                  ELSE [tail[p] EXCEPT !.pc = "read", !.events = Scan(bytes),
                                       !.consumed = Consumed(bytes)]
  <2>1. bytes \in Seq(Unit)
    <3> DEFINE n == tail[p].offset
    <3>1. n + 1 \in Int /\ Len(file) \in Int /\ \A i \in n + 1 .. Len(file) : file[i] \in Unit
      BY <1>1, <1>3
    <3> HIDE DEF n
    <3>2. SubSeq(file, n + 1, Len(file)) \in Seq(Unit)
      BY <3>1, SubSeqProperties
    <3>3. QED BY <3>2 DEF From, n
  <2> HIDE DEF bytes
  <2>2. Scan(bytes) \in Seq(Id) /\ Consumed(bytes) \in Nat
    BY <2>1, ScanType, ConsumedIs
  <2>3. [tail[p] EXCEPT !.pc = "read", !.events = Scan(bytes), !.consumed = Consumed(bytes)]
            \in TailType
    BY <1>3, <2>2 DEF TailType
  <2>4. t \in TailType
    BY <2>3
  <2>5. /\ tail' = [tail EXCEPT ![p] = t]
        /\ UNCHANGED <<file, synced, mode, store, readBytes, last, job, kept, made, acked, calls,
                       faults>>
    BY <1>10 DEF TailRead, bytes
  <2> HIDE DEF t
  <2>6. tail' \in [Procs -> TailType]
    BY <1>1, <2>4, <2>5
  <2>7. QED BY <1>1, <2>5, <2>6 DEF TypeOK, JobType, TailType
<1>11. ASSUME NEW p \in Procs, TailIngest(p) PROVE TypeOK'
  <2> DEFINE more == Fresh(tail[p].events, store[p])
  <2>1. more \in Seq(Id)
    BY <1>3, FreshIs
  <2>2. /\ store' = [store EXCEPT ![p] = store[p] \o more]
        /\ readBytes' = [readBytes EXCEPT ![p] = readBytes[p] + tail[p].consumed]
        /\ tail' = [tail EXCEPT ![p] = NoTail]
        /\ UNCHANGED <<file, synced, mode, last, job, kept, made, acked, calls, faults>>
    BY <1>1, <1>11 DEF TailIngest
  <2> HIDE DEF more
  <2>3. store[p] \o more \in Seq(Id)
    BY <1>1, <2>1, ConcatProperties
  <2>4. /\ store' \in [Procs -> Seq(Id)] /\ readBytes' \in [Procs -> Nat]
        /\ tail' \in [Procs -> TailType]
    BY <1>1, <1>3, <2>2, <2>3
  <2>5. QED BY <1>1, <2>2, <2>4 DEF TypeOK, JobType, TailType
<1>12. ASSUME NEW p \in Procs, NEW f \in Fibers, NEW id \in Id, Stamp(p, f, id) PROVE TypeOK'
  <2>1. PICK j \in JobType : SetJob(p, f, j)
    BY <1>12, JobSteps
  <2>2. job' \in [Procs -> [Fibers -> JobType]]
    BY <2>1, JobSet
  <2>3. /\ last' = [last EXCEPT ![p] = id] /\ made' = made \cup {id}
        /\ UNCHANGED <<file, synced, mode, store, readBytes, tail, kept, acked, calls, faults>>
    BY <1>12 DEF Stamp
  <2>4. last' \in [Procs -> 0 .. MaxId] /\ made' \subseteq Id
    BY <1>1, <1>2, <2>3 DEF Id
  <2>5. QED BY <1>1, <2>2, <2>3, <2>4 DEF TypeOK, JobType, TailType
<1>13. ASSUME NEW p \in Procs, NEW f \in Fibers, Open(p, f) PROVE TypeOK'
  <2>1. PICK j \in JobType : SetJob(p, f, j)
    BY <1>13, JobSteps
  <2>2. job' \in [Procs -> [Fibers -> JobType]]
    BY <2>1, JobSet
  <2>3. /\ calls < MaxCalls /\ calls' = calls + 1
        /\ UNCHANGED <<file, synced, mode, store, readBytes, last, tail, kept, made, acked,
                       faults>>
    BY <1>13 DEF Open
  <2>4. calls' \in 0 .. MaxCalls
    BY <1>1, <1>2, <2>3
  <2>5. QED BY <1>1, <2>2, <2>3, <2>4 DEF TypeOK, JobType, TailType
<1>14. ASSUME NEW p \in Procs, NEW f \in Fibers, WriteSome(p, f) PROVE TypeOK'
  <2>1. PICK n \in 1 .. Len(job[p][f].rest), j \in JobType :
            SetJob(p, f, j) /\ file' = file \o SubSeq(job[p][f].rest, 1, n)
    BY <1>14, JobSteps
  <2>2. job' \in [Procs -> [Fibers -> JobType]]
    BY <2>1, JobSet
  <2> DEFINE w == SubSeq(job[p][f].rest, 1, n)
  <2>3. w \in Seq(Unit)
    <3>1. job[p][f].rest \in Seq(Unit) /\ n \in 0 .. Len(job[p][f].rest)
      BY <1>3, <2>1
    <3>2. QED BY <3>1, Cut
  <2> HIDE DEF w
  <2>4. file \o w \in Seq(Unit) /\ Len(file \o w) = Len(file) + Len(w) /\ Len(w) \in Nat
    BY <1>1, <2>3
  <2>5. file' \in Seq(Unit) /\ Len(file') >= Len(file)
    BY <1>1, <2>1, <2>4 DEF w
  <2>6. UNCHANGED <<synced, mode, store, readBytes, last, tail, kept, made, acked, calls, faults>>
    BY <1>14 DEF WriteSome
  <2>7. synced' \in 0 .. Len(file')
    BY <1>1, <2>5, <2>6
  <2>8. QED BY <1>1, <2>2, <2>5, <2>6, <2>7 DEF TypeOK, JobType, TailType
<1>15. ASSUME NEW p \in Procs, NEW f \in Fibers, Sync(p, f) PROVE TypeOK'
  <2>1. PICK j \in JobType : SetJob(p, f, j)
    BY <1>15, JobSteps
  <2>2. job' \in [Procs -> [Fibers -> JobType]]
    BY <2>1, JobSet
  <2>3. /\ synced' = Len(file)
        /\ UNCHANGED <<file, mode, store, readBytes, last, tail, kept, made, acked, calls, faults>>
    BY <1>15 DEF Sync
  <2>4. synced' \in 0 .. Len(file')
    BY <1>1, <2>3
  <2>5. QED BY <1>1, <2>2, <2>3, <2>4 DEF TypeOK, JobType, TailType
<1>16. ASSUME NEW p \in Procs, NEW f \in Fibers, Record(p, f) PROVE TypeOK'
  <2> DEFINE ids == job[p][f].ids
  <2>1. job' \in [Procs -> [Fibers -> JobType]]
    BY <1>16, JobSet DEF Record
  <2>2. /\ store' = [store EXCEPT ![p] = store[p] \o ids]
        /\ readBytes' = [readBytes EXCEPT ![p] = readBytes[p] + Size(ids)]
        /\ acked' = acked \cup {ids}
        /\ UNCHANGED <<file, synced, mode, last, tail, kept, made, calls, faults>>
    BY <1>1, <1>16 DEF Record
  <2>3. ids \in Seq(Id)
    BY <1>3
  <2> HIDE DEF ids
  <2>4. Size(ids) \in Nat /\ store[p] \o ids \in Seq(Id)
    BY <1>1, <2>3, ConcatProperties DEF Size
  <2>5. /\ store' \in [Procs -> Seq(Id)] /\ readBytes' \in [Procs -> Nat]
        /\ acked' \subseteq Seq(Id)
    BY <1>1, <2>2, <2>3, <2>4
  <2>6. QED BY <1>1, <2>1, <2>2, <2>5 DEF TypeOK, JobType, TailType
<1>17. ASSUME NEW p \in Procs, NEW f \in Fibers, Abandon(p, f) PROVE TypeOK'
  <2>1. job' \in [Procs -> [Fibers -> JobType]]
    BY <1>17, JobSet DEF Abandon
  <2>2. /\ faults < MaxFaults /\ faults' = faults + 1
        /\ UNCHANGED <<file, synced, mode, store, readBytes, last, tail, kept, made, acked, calls>>
    BY <1>17 DEF Abandon
  <2>3. faults' \in 0 .. MaxFaults
    BY <1>1, <1>2, <2>2
  <2>4. QED BY <1>1, <2>1, <2>2, <2>3 DEF TypeOK, JobType, TailType
<1>18. QED
  BY <1>4, <1>5, <1>6, <1>7, <1>8, <1>9, <1>10, <1>11, <1>12, <1>13, <1>14, <1>15, <1>16, <1>17
  DEF Next

\* An append that is under way is of a process that appends and is up.
LEMMA Active ==
    ASSUME RestInv, NEW p \in Procs, NEW f \in Fibers, job[p][f].pc # "idle"
    PROVE  mode[p] = "up" /\ p \in Writers
  BY DEF RestInv, NoJob

\* So is a process whose tail fiber takes a step.
LEMMA Polling ==
    ASSUME RestInv, NEW p \in Procs, TailKnown(p) \/ TailRead(p) \/ TailIngest(p)
    PROVE  mode[p] = "up"
<1>1. mode[p] = "up" \/ tail[p].pc # "idle"
  <2>1. TailKnown(p) => mode[p] = "up"
    BY DEF TailKnown
  <2>2. TailRead(p) => tail[p].pc = "known"
    BY DEF TailRead
  <2>3. TailIngest(p) => tail[p].pc = "read"
    BY DEF TailIngest
  <2>4. QED BY <2>1, <2>2, <2>3
<1>2. QED BY <1>1 DEF RestInv, NoTail

\* A step of an append of a process that is up leaves the others at rest.
LEMMA RestJob ==
    ASSUME TypeOK, RestInv, NEW p \in Procs, NEW f \in Fibers, NEW j \in JobType,
           SetJob(p, f, j), j.pc = "idle" => j = NoJob, mode[p] = "up", p \in Writers,
           UNCHANGED <<mode, tail>>
    PROVE  RestInv'
<1>1. /\ job'[p][f] = j
      /\ \A q \in Procs, g \in Fibers : q # p \/ g # f => job'[q][g] = job[q][g]
  BY JobSet
<1>2. ASSUME NEW q \in Procs, mode'[q] # "up"
      PROVE  tail'[q] = NoTail /\ \A g \in Fibers : job'[q][g] = NoJob
  BY <1>1, <1>2 DEF RestInv
<1>3. ASSUME NEW q \in Procs \ Writers, NEW g \in Fibers PROVE job'[q][g] = NoJob
  BY <1>1, <1>3 DEF RestInv
<1>4. ASSUME NEW q \in Procs, NEW g \in Fibers, job'[q][g].pc = "idle"
      PROVE  job'[q][g] = NoJob
  BY <1>1, <1>4 DEF RestInv
<1>5. QED BY <1>2, <1>3, <1>4 DEF RestInv

\* What a process that is not up is doing: nothing.
LEMMA RestStep ==
    ASSUME FileAssumption, TypeOK, RestInv, [Next]_vars
    PROVE  RestInv'
<1>1. CASE UNCHANGED vars
  BY <1>1 DEF vars, RestInv
<1>2. ASSUME NEW P \in SUBSET Procs, Stop(P), faults < MaxFaults PROVE RestInv'
  <2>1. /\ \A q \in P : tail'[q] = NoTail /\ \A g \in Fibers : job'[q][g] = NoJob
        /\ \A q \in Procs \ P : mode'[q] = mode[q] /\ tail'[q] = tail[q] /\ job'[q] = job[q]
    BY <1>2, StopIs
  <2>2. ASSUME NEW q \in Procs, mode'[q] # "up"
        PROVE  tail'[q] = NoTail /\ \A g \in Fibers : job'[q][g] = NoJob
    BY <2>1, <2>2 DEF RestInv
  <2>3. ASSUME NEW q \in Procs \ Writers, NEW g \in Fibers PROVE job'[q][g] = NoJob
    BY <2>1 DEF RestInv
  <2>4. ASSUME NEW q \in Procs, NEW g \in Fibers, job'[q][g].pc = "idle"
        PROVE  job'[q][g] = NoJob
    BY <2>1, <2>4 DEF RestInv
  <2>5. QED BY <2>2, <2>3, <2>4 DEF RestInv
<1>3. ASSUME NEW p \in Procs, Boot(p) \/ BootTruncate(p) PROVE RestInv'
  <2>1. mode[p] # "up" /\ UNCHANGED <<tail, job>>
    BY <1>3 DEF Boot, BootTruncate
  <2>2. \A q \in Procs : q # p => mode'[q] = mode[q]
    BY <1>3 DEF Boot, BootTruncate, TypeOK
  <2>3. QED BY <2>1, <2>2 DEF RestInv
<1>4. ASSUME NEW p \in Procs, TailKnown(p) \/ TailRead(p) \/ TailIngest(p) PROVE RestInv'
  <2>1. mode[p] = "up"
    BY <1>4, Polling
  <2>2. UNCHANGED <<mode, job>> /\ \A q \in Procs : q # p => tail'[q] = tail[q]
    BY <1>4 DEF TailKnown, TailRead, TailIngest, TypeOK
  <2>3. QED BY <2>1, <2>2 DEF RestInv
<1>5. ASSUME NEW p \in Procs, NEW f \in Fibers, NEW id \in Id, Stamp(p, f, id) PROVE RestInv'
  <2>1. PICK j \in JobType : SetJob(p, f, j) /\ j.pc = "stamp"
    BY <1>5, JobSteps
  <2>2. mode[p] = "up" /\ p \in Writers /\ UNCHANGED <<mode, tail>>
    BY <1>5 DEF Stamp
  <2>3. QED BY <2>1, <2>2, RestJob
<1>6. ASSUME NEW p \in Procs, NEW f \in Fibers, Open(p, f) PROVE RestInv'
  <2>1. PICK j \in JobType : SetJob(p, f, j) /\ j.pc = "write"
    BY <1>6, JobSteps
  <2>2. mode[p] = "up" /\ p \in Writers /\ UNCHANGED <<mode, tail>>
    BY <1>6 DEF Open
  <2>3. QED BY <2>1, <2>2, RestJob
<1>7. ASSUME NEW p \in Procs, NEW f \in Fibers, WriteSome(p, f) PROVE RestInv'
  <2>1. PICK n \in 1 .. Len(job[p][f].rest), j \in JobType :
            SetJob(p, f, j) /\ j.pc = IF n = Len(job[p][f].rest) THEN "sync" ELSE "write"
    BY <1>7, JobSteps
  <2>2. mode[p] = "up" /\ p \in Writers /\ UNCHANGED <<mode, tail>>
    BY <1>7, Active DEF WriteSome
  <2>3. QED BY <2>1, <2>2, RestJob
<1>8. ASSUME NEW p \in Procs, NEW f \in Fibers, Sync(p, f) PROVE RestInv'
  <2>1. PICK j \in JobType : SetJob(p, f, j) /\ j.pc = "record"
    BY <1>8, JobSteps
  <2>2. mode[p] = "up" /\ p \in Writers /\ UNCHANGED <<mode, tail>>
    BY <1>8, Active DEF Sync
  <2>3. QED BY <2>1, <2>2, RestJob
<1>9. ASSUME NEW p \in Procs, NEW f \in Fibers, Record(p, f) \/ Abandon(p, f) PROVE RestInv'
  <2>1. SetJob(p, f, NoJob) /\ UNCHANGED <<mode, tail>> /\ job[p][f].pc # "idle"
    BY <1>9 DEF Record, Abandon
  <2>2. QED BY <2>1, Active, RestJob, RestTypes
<1>10. CASE Crash
  <2>1. Procs \in SUBSET Procs /\ Stop(Procs) /\ faults < MaxFaults
    BY <1>10 DEF Crash
  <2>2. QED BY <1>2, <2>1
<1>11. ASSUME NEW p \in Procs, Kill(p) PROVE RestInv'
  <2>1. {p} \in SUBSET Procs /\ Stop({p}) /\ faults < MaxFaults
    BY <1>11 DEF Kill
  <2>2. QED BY <1>2, <2>1
<1>12. QED
  BY <1>1, <1>3, <1>4, <1>5, <1>6, <1>7, <1>8, <1>9, <1>10, <1>11 DEF Next

\* A step after which no more processes are about to truncate, and no more are writing,
\* keeps what is said of them when it leaves the file and their offsets alone.
LEMMA BootFrame ==
    ASSUME BootInv, UNCHANGED file,
           \A q \in Procs : mode'[q] = "boot" => mode[q] = "boot" /\ readBytes'[q] = readBytes[q],
           \A q \in Procs, g \in Fibers : job'[q][g].pc = "write" => job[q][g].pc = "write"
    PROVE  BootInv'
<1>1. \A q \in Procs : Writing(q)' => Writing(q)
  BY DEF Writing
<1>2. Consumed(file)' = Consumed(file)
  BY DEF Consumed, Newlines
<1>3. QED BY <1>1, <1>2 DEF BootInv

\* No append touches the file while one process is about to truncate it.
LEMMA BootStep ==
    ASSUME FileAssumption, StaticBoot, TypeOK, RestInv, BootInv, [Next]_vars
    PROVE  BootInv'
<1>1. CASE UNCHANGED vars
  BY <1>1, BootFrame DEF vars
<1>2. ASSUME NEW p \in Procs, Boot(p) PROVE BootInv'
  <2> DEFINE r == Recover(file)
  <2>1. /\ file \in Seq(Unit) /\ mode \in [Procs -> {"down", "boot", "up"}]
        /\ readBytes \in [Procs -> Nat]
    BY DEF TypeOK
  <2>2. /\ r.validBytes \in 0 .. Len(file) /\ r.kept \in BOOLEAN
        /\ r.kept => r.validBytes = Len(file)
        /\ ~r.kept => r.validBytes = Consumed(file)
    BY <2>1, RecoverIs
  <2>3. /\ mode' = [mode EXCEPT ![p] = IF r.validBytes < Len(file) THEN "boot" ELSE "up"]
        /\ readBytes' = [readBytes EXCEPT ![p] = r.validBytes]
        /\ UNCHANGED <<file, job>>
        /\ \A q \in Procs : mode[q] # "boot" /\ ~Writing(q)
    BY <1>2 DEF Boot
  <2> HIDE DEF r
  <2>4. \A q \in Procs : mode'[q] = "boot" => q = p /\ readBytes'[q] = Consumed(file)
    BY <2>1, <2>2, <2>3
  <2>5. \A q \in Procs : ~Writing(q)'
    BY <2>3 DEF Writing
  <2>6. Consumed(file)' = Consumed(file)
    BY <2>3 DEF Consumed, Newlines
  <2>7. QED BY <2>4, <2>5, <2>6 DEF BootInv
<1>3. ASSUME NEW p \in Procs, BootTruncate(p) PROVE BootInv'
  <2>1. \A q \in Procs : mode'[q] # "boot"
    BY <1>3 DEF BootTruncate, BootInv, TypeOK
  <2>2. QED BY <2>1 DEF BootInv
<1>4. ASSUME NEW P \in SUBSET Procs, Stop(P), faults < MaxFaults, P = Procs \/ UNCHANGED file
      PROVE  BootInv'
  <2>1. /\ \A q \in P : mode'[q] = "down" /\ \A g \in Fibers : job'[q][g] = NoJob
        /\ \A q \in Procs \ P : /\ mode'[q] = mode[q] /\ readBytes'[q] = readBytes[q]
                                /\ job'[q] = job[q]
    BY <1>4, StopIs
  <2>2. CASE P = Procs
    BY <2>1, <2>2 DEF BootInv
  <2>3. CASE UNCHANGED file
    <3>1. \A q \in Procs, g \in Fibers : job'[q][g].pc = "write" => job[q][g].pc = "write"
      BY <2>1 DEF NoJob
    <3>2. \A q \in Procs : mode'[q] = "boot" => mode[q] = "boot" /\ readBytes'[q] = readBytes[q]
      BY <2>1
    <3>3. QED BY <2>3, <3>1, <3>2, BootFrame
  <2>4. QED BY <1>4, <2>2, <2>3
<1>5. ASSUME NEW p \in Procs, TailKnown(p) \/ TailRead(p) \/ TailIngest(p) PROVE BootInv'
  <2>1. mode[p] = "up"
    BY <1>5, Polling
  <2>2. UNCHANGED <<file, mode, job>> /\ \A q \in Procs : q # p => readBytes'[q] = readBytes[q]
    BY <1>5 DEF TailKnown, TailRead, TailIngest, TypeOK
  <2>3. QED BY <2>1, <2>2, BootFrame
<1>6. ASSUME NEW p \in Procs, NEW f \in Fibers, NEW j \in JobType, SetJob(p, f, j),
             j.pc # "write", UNCHANGED <<file, mode>>, mode[p] = "up",
             \A q \in Procs : q # p => readBytes'[q] = readBytes[q]
      PROVE  BootInv'
  <2>1. \A q \in Procs, g \in Fibers : job'[q][g].pc = "write" => job[q][g].pc = "write"
    BY <1>6, JobSet
  <2>2. QED BY <1>6, <2>1, BootFrame
<1>7. ASSUME NEW p \in Procs, NEW f \in Fibers, NEW id \in Id, Stamp(p, f, id) PROVE BootInv'
  <2>1. PICK j \in JobType : SetJob(p, f, j) /\ j.pc = "stamp"
    BY <1>7, JobSteps
  <2>2. mode[p] = "up" /\ UNCHANGED <<file, mode, readBytes>>
    BY <1>7 DEF Stamp
  <2>3. QED BY <1>6, <2>1, <2>2
<1>8. ASSUME NEW p \in Procs, NEW f \in Fibers, Open(p, f) PROVE BootInv'
  <2>1. \A q \in Procs : mode'[q] # "boot"
    BY <1>8 DEF Open
  <2>2. QED BY <2>1 DEF BootInv
<1>9. ASSUME NEW p \in Procs, NEW f \in Fibers, WriteSome(p, f) PROVE BootInv'
  <2>1. Writing(p) /\ UNCHANGED mode
    BY <1>9 DEF WriteSome, Writing
  <2>2. QED BY <2>1 DEF BootInv
<1>10. ASSUME NEW p \in Procs, NEW f \in Fibers, Sync(p, f) PROVE BootInv'
  <2>1. PICK j \in JobType : SetJob(p, f, j) /\ j.pc = "record"
    BY <1>10, JobSteps
  <2>2. mode[p] = "up" /\ UNCHANGED <<file, mode, readBytes>>
    BY <1>10, Active DEF Sync
  <2>3. QED BY <1>6, <2>1, <2>2
<1>11. ASSUME NEW p \in Procs, NEW f \in Fibers, Record(p, f) \/ Abandon(p, f) PROVE BootInv'
  <2>1. SetJob(p, f, NoJob) /\ UNCHANGED <<file, mode>> /\ job[p][f].pc # "idle"
    BY <1>11 DEF Record, Abandon
  <2>2. \A q \in Procs : q # p => readBytes'[q] = readBytes[q]
    BY <1>11 DEF Record, Abandon, TypeOK
  <2>3. NoJob.pc # "write" /\ NoJob \in JobType
    BY RestTypes DEF NoJob
  <2>4. mode[p] = "up"
    BY <2>1, Active
  <2>5. QED BY <1>6, <2>1, <2>2, <2>3, <2>4
<1>12. CASE Crash
  <2>1. Procs \in SUBSET Procs /\ Stop(Procs) /\ faults < MaxFaults
    BY <1>12 DEF Crash
  <2>2. QED BY <1>4, <2>1
<1>13. ASSUME NEW p \in Procs, Kill(p) PROVE BootInv'
  <2>1. {p} \in SUBSET Procs /\ Stop({p}) /\ faults < MaxFaults /\ UNCHANGED file
    BY <1>13 DEF Kill
  <2>2. QED BY <1>4, <2>1
<1>14. QED
  BY <1>1, <1>2, <1>3, <1>5, <1>7, <1>8, <1>9, <1>10, <1>11, <1>12, <1>13 DEF Next
----------------------------------------------------------------------------
\* The ids of an append that is not under way.
LEMMA NoIds == Range(NoJob.ids) = {} /\ NoJob.pc = "idle" /\ NoJob.ids = <<>>
  BY DEF NoJob, Range

\* A step that only takes units off the end of the file, or appends off their course,
\* leaves everything else where it was.
LEMMA UniqueFrame ==
    ASSUME UniqueInv, UNCHANGED made,
           \A i \in DOMAIN file' : i \in DOMAIN file /\ file'[i] = file[i],
           \A q \in Procs, g \in Fibers :
                \/ job'[q][g] = job[q][g]
                \/ job'[q][g] = NoJob
                \/ job'[q][g].pc = "record" /\ job'[q][g].ids = job[q][g].ids
    PROVE  UniqueInv'
<1>1. Once(file)' /\ \A i \in DOMAIN file' : Half(file'[i]) => file'[i][1] \in made'
  BY DEF UniqueInv, Once
<1>2. \A q \in Procs, g \in Fibers : job'[q][g].ids = job[q][g].ids \/ job'[q][g].ids = <<>>
  BY NoIds
<1>3. Apart'
  <2>1. Range(<<>>) = {}
    BY DEF Range
  <2>2. QED BY <1>2, <2>1 DEF UniqueInv, Apart
<1>4. ASSUME NEW q \in Procs, NEW g \in Fibers PROVE Owns(job[q][g])'
  <2> DEFINE j == job[q][g]
             k == job'[q][g]
  <2>1. Owns(j)
    BY DEF UniqueInv
  <2>2. CASE k = j
    <3>1. /\ Range(k.ids) \subseteq made'
          /\ \A i, l \in DOMAIN k.ids : k.ids[i] = k.ids[l] => i = l
      BY <2>1, <2>2 DEF Owns
    <3>2. k.pc = "stamp" => Without(file', k.ids)
      BY <2>1, <2>2 DEF Owns, Without
    <3>3. k.pc = "write" =>
            /\ Once(k.rest)
            /\ \A i \in DOMAIN k.rest : Half(k.rest[i]) =>
                /\ k.rest[i][1] \in Range(k.ids)
                /\ \A l \in DOMAIN file' : file'[l] # k.rest[i]
      BY <2>1, <2>2 DEF Owns
    <3>4. QED BY <3>1, <3>2, <3>3 DEF Owns, Without
  <2>3. CASE k = NoJob
    BY <2>3, NoIds DEF Owns
  <2>4. CASE k.pc = "record" /\ k.ids = j.ids
    BY <2>1, <2>4 DEF Owns
  <2>5. QED BY <2>2, <2>3, <2>4
<1>5. QED BY <1>1, <1>3, <1>4 DEF UniqueInv

\* A new id is in no file and in no other append.
LEMMA UniqueStamp ==
    ASSUME FileAssumption, TypeOK, RestInv, UniqueInv, NEW p \in Procs, NEW f \in Fibers,
           NEW id \in Id, Stamp(p, f, id)
    PROVE  UniqueInv'
<1> DEFINE b == job[p][f]
<1>1. PICK j \in JobType : SetJob(p, f, j) /\ j.pc = "stamp" /\ j.ids = Append(b.ids, id)
  BY JobSteps
<1>2. /\ job'[p][f] = j
      /\ \A q \in Procs, g \in Fibers : q # p \/ g # f => job'[q][g] = job[q][g]
  BY <1>1, JobSet
<1>3. id \notin made /\ made' = made \cup {id} /\ UNCHANGED file /\ b.pc \in {"idle", "stamp"}
  BY DEF Stamp
<1>4. b.ids \in Seq(Id)
  BY RecordTypes
<1>5. Owns(b)
  BY DEF UniqueInv
<1>6. Without(file, b.ids)
  <2>1. CASE b.pc = "stamp"
    BY <1>5, <2>1 DEF Owns
  <2>2. CASE b.pc = "idle"
    BY <2>2, NoIds DEF RestInv, Without
  <2>3. QED BY <1>3, <2>1, <2>2
<1> HIDE DEF b
<1>7. /\ DOMAIN j.ids = 1 .. Len(b.ids) + 1 /\ j.ids[Len(b.ids) + 1] = id
      /\ \A i \in 1 .. Len(b.ids) : j.ids[i] = b.ids[i]
      /\ DOMAIN b.ids = 1 .. Len(b.ids) /\ Len(b.ids) \in Nat
  BY <1>1, <1>4
<1>8. Range(j.ids) = Range(b.ids) \cup {id}
  <2> DEFINE l == Len(b.ids)
             s == b.ids
             t == j.ids
  <2>1. /\ DOMAIN t = 1 .. l + 1 /\ t[l + 1] = id /\ \A i \in 1 .. l : t[i] = s[i]
        /\ DOMAIN s = 1 .. l /\ l \in Nat
    BY <1>7
  <2> HIDE DEF l, s, t
  <2>2. 1 .. l + 1 = (1 .. l) \cup {l + 1}
    BY <2>1
  <2>3. {t[i] : i \in 1 .. l + 1} = {s[i] : i \in 1 .. l} \cup {id}
    BY <2>1, <2>2
  <2>4. Range(t) = Range(s) \cup {id}
    BY <2>1, <2>3 DEF Range
  <2>5. QED BY <2>4 DEF s, t
<1>9. Once(file)' /\ \A i \in DOMAIN file' : Half(file'[i]) => file'[i][1] \in made'
  BY <1>3 DEF UniqueInv, Once
<1>10. Range(b.ids) \subseteq made
  BY <1>5 DEF Owns
<1>11. Apart'
  <2>1. \A q \in Procs, g \in Fibers : Range(job[q][g].ids) \subseteq made
    BY DEF UniqueInv, Owns
  <2>2. \A q \in Procs, g \in Fibers : q # p \/ g # f =>
            Range(j.ids) \cap Range(job[q][g].ids) = {}
    BY <1>3, <1>8, <2>1 DEF UniqueInv, Apart, b
  <2>3. SUFFICES ASSUME NEW q \in Procs, NEW r \in Procs, NEW g \in Fibers, NEW h \in Fibers,
                        q # r \/ g # h
                 PROVE  Range(job'[q][g].ids) \cap Range(job'[r][h].ids) = {}
    BY DEF Apart
  <2>4. CASE q = p /\ g = f
    BY <1>2, <2>2, <2>3, <2>4
  <2>5. CASE r = p /\ h = f
    BY <1>2, <2>2, <2>3, <2>5
  <2>6. CASE ~(q = p /\ g = f) /\ ~(r = p /\ h = f)
    BY <1>2, <2>3, <2>6 DEF UniqueInv, Apart
  <2>7. QED BY <2>4, <2>5, <2>6
<1>12. Owns(j)'
  <2>1. Range(j.ids) \subseteq made'
    BY <1>3, <1>8, <1>10
  <2>2. \A i, k \in DOMAIN j.ids : j.ids[i] = j.ids[k] => i = k
    <3>1. \A i \in 1 .. Len(b.ids) : b.ids[i] # id
      BY <1>3, <1>7, <1>10 DEF Range
    <3>2. SUFFICES ASSUME NEW i \in DOMAIN j.ids, NEW k \in DOMAIN j.ids, j.ids[i] = j.ids[k]
                   PROVE  i = k
      OBVIOUS
    <3>3. CASE i \in 1 .. Len(b.ids) /\ k \in 1 .. Len(b.ids)
      BY <1>5, <1>7, <3>2, <3>3 DEF Owns
    <3>4. CASE i = Len(b.ids) + 1 \/ k = Len(b.ids) + 1
      BY <1>7, <3>1, <3>2, <3>4
    <3>5. QED BY <1>7, <3>3, <3>4
  <2>3. Without(file', j.ids)
    <3>1. \A i \in DOMAIN file : Half(file[i]) => file[i][1] # id
      BY <1>3 DEF UniqueInv
    <3>2. QED BY <1>3, <1>6, <1>8, <3>1 DEF Without
  <2>4. QED BY <1>1, <2>1, <2>2, <2>3 DEF Owns, Without
<1>13. ASSUME NEW q \in Procs, NEW g \in Fibers PROVE Owns(job[q][g])'
  <2>1. CASE q = p /\ g = f
    BY <1>2, <1>12, <2>1 DEF Owns
  <2>2. CASE ~(q = p /\ g = f)
    <3>1. job'[q][g] = job[q][g] /\ Owns(job[q][g])
      BY <1>2, <2>2 DEF UniqueInv
    <3>2. made \subseteq made'
      BY <1>3
    <3>3. QED BY <1>3, <3>1, <3>2 DEF Owns, Without
  <2>3. QED BY <2>1, <2>2
<1>14. QED BY <1>9, <1>11, <1>13 DEF UniqueInv

\* The lines of an append are of its ids, which are not in the file yet.
LEMMA UniqueOpen ==
    ASSUME FileAssumption, TypeOK, RestInv, UniqueInv, NEW p \in Procs, NEW f \in Fibers,
           Open(p, f)
    PROVE  UniqueInv'
<1> DEFINE b == job[p][f]
<1>1. PICK j \in JobType :
        SetJob(p, f, j) /\ j.pc = "write" /\ j.ids = b.ids /\ j.rest = Buffer(j.ids)
  BY JobSteps
<1>2. /\ job'[p][f] = j
      /\ \A q \in Procs, g \in Fibers : q # p \/ g # f => job'[q][g] = job[q][g]
  BY <1>1, JobSet
<1>3. UNCHANGED <<file, made>> /\ b.pc \in {"idle", "stamp"}
  BY DEF Open
<1>4. j.ids \in Seq(Id)
  BY <1>1, RecordTypes
<1>5. Owns(b)
  BY DEF UniqueInv
<1>6. Without(file, j.ids)
  <2>1. CASE b.pc = "stamp"
    BY <1>1, <1>5, <2>1 DEF Owns
  <2>2. CASE b.pc = "idle"
    BY <1>1, <2>2, NoIds DEF RestInv, Without
  <2>3. QED BY <1>3, <2>1, <2>2
<1>7. Range(j.ids) \subseteq made /\ \A i, k \in DOMAIN j.ids : j.ids[i] = j.ids[k] => i = k
  BY <1>1, <1>5 DEF Owns
<1> HIDE DEF b
<1>8. /\ Once(j.rest)
      /\ \A i \in DOMAIN j.rest : Half(j.rest[i]) => j.rest[i][1] \in Range(j.ids)
  BY <1>1, <1>4, <1>7, BufferIs
<1>9. \A i \in DOMAIN j.rest : Half(j.rest[i]) => \A k \in DOMAIN file : file[k] # j.rest[i]
  BY <1>6, <1>8 DEF Without
<1>10. Owns(j)'
  BY <1>1, <1>3, <1>7, <1>8, <1>9 DEF Owns
<1>11. ASSUME NEW q \in Procs, NEW g \in Fibers PROVE Owns(job[q][g])'
  <2>1. CASE q = p /\ g = f
    BY <1>2, <1>10, <2>1 DEF Owns
  <2>2. CASE ~(q = p /\ g = f)
    <3>1. job'[q][g] = job[q][g] /\ Owns(job[q][g])
      BY <1>2, <2>2 DEF UniqueInv
    <3>2. QED BY <1>3, <3>1 DEF Owns, Without
  <2>3. QED BY <2>1, <2>2
<1>12. Apart'
  <2>1. \A q \in Procs, g \in Fibers : job'[q][g].ids = job[q][g].ids
    BY <1>1, <1>2 DEF b
  <2>2. QED BY <2>1 DEF UniqueInv, Apart
<1>13. QED BY <1>3, <1>11, <1>12 DEF UniqueInv

\* What one append writes is in nothing else.
LEMMA UniqueWrite ==
    ASSUME FileAssumption, TypeOK, RestInv, UniqueInv, NEW p \in Procs, NEW f \in Fibers,
           WriteSome(p, f)
    PROVE  UniqueInv'
<1> DEFINE b == job[p][f]
           l == Len(file)
<1>1. PICK n \in 1 .. Len(b.rest), j \in JobType :
        /\ SetJob(p, f, j) /\ j.ids = b.ids /\ j.rest = From(b.rest, n)
        /\ j.pc = IF n = Len(b.rest) THEN "sync" ELSE "write"
        /\ file' = file \o SubSeq(b.rest, 1, n)
  BY JobSteps
<1>2. /\ job'[p][f] = j
      /\ \A q \in Procs, g \in Fibers : q # p \/ g # f => job'[q][g] = job[q][g]
  BY <1>1, JobSet
<1>3. UNCHANGED made /\ b.pc = "write"
  BY DEF WriteSome
<1>4. b.rest \in Seq(Unit) /\ file \in Seq(Unit)
  BY RecordTypes DEF TypeOK
<1>5. Owns(b)
  BY DEF UniqueInv
<1>6. /\ Range(b.ids) \subseteq made
      /\ \A i, k \in DOMAIN b.ids : b.ids[i] = b.ids[k] => i = k
      /\ Once(b.rest)
      /\ \A i \in DOMAIN b.rest : Half(b.rest[i]) =>
            b.rest[i][1] \in Range(b.ids) /\ \A k \in DOMAIN file : file[k] # b.rest[i]
  BY <1>3, <1>5 DEF Owns
<1> HIDE DEF b
<1> DEFINE w == SubSeq(b.rest, 1, n)
           m == Len(b.rest)
<1>7. /\ w \in Seq(Unit) /\ Len(w) = n /\ \A i \in 1 .. n : w[i] = b.rest[i]
      /\ j.rest \in Seq(Unit) /\ Len(j.rest) = m - n
      /\ \A i \in 1 .. m - n : j.rest[i] = b.rest[n + i]
  <2>1. n \in 0 .. Len(b.rest)
    OBVIOUS
  <2>2. w \in Seq(Unit) /\ Len(w) = n /\ \A i \in 1 .. n : w[i] = b.rest[i]
    BY <1>4, <2>1, Cut
  <2>3. /\ From(b.rest, n) \in Seq(Unit) /\ Len(From(b.rest, n)) = m - n
        /\ \A i \in 1 .. m - n : From(b.rest, n)[i] = b.rest[n + i]
    BY <1>4, <2>1, Cut
  <2> HIDE DEF w, m
  <2>4. QED BY <1>1, <2>2, <2>3
<1>8. m \in Nat /\ n \in 1 .. m /\ DOMAIN b.rest = 1 .. m /\ l \in Nat /\ DOMAIN file = 1 .. l
  BY <1>4
<1> HIDE DEF w, m
<1>9. /\ DOMAIN file' = 1 .. l + n
      /\ \A i \in 1 .. l : file'[i] = file[i]
      /\ \A i \in 1 .. n : file'[l + i] = b.rest[i]
  <2>1. file' = file \o w
    BY <1>1 DEF w
  <2>2. DOMAIN file' = 1 .. l + n /\ \A i \in 1 .. l : file'[i] = file[i]
    <3>1. /\ file \o w \in Seq(Unit) /\ Len(file \o w) = Len(file) + Len(w)
          /\ \A i \in 1 .. Len(file) + Len(w) :
                (file \o w)[i] = IF i <= Len(file) THEN file[i] ELSE w[i - Len(file)]
      BY <1>4, <1>7, ConcatProperties
    <3>2. DOMAIN (file \o w) = 1 .. Len(file \o w)
      BY <3>1
    <3>3. Len(file \o w) = l + n
      BY <1>7, <3>1
    <3>4. \A i \in 1 .. l : i \in 1 .. Len(file) + Len(w) /\ i <= Len(file)
      BY <1>7, <1>8
    <3>5. QED BY <2>1, <3>1, <3>2, <3>3, <3>4
  <2>3. ASSUME NEW i \in 1 .. n PROVE file'[l + i] = b.rest[i]
    <3>1. l + i \in 1 .. l + n /\ ~(l + i <= l) /\ (l + i) - l = i
      BY <1>8
    <3>2. (file \o w)[l + i] = w[i]
      BY <1>4, <1>7, <1>8, <3>1
    <3>3. QED BY <1>7, <2>1, <3>2
  <2>4. QED BY <2>2, <2>3
<1> HIDE DEF l
\* A unit of the file after the step was there before or is one of those written.
<1>10. \A i \in DOMAIN file' :
        \/ i \in 1 .. l /\ file'[i] = file[i]
        \/ i - l \in 1 .. n /\ file'[i] = b.rest[i - l]
  <2>1. SUFFICES ASSUME NEW i \in 1 .. l + n, i \notin 1 .. l
                 PROVE  i - l \in 1 .. n /\ file'[i] = b.rest[i - l]
    BY <1>9
  <2>2. i - l \in 1 .. n /\ l + (i - l) = i
    BY <1>8, <2>1
  <2>3. file'[l + (i - l)] = b.rest[i - l]
    BY <1>9, <2>2
  <2>4. QED BY <2>2, <2>3
<1>11. \A i \in 1 .. n : i \in DOMAIN b.rest
  BY <1>8
<1>12. Once(file)'
  <2>1. SUFFICES ASSUME NEW i \in DOMAIN file', NEW k \in DOMAIN file', file'[i] = file'[k],
                        Half(file'[i])
                 PROVE  i = k
    BY DEF Once
  <2>2. CASE i \in 1 .. l /\ file'[i] = file[i] /\ k \in 1 .. l /\ file'[k] = file[k]
    BY <1>8, <2>1, <2>2 DEF UniqueInv, Once
  <2>3. CASE i \in 1 .. l /\ file'[i] = file[i] /\ k - l \in 1 .. n /\ file'[k] = b.rest[k - l]
    BY <1>6, <1>8, <1>11, <2>1, <2>3
  <2>4. CASE k \in 1 .. l /\ file'[k] = file[k] /\ i - l \in 1 .. n /\ file'[i] = b.rest[i - l]
    BY <1>6, <1>8, <1>11, <2>1, <2>4
  <2>5. CASE /\ i - l \in 1 .. n /\ file'[i] = b.rest[i - l]
             /\ k - l \in 1 .. n /\ file'[k] = b.rest[k - l]
    <3>1. i - l = k - l
      BY <1>6, <1>11, <2>1, <2>5 DEF Once
    <3>2. i \in Int /\ k \in Int
      BY <1>9
    <3>3. QED BY <1>8, <3>1, <3>2
  <2>6. QED BY <1>10, <2>1, <2>2, <2>3, <2>4, <2>5
<1>13. \A i \in DOMAIN file' : Half(file'[i]) => file'[i][1] \in made'
  <2>1. SUFFICES ASSUME NEW i \in DOMAIN file', Half(file'[i]) PROVE file'[i][1] \in made
    BY <1>3
  <2>2. CASE i \in 1 .. l /\ file'[i] = file[i]
    BY <1>8, <2>1, <2>2 DEF UniqueInv
  <2>3. CASE i - l \in 1 .. n /\ file'[i] = b.rest[i - l]
    BY <1>6, <1>11, <2>1, <2>3
  <2>4. QED BY <1>10, <2>1, <2>2, <2>3
<1>14. Owns(j)'
  <2>1. ASSUME j.pc = "write" PROVE Once(j.rest)
    <3>1. SUFFICES ASSUME NEW i \in 1 .. m - n, NEW k \in 1 .. m - n, j.rest[i] = j.rest[k],
                          Half(j.rest[i])
                   PROVE  i = k
      BY <1>7 DEF Once
    <3>2. n + i \in DOMAIN b.rest /\ n + k \in DOMAIN b.rest
      BY <1>8
    <3>3. n + i = n + k
      BY <1>6, <1>7, <3>1, <3>2 DEF Once
    <3>4. QED BY <1>8, <3>3
  <2>2. ASSUME NEW i \in DOMAIN j.rest, Half(j.rest[i])
        PROVE  j.rest[i][1] \in Range(j.ids) /\ \A k \in DOMAIN file' : file'[k] # j.rest[i]
    <3>1. i \in 1 .. m - n /\ j.rest[i] = b.rest[n + i]
      BY <1>7
    <3>2. n + i \in DOMAIN b.rest
      BY <1>8, <3>1
    <3>3. j.rest[i][1] \in Range(j.ids) /\ \A k \in DOMAIN file : file[k] # j.rest[i]
      BY <1>1, <1>6, <2>2, <3>1, <3>2
    <3>4. \A k \in 1 .. n : b.rest[k] # j.rest[i]
      <4>1. \A k \in 1 .. n : k # n + i
        BY <1>8, <3>1
      <4>2. QED BY <1>6, <1>11, <2>2, <3>1, <3>2, <4>1 DEF Once
    <3>5. QED BY <1>8, <1>10, <3>3, <3>4
  <2>3. j.pc # "stamp"
    BY <1>1
  <2>4. QED BY <1>1, <1>3, <1>6, <2>1, <2>2, <2>3 DEF Owns
<1>15. ASSUME NEW q \in Procs, NEW g \in Fibers PROVE Owns(job[q][g])'
  <2>1. CASE q = p /\ g = f
    BY <1>2, <1>14, <2>1 DEF Owns
  <2>2. CASE ~(q = p /\ g = f)
    <3> DEFINE k == job[q][g]
    <3>1. job'[q][g] = k /\ Owns(k) /\ Range(k.ids) \cap Range(b.ids) = {}
      BY <1>2, <2>2 DEF UniqueInv, Apart, b
    <3> HIDE DEF k
    <3>2. k.pc = "stamp" => Without(file', k.ids)
      <4>1. SUFFICES ASSUME k.pc = "stamp", NEW i \in DOMAIN file', Half(file'[i])
                     PROVE  file'[i][1] \notin Range(k.ids)
        BY DEF Without
      <4>2. CASE i \in 1 .. l /\ file'[i] = file[i]
        BY <1>8, <3>1, <4>1, <4>2 DEF Owns, Without
      <4>3. CASE i - l \in 1 .. n /\ file'[i] = b.rest[i - l]
        BY <1>6, <1>11, <3>1, <4>1, <4>3
      <4>4. QED BY <1>10, <4>2, <4>3
    <3>3. ASSUME k.pc = "write", NEW i \in DOMAIN k.rest, Half(k.rest[i])
          PROVE  \A h \in DOMAIN file' : file'[h] # k.rest[i]
      <4>1. k.rest[i][1] \in Range(k.ids) /\ \A h \in DOMAIN file : file[h] # k.rest[i]
        BY <3>1, <3>3 DEF Owns
      <4>2. \A h \in 1 .. n : b.rest[h] # k.rest[i]
        BY <1>6, <1>11, <3>1, <3>3, <4>1
      <4>3. QED BY <1>8, <1>10, <4>1, <4>2
    <3>4. QED BY <1>3, <3>1, <3>2, <3>3 DEF Owns, Without
  <2>3. QED BY <2>1, <2>2
<1>16. Apart'
  <2>1. \A q \in Procs, g \in Fibers : job'[q][g].ids = job[q][g].ids
    BY <1>1, <1>2 DEF b
  <2>2. QED BY <2>1 DEF UniqueInv, Apart
<1>17. QED BY <1>12, <1>13, <1>15, <1>16 DEF UniqueInv

\* No half of a line is ever in the file twice, whoever writes and whatever fails.
LEMMA UniqueStep ==
    ASSUME FileAssumption, TypeOK, RestInv, BootInv, UniqueInv, [Next]_vars
    PROVE  UniqueInv'
<1>1. file \in Seq(Unit) /\ synced \in 0 .. Len(file)
  BY DEF TypeOK
<1>2. ASSUME UNCHANGED <<file, made, job>> PROVE UniqueInv'
  BY <1>2, UniqueFrame
<1>3. ASSUME NEW P \in SUBSET Procs, Stop(P), faults < MaxFaults, UNCHANGED made,
             \A i \in DOMAIN file' : i \in DOMAIN file /\ file'[i] = file[i]
      PROVE  UniqueInv'
  <2>1. /\ \A q \in P : \A g \in Fibers : job'[q][g] = NoJob
        /\ \A q \in Procs \ P : job'[q] = job[q]
    BY <1>3, StopIs
  <2>2. \A q \in Procs, g \in Fibers : job'[q][g] = job[q][g] \/ job'[q][g] = NoJob
    BY <2>1
  <2>3. QED BY <1>3, <2>2, UniqueFrame
<1>4. CASE UNCHANGED vars
  BY <1>2, <1>4 DEF vars
<1>5. CASE Crash
  <2>1. PICK n \in synced .. Len(file) : file' = SubSeq(file, 1, n)
    BY <1>5 DEF Crash
  <2>2. n \in 0 .. Len(file)
    BY <1>1, <2>1
  <2>3. Len(file') = n /\ file' \in Seq(Unit) /\ \A i \in 1 .. n : file'[i] = file[i]
    BY <1>1, <2>1, <2>2, Cut
  <2>4. \A i \in DOMAIN file' : i \in DOMAIN file /\ file'[i] = file[i]
    BY <1>1, <2>2, <2>3
  <2>5. Procs \in SUBSET Procs /\ Stop(Procs) /\ faults < MaxFaults /\ UNCHANGED made
    BY <1>5 DEF Crash
  <2>6. QED BY <1>3, <2>4, <2>5
<1>6. ASSUME NEW p \in Procs, Kill(p) PROVE UniqueInv'
  <2>1. /\ {p} \in SUBSET Procs /\ Stop({p}) /\ faults < MaxFaults
        /\ UNCHANGED made /\ UNCHANGED file
    BY <1>6 DEF Kill
  <2>2. QED BY <1>3, <2>1
<1>7. ASSUME NEW p \in Procs, BootTruncate(p) PROVE UniqueInv'
  <2>1. /\ file' \in Seq(Unit) /\ Len(file') = Consumed(file)
        /\ \A i \in 1 .. Consumed(file) : file'[i] = file[i]
    BY <1>7, TruncateIs
  <2>2. Consumed(file) \in 0 .. Len(file)
    BY <1>1, ConsumedIs
  <2>3. \A i \in DOMAIN file' : i \in DOMAIN file /\ file'[i] = file[i]
    BY <1>1, <2>1, <2>2
  <2>4. UNCHANGED <<made, job>>
    BY <1>7 DEF BootTruncate
  <2>5. QED BY <2>3, <2>4, UniqueFrame
<1>8. ASSUME NEW p \in Procs, Boot(p) PROVE UniqueInv'
  BY <1>2, <1>8 DEF Boot
<1>9. ASSUME NEW p \in Procs, TailKnown(p) \/ TailRead(p) \/ TailIngest(p) PROVE UniqueInv'
  BY <1>2, <1>9 DEF TailKnown, TailRead, TailIngest
<1>10. ASSUME NEW p \in Procs, NEW f \in Fibers, Sync(p, f) PROVE UniqueInv'
  <2>1. PICK j \in JobType : SetJob(p, f, j) /\ j.pc = "record" /\ j.ids = job[p][f].ids
    BY <1>10, JobSteps
  <2>2. UNCHANGED <<file, made>>
    BY <1>10 DEF Sync
  <2>3. \A q \in Procs, g \in Fibers :
            \/ job'[q][g] = job[q][g]
            \/ job'[q][g].pc = "record" /\ job'[q][g].ids = job[q][g].ids
    BY <2>1, JobSet
  <2>4. QED BY <2>2, <2>3, UniqueFrame
<1>11. ASSUME NEW p \in Procs, NEW f \in Fibers, Record(p, f) \/ Abandon(p, f) PROVE UniqueInv'
  <2>1. SetJob(p, f, NoJob) /\ UNCHANGED <<file, made>>
    BY <1>11 DEF Record, Abandon
  <2>2. \A q \in Procs, g \in Fibers : job'[q][g] = job[q][g] \/ job'[q][g] = NoJob
    BY <2>1, JobSet, RestTypes
  <2>3. QED BY <2>1, <2>2, UniqueFrame
<1>12. QED
  BY <1>4, <1>5, <1>6, <1>7, <1>8, <1>9, <1>10, <1>11, UniqueStamp, UniqueOpen, UniqueWrite
  DEF Next
----------------------------------------------------------------------------
\* Two sequences that agree between two places have the same piece there.
LEMMA SamePiece ==
    ASSUME NEW S, NEW s \in Seq(S), NEW t \in Seq(S), NEW n \in 0 .. Len(s), n <= Len(t),
           NEW m \in 0 .. n, \A i \in 1 .. n : s[i] = t[i]
    PROVE  SubSeq(s, m + 1, n) = SubSeq(t, m + 1, n)
<1> DEFINE a == SubSeq(s, m + 1, n)
           b == SubSeq(t, m + 1, n)
<1>1. /\ a \in Seq(S) /\ Len(a) = n - m /\ \A i \in 1 .. n - m : a[i] = s[m + i]
  <2>1. m \in 0 .. Len(s) /\ n \in m .. Len(s)
    OBVIOUS
  <2>2. QED BY <2>1, Piece
<1>2. /\ b \in Seq(S) /\ Len(b) = n - m /\ \A i \in 1 .. n - m : b[i] = t[m + i]
  <2>1. m \in 0 .. Len(t) /\ n \in m .. Len(t)
    OBVIOUS
  <2>2. QED BY <2>1, Piece
<1>3. \A i \in 1 .. n - m : m + i \in 1 .. n
  OBVIOUS
<1> HIDE DEF a, b
<1>4. Len(a) = Len(b) /\ \A i \in 1 .. Len(a) : a[i] = b[i]
  BY <1>1, <1>2, <1>3
<1>5. a = b
  BY <1>1, <1>2, <1>4, SeqEqual
<1>6. QED BY <1>5 DEF a, b

\* What a process has read up to the end of a line stays what the file says while the file
\* stays the same up to there.
LEMMA MirrorFrame ==
    ASSUME TypeOK, MirrorInv, file' \in Seq(Unit),
           NEW c \in 0 .. Len(file), c <= Len(file'), \A i \in 1 .. c : file[i] = file'[i],
           \A n \in 0 .. Len(file) : LineEnd(n) => n <= c,
           NEW q \in Procs \ Writers,
           \/ mode'[q] = "down"
           \/ /\ mode[q] # "down" /\ kept'[q] = kept[q] /\ tail'[q] = tail[q]
              /\ readBytes'[q] = readBytes[q] /\ store'[q] = store[q]
    PROVE  mode'[q] # "down" /\ ~kept'[q] => Mirrors(q)' /\ Polls(q)'
<1>1. SUFFICES ASSUME mode[q] # "down", ~kept[q], tail'[q] = tail[q],
                      readBytes'[q] = readBytes[q], store'[q] = store[q]
               PROVE  Mirrors(q)' /\ Polls(q)'
  OBVIOUS
<1>2. file \in Seq(Unit) /\ readBytes[q] \in Nat /\ tail[q].consumed \in Nat
  BY RecordTypes DEF TypeOK
<1>3. Mirrors(q) /\ Polls(q)
  BY <1>1 DEF MirrorInv
<1> DEFINE r == readBytes[q]
           e == r + tail[q].consumed
<1>4. LineEnd(r) /\ store[q] = Scan(SubSeq(file, 1, r))
  BY <1>3 DEF Mirrors
<1>5. r \in 0 .. Len(file) /\ r <= c
  BY <1>4 DEF LineEnd
<1>6. ASSUME NEW n \in 0 .. c, LineEnd(n) PROVE LineEnd(n)'
  <2>1. n \in 0 .. Len(file')
    BY <1>6
  <2>2. n > 0 => file[n] = file'[n] /\ file[n] = Newline
    BY <1>6 DEF LineEnd
  <2>3. QED BY <2>1, <2>2 DEF LineEnd
<1>7. Mirrors(q)'
  <2>1. r \in 0 .. c /\ r <= Len(file') /\ 0 \in 0 .. r /\ 0 + 1 = 1
        /\ \A i \in 1 .. r : file[i] = file'[i]
    BY <1>2, <1>5
  <2>2. SubSeq(file, 0 + 1, r) = SubSeq(file', 0 + 1, r)
    <3> HIDE DEF r
    <3>1. QED BY <1>2, <1>5, <2>1, SamePiece
  <2>3. SubSeq(file, 1, r) = SubSeq(file', 1, r)
    BY <2>1, <2>2
  <2>4. LineEnd(r)'
    BY <1>1, <1>4, <1>6, <2>1
  <2>5. store'[q] = Scan(SubSeq(file', 1, readBytes'[q]))
    BY <1>1, <1>4, <2>3
  <2>6. LineEnd(readBytes[q])'
    BY <2>4
  <2>7. QED BY <2>5, <2>6 DEF Mirrors
<1>8. Polls(q)'
  <2>1. tail'[q].pc # "idle" => tail'[q].offset = readBytes'[q]
    BY <1>1, <1>3 DEF Polls
  <2>2. ASSUME tail'[q].pc = "read"
        PROVE  /\ LineEnd(readBytes[q] + tail[q].consumed)'
               /\ tail'[q].events =
                    Scan(SubSeq(file', readBytes'[q] + 1, readBytes'[q] + tail'[q].consumed))
    <3>1. LineEnd(e) /\ tail[q].events = Scan(SubSeq(file, r + 1, e))
      BY <1>1, <1>3, <2>2 DEF Polls
    <3>2. e \in 0 .. Len(file) /\ e <= c
      BY <3>1 DEF LineEnd
    <3>3. e \in 0 .. c /\ r \in 0 .. e /\ e <= Len(file') /\ \A i \in 1 .. e : file[i] = file'[i]
      BY <1>2, <3>2
    <3>4. SubSeq(file, r + 1, e) = SubSeq(file', r + 1, e)
      <4> HIDE DEF r, e
      <4>1. QED BY <1>2, <3>2, <3>3, SamePiece
    <3>5. LineEnd(e)'
      BY <1>1, <1>6, <3>1, <3>3
    <3>6. QED BY <1>1, <3>1, <3>4, <3>5
  <2>3. QED BY <2>1, <2>2 DEF Polls
<1>9. QED BY <1>7, <1>8

\* A process that starts has read the complete lines.
LEMMA MirrorBoot ==
    ASSUME FileAssumption, TypeOK, RestInv, MirrorInv, NEW p \in Procs \ Writers, Boot(p),
           ~kept'[p]
    PROVE  Mirrors(p)' /\ Polls(p)'
<1> DEFINE r == Recover(file)
<1>1. /\ file \in Seq(Unit) /\ store \in [Procs -> Seq(Id)] /\ readBytes \in [Procs -> Nat]
      /\ kept \in [Procs -> BOOLEAN]
  BY DEF TypeOK
<1>2. /\ store' = [store EXCEPT ![p] = r.events]
      /\ readBytes' = [readBytes EXCEPT ![p] = r.validBytes]
      /\ kept' = [kept EXCEPT ![p] = r.kept] /\ mode[p] = "down" /\ UNCHANGED <<file, tail>>
  BY DEF Boot
<1>3. ~r.kept => r.events = Scan(file) /\ r.validBytes = Consumed(file)
  BY <1>1, RecoverIs
<1> HIDE DEF r
<1>4. store'[p] = Scan(file) /\ readBytes'[p] = Consumed(file)
  BY <1>1, <1>2, <1>3
<1>5. /\ Consumed(file) \in 0 .. Len(file)
      /\ Consumed(file) > 0 => file[Consumed(file)] = Newline
  BY <1>1, ConsumedIs
<1>6. Scan(file) = Scan(SubSeq(file, 1, Consumed(file)))
  BY <1>1, ScanWhole
<1>7. LineEnd(readBytes[p])'
  BY <1>2, <1>4, <1>5 DEF LineEnd
<1>8. store'[p] = Scan(SubSeq(file', 1, readBytes'[p]))
  BY <1>2, <1>4, <1>6
<1>9. tail'[p].pc = "idle"
  BY <1>2 DEF RestInv, NoTail
<1>10. QED BY <1>7, <1>8, <1>9 DEF Mirrors, Polls

\* What a poll reads are whole lines that follow the offset.
LEMMA MirrorRead ==
    ASSUME FileAssumption, TypeOK, NEW p \in Procs, Mirrors(p), Polls(p), TailRead(p)
    PROVE  Mirrors(p)' /\ Polls(p)'
<1> DEFINE r == readBytes[p]
           bytes == From(file, r)
           c == Consumed(bytes)
<1>1. file \in Seq(Unit) /\ tail \in [Procs -> TailType]
  BY DEF TypeOK, TailType
<1>2. tail[p].pc = "known" /\ UNCHANGED <<file, readBytes, store>>
  BY DEF TailRead
<1>3. tail[p].offset = r
  BY <1>2 DEF Polls
<1>4. tail' = [tail EXCEPT ![p] =
                 IF c = 0 THEN NoTail
                 ELSE [tail[p] EXCEPT !.pc = "read", !.events = Scan(bytes), !.consumed = c]]
  BY <1>3 DEF TailRead
<1>5. r \in 0 .. Len(file)
  BY DEF Mirrors, LineEnd
<1> HIDE DEF r
<1>6. /\ bytes \in Seq(Unit) /\ Len(bytes) = Len(file) - r
      /\ \A i \in 1 .. Len(file) - r : bytes[i] = file[r + i]
  BY <1>1, <1>5, Cut
<1> HIDE DEF bytes
<1>7. c \in 0 .. Len(bytes) /\ (c > 0 => bytes[c] = Newline)
  BY <1>6, ConsumedIs
<1>8. Scan(bytes) = Scan(SubSeq(bytes, 1, c))
  BY <1>6, ScanWhole
<1> HIDE DEF c
<1>9. Mirrors(p)'
  <2>1. LineEnd(r)' /\ store'[p] = Scan(SubSeq(file', 1, r))
    BY <1>2 DEF Mirrors, LineEnd, r
  <2>2. readBytes'[p] = r
    BY <1>2 DEF r
  <2>3. LineEnd(readBytes[p])'
    BY <1>2, <2>1 DEF r
  <2>4. QED BY <2>1, <2>2, <2>3 DEF Mirrors
<1>10. CASE c = 0
  <2>1. tail'[p].pc = "idle"
    BY <1>1, <1>4, <1>10 DEF NoTail
  <2>2. QED BY <1>9, <2>1 DEF Polls
<1>11. CASE c # 0
  <2>1. /\ tail'[p].pc = "read" /\ tail'[p].events = Scan(bytes) /\ tail'[p].consumed = c
        /\ tail'[p].offset = r
    BY <1>1, <1>3, <1>4, <1>11 DEF TailType
  <2>2. r + c \in 0 .. Len(file) /\ c \in 1 .. Len(file) - r
    BY <1>5, <1>6, <1>7, <1>11
  <2>3. file[r + c] = Newline
    BY <1>6, <1>7, <2>2
  <2>4. SubSeq(bytes, 1, c) = SubSeq(file, r + 1, r + c)
    <3> DEFINE a == SubSeq(bytes, 1, c)
               b == SubSeq(file, r + 1, r + c)
    <3>1. a \in Seq(Unit) /\ Len(a) = c /\ \A i \in 1 .. c : a[i] = bytes[i]
      BY <1>6, <1>7, Cut
    <3>2. b \in Seq(Unit) /\ Len(b) = (r + c) - r /\ \A i \in 1 .. (r + c) - r : b[i] = file[r + i]
      <4>1. r \in 0 .. Len(file) /\ r + c \in r .. Len(file)
        BY <1>5, <2>2
      <4>2. QED BY <1>1, <4>1, Piece
    <3>3. (r + c) - r = c /\ \A i \in 1 .. c : i \in 1 .. Len(file) - r
      BY <1>5, <2>2
    <3> HIDE DEF a, b
    <3>4. a = b
      BY <1>6, <3>1, <3>2, <3>3, SeqEqual
    <3>5. QED BY <3>4 DEF a, b
  <2>5. LineEnd(r + c)
    BY <2>2, <2>3 DEF LineEnd
  <2>6. readBytes'[p] = r /\ file' = file
    BY <1>2 DEF r
  <2>7. LineEnd(readBytes[p] + tail[p].consumed)'
    BY <2>1, <2>5, <2>6 DEF LineEnd
  <2>8. tail'[p].events = Scan(SubSeq(file', readBytes'[p] + 1, readBytes'[p] + tail'[p].consumed))
    BY <1>8, <2>1, <2>4, <2>6
  <2>9. QED BY <1>9, <2>1, <2>6, <2>7, <2>8 DEF Polls
<1>12. QED BY <1>10, <1>11

\* The filter keeps all that a poll read, since no line is in the file twice, and the array
\* then is what the file says up to the new offset.
LEMMA MirrorIngest ==
    ASSUME FileAssumption, TypeOK, Once(file), NEW p \in Procs, Mirrors(p), Polls(p),
           TailIngest(p)
    PROVE  Mirrors(p)' /\ Polls(p)'
<1> DEFINE r == readBytes[p]
           c == tail[p].consumed
           a == SubSeq(file, 1, r)
           b == SubSeq(file, r + 1, r + c)
<1>1. /\ file \in Seq(Unit) /\ tail \in [Procs -> TailType] /\ store \in [Procs -> Seq(Id)]
      /\ readBytes \in [Procs -> Nat] /\ c \in Nat
  BY RecordTypes DEF TypeOK, TailType
<1>2. /\ tail[p].pc = "read" /\ UNCHANGED file
      /\ store' = [store EXCEPT ![p] = store[p] \o Fresh(tail[p].events, store[p])]
      /\ readBytes' = [readBytes EXCEPT ![p] = r + c]
      /\ tail' = [tail EXCEPT ![p] = NoTail]
  BY <1>1 DEF TailIngest
<1>3. LineEnd(r) /\ store[p] = Scan(a)
  BY DEF Mirrors
<1>4. LineEnd(r + c) /\ tail[p].events = Scan(b)
  BY <1>2 DEF Polls
<1>5. r \in 0 .. Len(file) /\ r + c \in r .. Len(file) /\ (r > 0 => file[r] = Newline)
  BY <1>1, <1>3, <1>4 DEF LineEnd
<1>6. a \in Seq(Unit) /\ Len(a) = r /\ \A i \in 1 .. r : a[i] = file[i]
  BY <1>1, <1>5, Cut
<1>7. b \in Seq(Unit) /\ Len(b) = (r + c) - r /\ \A i \in 1 .. (r + c) - r : b[i] = file[r + i]
  BY <1>1, <1>5, Piece
<1>8. a \o b = SubSeq(file, 1, r + c)
  <2>1. 1 \in 1 .. Len(file) + 1 /\ r \in 1 - 1 .. Len(file) /\ r + c \in r .. Len(file)
    BY <1>1, <1>5
  <2> HIDE DEF r, c
  <2>2. QED BY <1>1, <2>1, ConcatAdjacentSubSeq
<1>9. tail[p].events \in Seq(Id)
  BY RecordTypes
<1> HIDE DEF a, b
<1>10. Range(Scan(b)) \cap Range(Scan(a)) = {}
  <2>1. SUFFICES ASSUME NEW x \in Range(Scan(b)), x \in Range(Scan(a)) PROVE FALSE
    OBVIOUS
  <2>2. PICK i \in 1 .. r : a[i] = <<x, 2>>
    BY <1>6, <2>1, ScanType
  <2>3. PICK k \in 1 .. (r + c) - r : b[k] = <<x, 2>>
    BY <1>7, <2>1, ScanType
  <2>4. file[i] = <<x, 2>> /\ file[r + k] = <<x, 2>>
    BY <1>6, <1>7, <2>2, <2>3
  <2>5. i \in DOMAIN file /\ r + k \in DOMAIN file /\ i # r + k
    BY <1>1, <1>5
  <2>6. Half(file[i])
    BY <2>4 DEF Half, Newline
  <2>7. QED BY <2>4, <2>5, <2>6 DEF Once
<1>11. Fresh(tail[p].events, store[p]) = Scan(b)
  BY <1>3, <1>4, <1>9, <1>10, FreshIs
<1>12. Scan(a \o b) = Scan(a) \o Scan(b)
  <2>1. Len(a) > 0 => a[Len(a)] = Newline
    BY <1>5, <1>6
  <2>2. QED BY <1>6, <1>7, <2>1, ScanJoin
<1>13. store'[p] = Scan(SubSeq(file, 1, r + c)) /\ readBytes'[p] = r + c /\ tail'[p] = NoTail
  BY <1>1, <1>2, <1>3, <1>8, <1>11, <1>12
<1> HIDE DEF r, c
<1>14. LineEnd(readBytes[p])'
  BY <1>2, <1>4, <1>13 DEF LineEnd
<1>15. QED BY <1>2, <1>13, <1>14 DEF Mirrors, Polls, NoTail

\* A process that never appends mirrors the file after every step.
LEMMA MirrorStep ==
    ASSUME FileAssumption, TypeOK, RestInv, BootInv, UniqueInv, MirrorInv, [Next]_vars
    PROVE  MirrorInv'
<1>1. file \in Seq(Unit) /\ synced \in 0 .. Len(file) /\ Len(file) \in Nat
  BY DEF TypeOK
\* A step that leaves the file as it is moves at most one process.
<1>2. ASSUME UNCHANGED file, NEW q \in Procs \ Writers,
             \/ mode'[q] = "down"
             \/ /\ mode[q] # "down" /\ kept'[q] = kept[q] /\ tail'[q] = tail[q]
                /\ readBytes'[q] = readBytes[q] /\ store'[q] = store[q],
             mode'[q] # "down", ~kept'[q]
      PROVE  Mirrors(q)' /\ Polls(q)'
  <2>1. /\ Len(file) \in 0 .. Len(file) /\ Len(file) <= Len(file') /\ file' \in Seq(Unit)
        /\ \A i \in 1 .. Len(file) : file[i] = file'[i]
        /\ \A n \in 0 .. Len(file) : LineEnd(n) => n <= Len(file)
    BY <1>1, <1>2
  <2>2. QED BY <1>2, <2>1, MirrorFrame
<1>3. ASSUME UNCHANGED <<file, mode, kept, tail, readBytes, store>> PROVE MirrorInv'
  BY <1>2, <1>3 DEF MirrorInv
<1>4. CASE UNCHANGED vars
  BY <1>3, <1>4 DEF vars
<1>5. CASE Crash
  <2>1. Procs \in SUBSET Procs /\ Stop(Procs) /\ faults < MaxFaults
    BY <1>5 DEF Crash
  <2>2. \A q \in Procs : mode'[q] = "down"
    BY <2>1, StopIs
  <2>3. QED BY <2>2 DEF MirrorInv
<1>6. ASSUME NEW p \in Procs, Kill(p) PROVE MirrorInv'
  <2>1. {p} \in SUBSET Procs /\ Stop({p}) /\ faults < MaxFaults /\ UNCHANGED file
    BY <1>6 DEF Kill
  <2>2. /\ mode'[p] = "down"
        /\ \A q \in Procs \ {p} :
            /\ mode'[q] = mode[q] /\ store'[q] = store[q] /\ readBytes'[q] = readBytes[q]
            /\ tail'[q] = tail[q] /\ kept'[q] = kept[q]
    BY <2>1, StopIs
  <2>3. ASSUME NEW q \in Procs \ Writers, mode'[q] # "down", ~kept'[q]
        PROVE  Mirrors(q)' /\ Polls(q)'
    BY <1>2, <2>1, <2>2, <2>3
  <2>4. QED BY <2>3 DEF MirrorInv
<1>7. ASSUME NEW p \in Procs, Boot(p) PROVE MirrorInv'
  <2>1. /\ UNCHANGED <<file, tail>>
        /\ \A q \in Procs \ {p} :
            /\ mode'[q] = mode[q] /\ store'[q] = store[q] /\ readBytes'[q] = readBytes[q]
            /\ kept'[q] = kept[q]
    BY <1>7 DEF Boot, TypeOK
  <2>2. ASSUME NEW q \in Procs \ Writers, mode'[q] # "down", ~kept'[q]
        PROVE  Mirrors(q)' /\ Polls(q)'
    <3>1. CASE q = p
      BY <1>7, <2>2, <3>1, MirrorBoot
    <3>2. CASE q # p
      BY <1>2, <2>1, <2>2, <3>2
    <3>3. QED BY <3>1, <3>2
  <2>3. QED BY <2>2 DEF MirrorInv
<1>8. ASSUME NEW p \in Procs, BootTruncate(p) PROVE MirrorInv'
  <2> DEFINE c == Consumed(file)
  <2>1. /\ file' \in Seq(Unit) /\ Len(file') = c /\ \A i \in 1 .. c : file'[i] = file[i]
    BY <1>8, TruncateIs
  <2>2. c \in 0 .. Len(file) /\ \A n \in 1 .. Len(file) : file[n] = Newline => n <= c
    BY <1>1, ConsumedIs
  <2>3. /\ mode[p] = "boot" /\ UNCHANGED <<store, readBytes, tail, kept>>
        /\ \A q \in Procs \ {p} : mode'[q] = mode[q]
    BY <1>8 DEF BootTruncate, TypeOK
  <2> HIDE DEF c
  <2>4. \A n \in 0 .. Len(file) : LineEnd(n) => n <= c
    BY <1>1, <2>2 DEF LineEnd
  <2>5. c <= Len(file') /\ \A i \in 1 .. c : file[i] = file'[i]
    BY <2>1, <2>2
  <2>6. ASSUME NEW q \in Procs \ Writers, mode'[q] # "down", ~kept'[q]
        PROVE  Mirrors(q)' /\ Polls(q)'
    <3>1. mode[q] # "down"
      BY <2>3, <2>6
    <3>2. QED BY <2>1, <2>2, <2>3, <2>4, <2>5, <2>6, <3>1, MirrorFrame
  <2>7. QED BY <2>6 DEF MirrorInv
<1>9. ASSUME NEW p \in Procs, TailKnown(p) PROVE MirrorInv'
  <2>1. /\ UNCHANGED <<file, mode, kept, readBytes, store>>
        /\ tail' = [tail EXCEPT ![p] = [NoTail EXCEPT !.pc = "known", !.offset = readBytes[p]]]
    BY <1>9 DEF TailKnown
  <2>2. /\ tail'[p].pc = "known" /\ tail'[p].offset = readBytes[p]
        /\ \A q \in Procs \ {p} : tail'[q] = tail[q]
    BY <2>1 DEF TypeOK, NoTail
  <2>3. ASSUME NEW q \in Procs \ Writers, mode'[q] # "down", ~kept'[q]
        PROVE  Mirrors(q)' /\ Polls(q)'
    <3>1. CASE q = p
      <4>1. Mirrors(q)
        BY <2>1, <2>3 DEF MirrorInv
      <4>2. LineEnd(readBytes[q])' /\ store'[q] = Scan(SubSeq(file', 1, readBytes'[q]))
        BY <2>1, <4>1 DEF Mirrors, LineEnd
      <4>3. QED BY <2>1, <2>2, <3>1, <4>2 DEF Mirrors, Polls
    <3>2. CASE q # p
      BY <1>2, <2>1, <2>2, <2>3, <3>2
    <3>3. QED BY <3>1, <3>2
  <2>4. QED BY <2>3 DEF MirrorInv
<1>10. ASSUME NEW p \in Procs, TailRead(p) PROVE MirrorInv'
  <2>1. /\ UNCHANGED <<file, mode, kept, readBytes, store>>
        /\ \A q \in Procs \ {p} : tail'[q] = tail[q]
    BY <1>10 DEF TailRead, TypeOK
  <2>2. ASSUME NEW q \in Procs \ Writers, mode'[q] # "down", ~kept'[q]
        PROVE  Mirrors(q)' /\ Polls(q)'
    <3>1. CASE q = p
      BY <1>10, <2>1, <2>2, <3>1, MirrorRead DEF MirrorInv
    <3>2. CASE q # p
      BY <1>2, <2>1, <2>2, <3>2
    <3>3. QED BY <3>1, <3>2
  <2>3. QED BY <2>2 DEF MirrorInv
<1>11. ASSUME NEW p \in Procs, TailIngest(p) PROVE MirrorInv'
  <2>1. /\ UNCHANGED <<file, mode, kept>>
        /\ \A q \in Procs \ {p} :
            tail'[q] = tail[q] /\ readBytes'[q] = readBytes[q] /\ store'[q] = store[q]
    BY <1>11 DEF TailIngest, TypeOK
  <2>2. ASSUME NEW q \in Procs \ Writers, mode'[q] # "down", ~kept'[q]
        PROVE  Mirrors(q)' /\ Polls(q)'
    <3>1. CASE q = p
      BY <1>11, <2>1, <2>2, <3>1, MirrorIngest DEF MirrorInv, UniqueInv
    <3>2. CASE q # p
      BY <1>2, <2>1, <2>2, <3>2
    <3>3. QED BY <3>1, <3>2
  <2>3. QED BY <2>2 DEF MirrorInv
<1>12. ASSUME NEW p \in Procs, NEW f \in Fibers,
              \/ \E id \in Id : Stamp(p, f, id)
              \/ Open(p, f) \/ Sync(p, f) \/ Abandon(p, f)
       PROVE  MirrorInv'
  BY <1>3, <1>12 DEF Stamp, Open, Sync, Abandon
<1>13. ASSUME NEW p \in Procs, NEW f \in Fibers, WriteSome(p, f) PROVE MirrorInv'
  <2>1. PICK n \in 1 .. Len(job[p][f].rest) : file' = file \o SubSeq(job[p][f].rest, 1, n)
    BY <1>13 DEF WriteSome
  <2> DEFINE w == SubSeq(job[p][f].rest, 1, n)
  <2>2. w \in Seq(Unit)
    <3>1. job[p][f].rest \in Seq(Unit) /\ n \in 0 .. Len(job[p][f].rest)
      BY <2>1, RecordTypes
    <3>2. QED BY <3>1, Cut
  <2> HIDE DEF w
  <2>3. /\ file' \in Seq(Unit) /\ Len(file) <= Len(file')
        /\ \A i \in 1 .. Len(file) : file[i] = file'[i]
    <3>1. file' = file \o w
      BY <2>1 DEF w
    <3>2. QED BY <1>1, <2>2, <3>1
  <2>4. /\ Len(file) \in 0 .. Len(file)
        /\ \A m \in 0 .. Len(file) : LineEnd(m) => m <= Len(file)
    BY <1>1
  <2>5. UNCHANGED <<mode, kept, tail, readBytes, store>>
    BY <1>13 DEF WriteSome
  <2>6. ASSUME NEW q \in Procs \ Writers, mode'[q] # "down", ~kept'[q]
        PROVE  Mirrors(q)' /\ Polls(q)'
    BY <2>3, <2>4, <2>5, <2>6, MirrorFrame
  <2>7. QED BY <2>6 DEF MirrorInv
<1>14. ASSUME NEW p \in Procs, NEW f \in Fibers, Record(p, f) PROVE MirrorInv'
  <2>1. p \in Writers
    BY <1>14, Active DEF Record
  <2>2. /\ UNCHANGED <<file, mode, kept, tail>>
        /\ \A q \in Procs \ Writers : readBytes'[q] = readBytes[q] /\ store'[q] = store[q]
    BY <1>14, <2>1 DEF Record, TypeOK
  <2>3. ASSUME NEW q \in Procs \ Writers, mode'[q] # "down", ~kept'[q]
        PROVE  Mirrors(q)' /\ Polls(q)'
    BY <1>2, <2>2, <2>3
  <2>4. QED BY <2>3 DEF MirrorInv
<1>15. QED
  BY <1>4, <1>5, <1>6, <1>7, <1>8, <1>9, <1>10, <1>11, <1>12, <1>13, <1>14 DEF Next
----------------------------------------------------------------------------
\* The lines of an append stay in a file that stays the same up to the last line end.
LEMMA HoldsKept ==
    ASSUME NEW s \in Seq(Unit), NEW t \in Seq(Unit), NEW ids \in Seq(Id), NEW bound \in Int,
           bound <= Len(s), Holds(s, ids, bound),
           NEW c \in 0 .. Len(s), c <= Len(t), \A i \in 1 .. c : t[i] = s[i],
           NEW d \in Int, \A e \in 1 .. bound : s[e] = Newline => e <= c /\ e <= d
    PROVE  Holds(t, ids, d)
<1> DEFINE b == Buffer(ids)
           l == Len(b)
<1>1. b \in Seq(Unit) /\ l \in Nat /\ l > 0 /\ b[l] = Newline /\ DOMAIN b = 1 .. l
  BY BufferIs
<1>2. PICK n \in 0 .. Len(s) : n + l <= bound /\ \A i \in DOMAIN b : s[n + i] = b[i]
  BY DEF Holds
<1> HIDE DEF b, l
<1>3. n + l \in 1 .. bound /\ l \in DOMAIN b
  BY <1>1, <1>2
<1>4. n + l <= c /\ n + l <= d
  BY <1>1, <1>2, <1>3
<1>5. n \in 0 .. Len(t)
  BY <1>1, <1>4
<1>6. \A i \in DOMAIN b : n + i \in 1 .. c
  BY <1>1, <1>4
<1>7. \A i \in DOMAIN b : t[n + i] = b[i]
  BY <1>2, <1>6
<1>8. QED BY <1>4, <1>5, <1>7 DEF Holds, b, l

\* A step that writes nothing, and takes off the end of the file no line that counts,
\* leaves the acknowledged appends and the others where they were.
LEMMA AckFrame ==
    ASSUME TypeOK, TypeOK', AckInv, UNCHANGED acked,
           NEW c \in 0 .. Len(file), c <= Len(file'), \A i \in 1 .. c : file'[i] = file[i],
           \A e \in 1 .. synced : file[e] = Newline => e <= c /\ e <= synced',
           \A q \in Procs, g \in Fibers :
                \/ job'[q][g].pc \in {"idle", "stamp"}
                \/ /\ job'[q][g] = job[q][g]
                   /\ job[q][g].pc = "write" => UNCHANGED file
                   /\ job[q][g].pc = "sync" => \A e \in 1 .. Len(file) : file[e] = Newline => e <= c
    PROVE  AckInv'
<1>1. /\ file \in Seq(Unit) /\ synced \in Int /\ synced <= Len(file) /\ acked \subseteq Seq(Id)
      /\ file' \in Seq(Unit) /\ synced' \in Int /\ Len(file') \in Int /\ Len(file) \in Int
  BY DEF TypeOK
<1>2. \A ids \in acked' : Holds(file', ids, synced')
  <2>1. SUFFICES ASSUME NEW ids \in acked PROVE Holds(file', ids, synced')
    OBVIOUS
  <2>2. Holds(file, ids, synced) /\ ids \in Seq(Id)
    BY <1>1 DEF AckInv
  <2>3. QED BY <1>1, <2>2, HoldsKept
<1>3. ASSUME NEW q \in Procs, NEW g \in Fibers PROVE Written(job[q][g])'
  <2> DEFINE j == job[q][g]
  <2>1. Written(j) /\ j.ids \in Seq(Id)
    BY RecordTypes DEF AckInv
  <2>2. CASE job'[q][g].pc \in {"idle", "stamp"}
    BY <2>2 DEF Written
  <2>3. CASE job'[q][g] = j /\ j.pc = "write"
    <3>1. Underway(file, j.ids, j.rest) /\ file' = file
      BY <2>1, <2>3 DEF Written
    <3>2. Underway(file', j.ids, j.rest)
      BY <3>1
    <3>3. QED BY <2>3, <3>2 DEF Written
  <2>4. CASE job'[q][g] = j /\ j.pc = "sync"
    <3>1. Holds(file, j.ids, Len(file))
      BY <2>1, <2>4 DEF Written
    <3>2. \A e \in 1 .. Len(file) : file[e] = Newline => e <= c /\ e <= Len(file')
      BY <1>1, <2>4
    <3>3. Len(file) <= Len(file)
      BY <1>1
    <3>4. Holds(file', j.ids, Len(file'))
      BY <1>1, <2>1, <3>1, <3>2, <3>3, HoldsKept
    <3>5. QED BY <2>4, <3>4 DEF Written
  <2>5. CASE job'[q][g] = j /\ j.pc = "record"
    <3>1. Holds(file, j.ids, synced)
      BY <2>1, <2>5 DEF Written
    <3>2. Holds(file', j.ids, synced')
      BY <1>1, <2>1, <3>1, HoldsKept
    <3>3. QED BY <2>5, <3>2 DEF Written
  <2>6. CASE job'[q][g] = j /\ j.pc \notin {"write", "sync", "record"}
    BY <2>6 DEF Written
  <2>7. QED BY <2>2, <2>3, <2>4, <2>5, <2>6
<1>4. ASSUME NEW q \in Procs, NEW g \in Fibers, NEW h \in Fibers,
             job'[q][g].pc \in {"write", "sync"}, job'[q][h].pc \in {"write", "sync"}
      PROVE  g = h
  <2>1. job'[q][g] = job[q][g] /\ job'[q][h] = job[q][h]
    BY <1>4
  <2>2. QED BY <1>4, <2>1 DEF AckInv
<1>5. QED BY <1>2, <1>3, <1>4 DEF AckInv

\* An append starts with all of its lines yet to write.
LEMMA UnderwayFirst ==
    ASSUME NEW s \in Seq(Unit), NEW ids \in Seq(Id)
    PROVE  Underway(s, ids, Buffer(ids))
<1> DEFINE b == Buffer(ids)
           n == Len(s)
<1>1. b \in Seq(Unit) /\ Len(b) > 0 /\ DOMAIN b = 1 .. Len(b)
  BY BufferIs
<1>2. n \in Nat
  OBVIOUS
<1> HIDE DEF b, n
<1>3. b # <<>>
  BY <1>1
<1>4. \A i \in DOMAIN b : ~(n + i <= n) /\ (n + i) - n = i
  BY <1>1, <1>2
<1>5. \A i \in DOMAIN b : b[i] = IF n + i <= n THEN s[n + i] ELSE b[(n + i) - n]
  BY <1>4
<1>6. n \in 0 .. n
  BY <1>2
<1>7. QED BY <1>3, <1>5, <1>6 DEF Underway, b, n

\* A write takes lines from what is yet to write to the end of the file.
LEMMA UnderwayNext ==
    ASSUME NEW s \in Seq(Unit), NEW ids \in Seq(Id), NEW rest \in Seq(Unit),
           Underway(s, ids, rest), NEW k \in 1 .. Len(rest)
    PROVE  LET t == s \o SubSeq(rest, 1, k)
           IN  /\ k = Len(rest) => Holds(t, ids, Len(t))
               /\ k # Len(rest) => Underway(t, ids, From(rest, k))
<1> DEFINE b == Buffer(ids)
           w == SubSeq(rest, 1, k)
           t == s \o w
           v == From(rest, k)
           m == Len(s)
           l == Len(rest)
<1>1. b \in Seq(Unit) /\ DOMAIN b = 1 .. Len(b) /\ Len(b) \in Nat
  BY BufferIs
<1>2. m \in Nat /\ l \in Nat /\ k \in 1 .. l
  OBVIOUS
<1>3. /\ w \in Seq(Unit) /\ Len(w) = k /\ \A i \in 1 .. k : w[i] = rest[i]
      /\ v \in Seq(Unit) /\ Len(v) = l - k /\ \A i \in 1 .. l - k : v[i] = rest[k + i]
  <2>1. k \in 0 .. Len(rest)
    OBVIOUS
  <2>2. QED BY <2>1, Cut
<1> HIDE DEF b, w, v
<1>4. /\ t \in Seq(Unit) /\ Len(t) = m + k
      /\ \A i \in 1 .. m + k : t[i] = IF i <= m THEN s[i] ELSE w[i - m]
  BY <1>3, ConcatProperties
<1>5. PICK n \in 0 .. m :
        /\ n + Len(b) = m + l
        /\ \A i \in DOMAIN b : b[i] = IF n + i <= m THEN s[n + i] ELSE rest[(n + i) - m]
  BY DEF Underway, b
<1> HIDE DEF t, m, l
<1>6. ASSUME NEW i \in DOMAIN b, n + i <= m + k PROVE t[n + i] = b[i]
  <2>1. n + i \in 1 .. m + k
    BY <1>1, <1>2, <1>6
  <2>2. CASE n + i <= m
    BY <1>4, <1>5, <2>1, <2>2
  <2>3. CASE ~(n + i <= m)
    <3>1. (n + i) - m \in 1 .. k
      BY <1>2, <2>1, <2>3
    <3>2. QED BY <1>3, <1>4, <1>5, <2>1, <2>3, <3>1
  <2>4. QED BY <2>2, <2>3
<1>7. ASSUME k = l PROVE Holds(t, ids, Len(t))
  <2>1. n \in 0 .. Len(t) /\ n + Len(b) <= Len(t)
    BY <1>1, <1>2, <1>4, <1>5, <1>7
  <2>2. \A i \in DOMAIN b : n + i <= m + k
    BY <1>1, <1>2, <1>5, <1>7
  <2>3. \A i \in DOMAIN b : t[n + i] = b[i]
    BY <1>6, <2>2
  <2>4. QED BY <2>1, <2>3 DEF Holds, b
<1>8. ASSUME k # l PROVE Underway(t, ids, v)
  <2>0. /\ n \in Int /\ m \in Int /\ k \in Int /\ l \in Int /\ Len(b) \in Int
        /\ 0 <= n /\ n <= m /\ 1 <= k /\ k <= l /\ n + Len(b) = m + l
        /\ Len(t) = m + k /\ Len(v) = l - k
    BY <1>1, <1>2, <1>3, <1>4, <1>5
  <2>1. n \in 0 .. Len(t) /\ v # <<>> /\ n + Len(b) = Len(t) + Len(v)
    <3>1. Len(v) > 0
      BY <1>8, <2>0
    <3>2. v # <<>>
      BY <3>1
    <3>3. n \in 0 .. m + k /\ n + Len(b) = (m + k) + (l - k)
      BY <2>0
    <3>4. QED BY <2>0, <3>2, <3>3
  <2>2. ASSUME NEW i \in DOMAIN b, ~(n + i <= m + k) PROVE b[i] = v[(n + i) - (m + k)]
    <3>1. i \in Int /\ i <= Len(b)
      BY <1>1
    <3>2. /\ (n + i) - (m + k) \in 1 .. l - k /\ ~(n + i <= m)
          /\ k + ((n + i) - (m + k)) = (n + i) - m
      <4>1. n + i <= m + l
        BY <2>0, <3>1
      <4> DEFINE x == n + i
      <4>2. x \in Int /\ x <= m + l /\ ~(x <= m + k)
        BY <2>0, <2>2, <3>1, <4>1
      <4> HIDE DEF x
      <4>3. x - (m + k) \in 1 .. l - k /\ ~(x <= m) /\ k + (x - (m + k)) = x - m
        BY <2>0, <4>2
      <4>4. QED BY <4>3 DEF x
    <3>3. v[(n + i) - (m + k)] = rest[(n + i) - m]
      BY <1>3, <3>2
    <3>4. QED BY <1>5, <3>2, <3>3
  <2>3. \A i \in DOMAIN b : b[i] = IF n + i <= m + k THEN t[n + i] ELSE v[(n + i) - (m + k)]
    BY <1>6, <2>2
  <2>4. \A i \in DOMAIN b :
            b[i] = IF n + i <= Len(t) THEN t[n + i] ELSE v[(n + i) - Len(t)]
    BY <1>4, <2>3
  <2>5. QED BY <2>1, <2>4 DEF Underway, b
<1>9. QED BY <1>7, <1>8 DEF t, w, v, l

\* A step of the one process that appends: whatever its append writes or syncs, those
\* before it stay where they were.
LEMMA AckGrow ==
    ASSUME OneWriter, TypeOK, TypeOK', RestInv, AckInv,
           NEW p \in Writers, NEW f \in Fibers, NEW j \in JobType, p \in Procs, SetJob(p, f, j),
           Len(file) <= Len(file'), \A i \in 1 .. Len(file) : file'[i] = file[i],
           synced <= synced', \A ids \in acked' \ acked : Holds(file', ids, synced'),
           Written(j)',
           j.pc \in {"write", "sync"} =>
                \A g \in Fibers \ {f} : job[p][g].pc \notin {"write", "sync"},
           \/ UNCHANGED file
           \/ \A g \in Fibers \ {f} : job[p][g].pc # "write"
    PROVE  AckInv'
<1>1. /\ file \in Seq(Unit) /\ synced \in Int /\ synced <= Len(file) /\ acked \subseteq Seq(Id)
      /\ file' \in Seq(Unit) /\ synced' \in Int /\ Len(file') \in Int /\ Len(file) \in Int
      /\ Len(file) \in 0 .. Len(file) /\ synced' <= Len(file')
  <2>1. /\ file \in Seq(Unit) /\ synced \in 0 .. Len(file) /\ acked \subseteq Seq(Id)
        /\ file' \in Seq(Unit) /\ synced' \in 0 .. Len(file')
    BY DEF TypeOK
  <2>2. Len(file) \in Nat /\ Len(file') \in Nat
    BY <2>1
  <2>3. QED BY <2>1, <2>2
<1>2. /\ job'[p][f] = j
      /\ \A q \in Procs, g \in Fibers : q # p \/ g # f => job'[q][g] = job[q][g]
  BY JobSet
<1>3. \A ids \in Seq(Id) : Holds(file, ids, synced) => Holds(file', ids, synced')
  <2>1. SUFFICES ASSUME NEW ids \in Seq(Id), Holds(file, ids, synced)
                 PROVE  Holds(file', ids, synced')
    OBVIOUS
  <2>2. \A e \in 1 .. synced : file[e] = Newline => e <= Len(file) /\ e <= synced'
    BY <1>1
  <2>3. QED BY <1>1, <2>1, <2>2, HoldsKept
<1>4. \A ids \in Seq(Id) : Holds(file, ids, Len(file)) => Holds(file', ids, Len(file'))
  <2>1. SUFFICES ASSUME NEW ids \in Seq(Id), Holds(file, ids, Len(file))
                 PROVE  Holds(file', ids, Len(file'))
    OBVIOUS
  <2>2. /\ \A e \in 1 .. Len(file) : file[e] = Newline => e <= Len(file) /\ e <= Len(file')
        /\ Len(file) <= Len(file)
    BY <1>1
  <2>3. QED BY <1>1, <2>1, <2>2, HoldsKept
<1>5. \A ids \in acked' : Holds(file', ids, synced')
  BY <1>1, <1>3 DEF AckInv
<1>6. ASSUME NEW q \in Procs, NEW g \in Fibers PROVE Written(job[q][g])'
  <2>1. CASE q = p /\ g = f
    BY <1>2, <2>1 DEF Written
  <2>2. CASE q # p
    <3>1. job[q][g] = NoJob
      BY <2>2 DEF RestInv, OneWriter
    <3>2. job'[q][g].pc = "idle"
      BY <1>2, <2>2, <3>1 DEF NoJob
    <3>3. QED BY <3>2 DEF Written
  <2>3. CASE q = p /\ g # f
    <3> DEFINE k == job[q][g]
    <3>1. Written(k) /\ k.ids \in Seq(Id) /\ job'[q][g] = k
      BY <1>2, <2>3, RecordTypes DEF AckInv
    <3>2. k.pc = "write" => UNCHANGED file
      BY <2>3
    <3>3. k.pc = "write" => Underway(file', k.ids, k.rest)
      BY <3>1, <3>2 DEF Written
    <3>4. k.pc = "sync" => Holds(file', k.ids, Len(file'))
      BY <1>4, <3>1 DEF Written
    <3>5. k.pc = "record" => Holds(file', k.ids, synced')
      BY <1>3, <3>1 DEF Written
    <3>6. QED BY <3>1, <3>3, <3>4, <3>5 DEF Written
  <2>4. QED BY <2>1, <2>2, <2>3
<1>7. ASSUME NEW q \in Procs, NEW g \in Fibers, NEW h \in Fibers,
             job'[q][g].pc \in {"write", "sync"}, job'[q][h].pc \in {"write", "sync"}
      PROVE  g = h
  <2>1. CASE q # p
    BY <1>2, <1>7, <2>1 DEF AckInv
  <2>2. CASE q = p /\ g # f /\ h # f
    BY <1>2, <1>7, <2>2 DEF AckInv
  <2>3. CASE q = p /\ (g = f \/ h = f)
    BY <1>2, <1>7, <2>3
  <2>4. QED BY <2>1, <2>2, <2>3
<1>8. QED BY <1>5, <1>6, <1>7 DEF AckInv

\* Every step keeps what was acknowledged, and what an append has written, when one
\* process appends and none scans the file meanwhile.
LEMMA AckStep ==
    ASSUME FileAssumption, StaticBoot, OneWriter, TypeOK, TypeOK', RestInv, BootInv, AckInv,
           [Next]_vars
    PROVE  AckInv'
<1>1. /\ file \in Seq(Unit) /\ synced \in 0 .. Len(file) /\ Len(file) \in Nat
      /\ \A e \in 1 .. Len(file) : e <= Len(file)
      /\ Len(file) \in 0 .. Len(file) /\ Len(file) <= Len(file)
  BY DEF TypeOK
\* A step that writes nothing and goes on with no append.
<1>2. ASSUME UNCHANGED <<file, synced, acked>>,
             \A q \in Procs, g \in Fibers :
                job'[q][g] = job[q][g] \/ job'[q][g].pc \in {"idle", "stamp"}
      PROVE  AckInv'
  <2>1. /\ Len(file) <= Len(file') /\ \A i \in 1 .. Len(file) : file'[i] = file[i]
        /\ \A e \in 1 .. synced : file[e] = Newline => e <= Len(file) /\ e <= synced'
        /\ UNCHANGED <<file, acked>> /\ \A e \in 1 .. Len(file) : e <= Len(file)
    BY <1>1, <1>2
  <2>2. Len(file) \in 0 .. Len(file)
    BY <1>1
  <2>3. \A q \in Procs, g \in Fibers :
            \/ job'[q][g].pc \in {"idle", "stamp"}
            \/ /\ job'[q][g] = job[q][g]
               /\ job[q][g].pc = "write" => UNCHANGED file
               /\ job[q][g].pc = "sync" =>
                    \A e \in 1 .. Len(file) : file[e] = Newline => e <= Len(file)
    BY <1>2, <2>1
  <2>4. QED BY <2>1, <2>2, <2>3, AckFrame
<1>3. CASE UNCHANGED vars
  BY <1>2, <1>3 DEF vars
<1>4. CASE Crash
  <2>1. Procs \in SUBSET Procs /\ Stop(Procs) /\ faults < MaxFaults /\ UNCHANGED acked
    BY <1>4 DEF Crash
  <2>2. \A q \in Procs, g \in Fibers : job'[q][g].pc = "idle"
    BY <2>1, StopIs DEF NoJob
  <2>3. PICK n \in synced .. Len(file) : file' = SubSeq(file, 1, n) /\ synced' = n
    BY <1>4 DEF Crash
  <2>4. n \in 0 .. Len(file) /\ synced <= n
    BY <1>1, <2>3
  <2>5. Len(file') = n /\ \A i \in 1 .. n : file'[i] = file[i]
    BY <1>1, <2>3, <2>4, Cut
  <2>6. n <= Len(file') /\ \A e \in 1 .. synced : file[e] = Newline => e <= n /\ e <= synced'
    BY <1>1, <2>3, <2>4, <2>5
  <2>7. QED BY <2>1, <2>2, <2>4, <2>5, <2>6, AckFrame
<1>5. ASSUME NEW p \in Procs, Kill(p) PROVE AckInv'
  <2>1. {p} \in SUBSET Procs /\ Stop({p}) /\ faults < MaxFaults
        /\ UNCHANGED <<file, synced, acked>>
    BY <1>5 DEF Kill
  <2>2. /\ \A g \in Fibers : job'[p][g] = NoJob
        /\ \A q \in Procs \ {p} : job'[q] = job[q]
    BY <2>1, StopIs
  <2>3. \A q \in Procs, g \in Fibers :
            job'[q][g] = job[q][g] \/ job'[q][g].pc \in {"idle", "stamp"}
    BY <2>2 DEF NoJob
  <2>4. QED BY <1>2, <2>1, <2>3
<1>6. ASSUME NEW p \in Procs, Boot(p) \/ TailKnown(p) \/ TailRead(p) \/ TailIngest(p)
      PROVE  AckInv'
  BY <1>2, <1>6 DEF Boot, TailKnown, TailRead, TailIngest
<1>7. ASSUME NEW p \in Procs, BootTruncate(p) PROVE AckInv'
  <2> DEFINE c == Consumed(file)
  <2>1. /\ Len(file') = c /\ \A i \in 1 .. c : file'[i] = file[i]
        /\ \A n \in 0 .. synced : n <= c => n <= synced'
    BY <1>7, TruncateIs
  <2>2. c \in 0 .. Len(file) /\ \A n \in 1 .. Len(file) : file[n] = Newline => n <= c
    BY <1>1, ConsumedIs
  <2>3. mode[p] = "boot" /\ UNCHANGED <<acked, job>>
    BY <1>7 DEF BootTruncate
  <2>4. \A q \in Procs, g \in Fibers : job[q][g].pc # "write"
    BY <2>3 DEF BootInv, Writing
  <2> HIDE DEF c
  <2>5. \A e \in 1 .. synced : file[e] = Newline => e <= c /\ e <= synced'
    <3>1. SUFFICES ASSUME NEW e \in 1 .. synced, file[e] = Newline
                   PROVE  e <= c /\ e <= synced'
      OBVIOUS
    <3>2. e \in 1 .. Len(file) /\ e \in 0 .. synced
      BY <1>1, <3>1
    <3>3. QED BY <2>1, <2>2, <3>1, <3>2
  <2>6. c <= Len(file')
    BY <2>1, <2>2
  <2>7. QED BY <2>1, <2>2, <2>3, <2>4, <2>5, <2>6, AckFrame
<1>8. ASSUME NEW p \in Procs, NEW f \in Fibers,
             (\E id \in Id : Stamp(p, f, id)) \/ Abandon(p, f)
      PROVE  AckInv'
  <2>1. UNCHANGED <<file, synced, acked>>
    BY <1>8 DEF Stamp, Abandon
  <2>2. PICK j \in JobType : SetJob(p, f, j) /\ j.pc \in {"idle", "stamp"}
    BY <1>8, JobSteps, RestTypes DEF Abandon, NoJob
  <2>3. \A q \in Procs, g \in Fibers :
            job'[q][g] = job[q][g] \/ job'[q][g].pc \in {"idle", "stamp"}
    BY <2>2, JobSet
  <2>4. QED BY <1>2, <2>1, <2>3
<1>9. ASSUME NEW p \in Procs, NEW f \in Fibers, Open(p, f) PROVE AckInv'
  <2>1. /\ UNCHANGED <<file, synced, acked>> /\ p \in Writers
        /\ \A g \in Fibers : job[p][g].pc \notin {"write", "sync"}
    BY <1>9 DEF Open, WriterLocked
  <2>2. PICK j \in JobType :
            SetJob(p, f, j) /\ j.pc = "write" /\ j.ids = job[p][f].ids /\ j.rest = Buffer(j.ids)
    BY <1>9, JobSteps
  <2>3. j.ids \in Seq(Id)
    BY <2>2, RecordTypes
  <2>4. Underway(file, j.ids, j.rest)
    BY <1>1, <2>2, <2>3, UnderwayFirst
  <2>5. Written(j)'
    BY <2>1, <2>2, <2>4 DEF Written
  <2>6. /\ Len(file) <= Len(file') /\ \A i \in 1 .. Len(file) : file'[i] = file[i]
        /\ synced <= synced' /\ \A ids \in acked' \ acked : Holds(file', ids, synced')
    BY <1>1, <2>1
  <2>7. QED BY <2>1, <2>2, <2>5, <2>6, AckGrow
<1>10. ASSUME NEW p \in Procs, NEW f \in Fibers, WriteSome(p, f) PROVE AckInv'
  <2> DEFINE old == job[p][f]
  <2>1. UNCHANGED <<synced, acked>> /\ old.pc = "write" /\ p \in Writers
    BY <1>10, Active DEF WriteSome
  <2>2. old.ids \in Seq(Id) /\ old.rest \in Seq(Unit) /\ Underway(file, old.ids, old.rest)
    BY <2>1, RecordTypes DEF AckInv, Written
  <2> HIDE DEF old
  <2>3. PICK n \in 1 .. Len(old.rest), j \in JobType :
            /\ SetJob(p, f, j) /\ j.ids = old.ids /\ j.rest = From(old.rest, n)
            /\ j.pc = IF n = Len(old.rest) THEN "sync" ELSE "write"
            /\ file' = file \o SubSeq(old.rest, 1, n)
    BY <1>10, JobSteps DEF old
  <2>4. /\ n = Len(old.rest) => Holds(file', old.ids, Len(file'))
        /\ n # Len(old.rest) => Underway(file', old.ids, From(old.rest, n))
    BY <1>1, <2>2, <2>3, UnderwayNext
  <2>5. Written(j)'
    BY <2>3, <2>4 DEF Written
  <2>6. /\ Len(file) <= Len(file') /\ \A i \in 1 .. Len(file) : file'[i] = file[i]
        /\ synced <= synced' /\ \A ids \in acked' \ acked : Holds(file', ids, synced')
    <3>1. SubSeq(old.rest, 1, n) \in Seq(Unit) /\ n \in Nat /\ Len(SubSeq(old.rest, 1, n)) = n
      <4>1. n \in 0 .. Len(old.rest) /\ n \in Nat
        BY <2>2
      <4>2. QED BY <2>2, <4>1, Cut
    <3> DEFINE w == SubSeq(old.rest, 1, n)
    <3>2. w \in Seq(Unit) /\ Len(w) \in Nat /\ file' = file \o w
      BY <2>3, <3>1
    <3> HIDE DEF w
    <3>3. /\ Len(file') = Len(file) + Len(w)
          /\ \A i \in 1 .. Len(file) : file'[i] = file[i]
      BY <1>1, <3>2
    <3>4. synced \in Int /\ Len(file) <= Len(file')
      BY <1>1, <3>2, <3>3
    <3>5. QED BY <2>1, <3>3, <3>4
  <2>7. \A g \in Fibers \ {f} : job[p][g].pc \notin {"write", "sync"}
    BY <2>1 DEF AckInv, old
  <2>8. QED BY <2>1, <2>3, <2>5, <2>6, <2>7, AckGrow
<1>11. ASSUME NEW p \in Procs, NEW f \in Fibers, Sync(p, f) PROVE AckInv'
  <2> DEFINE old == job[p][f]
  <2>1. UNCHANGED <<file, acked>> /\ synced' = Len(file) /\ old.pc = "sync" /\ p \in Writers
    BY <1>11, Active DEF Sync
  <2>2. PICK j \in JobType : SetJob(p, f, j) /\ j.pc = "record" /\ j.ids = old.ids
    BY <1>11, JobSteps
  <2>3. Holds(file, old.ids, Len(file))
    BY <2>1 DEF AckInv, Written
  <2>4. Written(j)'
    BY <2>1, <2>2, <2>3 DEF Written
  <2>5. /\ Len(file) <= Len(file') /\ \A i \in 1 .. Len(file) : file'[i] = file[i]
        /\ synced <= synced' /\ \A ids \in acked' \ acked : Holds(file', ids, synced')
    BY <1>1, <2>1
  <2>6. QED BY <2>1, <2>2, <2>4, <2>5, AckGrow
<1>12. ASSUME NEW p \in Procs, NEW f \in Fibers, Record(p, f) PROVE AckInv'
  <2> DEFINE old == job[p][f]
  <2>1. /\ UNCHANGED <<file, synced>> /\ acked' = acked \cup {old.ids}
        /\ old.pc = "record" /\ p \in Writers
    BY <1>12, Active DEF Record
  <2>2. SetJob(p, f, NoJob) /\ NoJob \in JobType
    BY <1>12, RestTypes DEF Record
  <2>3. Holds(file, old.ids, synced)
    BY <2>1 DEF AckInv, Written
  <2>4. Written(NoJob)' /\ NoJob.pc = "idle"
    BY DEF Written, NoJob
  <2>5. /\ Len(file) <= Len(file') /\ \A i \in 1 .. Len(file) : file'[i] = file[i]
        /\ synced <= synced' /\ \A ids \in acked' \ acked : Holds(file', ids, synced')
    BY <1>1, <2>1, <2>3
  <2>6. QED BY <2>1, <2>2, <2>4, <2>5, AckGrow
<1>13. QED
  BY <1>3, <1>4, <1>5, <1>6, <1>7, <1>8, <1>9, <1>10, <1>11, <1>12 DEF Next
----------------------------------------------------------------------------
\* The program starts with an empty file and no process.
LEMMA InitInv ==
    ASSUME FileAssumption, Init
    PROVE  IInv /\ AckInv
<1>1. /\ file = <<>> /\ synced = 0 /\ made = {} /\ acked = {} /\ calls = 0 /\ faults = 0
      /\ \A p \in Procs :
            /\ mode[p] = "down" /\ tail[p] = NoTail
            /\ \A f \in Fibers : job[p][f] = NoJob
  BY DEF Init
<1>2. TypeOK
  <2>1. file \in Seq(Unit) /\ Len(file) = 0
    BY <1>1
  <2>2. /\ synced \in 0 .. Len(file) /\ made \subseteq Id /\ acked \subseteq Seq(Id)
        /\ calls \in 0 .. MaxCalls /\ faults \in 0 .. MaxFaults
    BY <1>1, <2>1 DEF FileAssumption
  <2>3. /\ mode \in [Procs -> {"down", "boot", "up"}] /\ store \in [Procs -> Seq(Id)]
        /\ readBytes \in [Procs -> Nat] /\ last \in [Procs -> 0 .. MaxId]
        /\ kept \in [Procs -> BOOLEAN]
    BY DEF Init, FileAssumption
  <2>4. tail \in [Procs -> TailType] /\ job \in [Procs -> [Fibers -> JobType]]
    BY RestTypes DEF Init
  <2>5. QED BY <2>1, <2>2, <2>3, <2>4 DEF TypeOK, TailType, JobType
<1>3. RestInv /\ BootInv /\ MirrorInv
  BY <1>1 DEF RestInv, BootInv, MirrorInv
<1>4. UniqueInv
  <2>1. DOMAIN file = {} /\ Once(file)
    BY <1>1 DEF Once
  <2>2. NoJob.ids = <<>> /\ NoJob.pc = "idle" /\ Range(NoJob.ids) = {} /\ DOMAIN NoJob.ids = {}
    BY DEF NoJob, Range
  <2>3. \A p \in Procs, f \in Fibers : Owns(job[p][f])
    BY <1>1, <2>2 DEF Owns
  <2>4. Apart
    BY <1>1, <2>2 DEF Apart
  <2>5. QED BY <2>1, <2>3, <2>4 DEF UniqueInv
<1>5. AckInv
  BY <1>1 DEF AckInv, Written, NoJob
<1>6. QED BY <1>2, <1>3, <1>4, <1>5 DEF IInv

\* The invariant of every build that scans the file while no append is under way.
LEMMA InvStep ==
    ASSUME FileAssumption, StaticBoot, IInv, [Next]_vars
    PROVE  IInv'
  BY TypeStep, RestStep, BootStep, UniqueStep, MirrorStep DEF IInv

\* It holds in every state.
LEMMA Invariance == ASSUME StaticBoot PROVE Spec => []IInv
<1>1. Init => IInv
  BY FileAssumption, InitInv
<1>2. IInv /\ [Next]_vars => IInv'
  BY FileAssumption, InvStep
<1>3. QED BY <1>1, <1>2, PTL DEF Spec

\* Every variable keeps its type; in particular an fsync never covers more than the file
\* has, through any truncation.
THEOREM FileTypes == ASSUME StaticBoot PROVE Spec => []TypeOK
<1>1. IInv => TypeOK
  BY DEF IInv
<1>2. QED BY <1>1, Invariance, PTL

\* A process that never appends has in its array what the file's lines up to its offset
\* decode to, each once and in order: scan, poll, the truncation of another process and
\* its own boot all agree on where a line ends.
THEOREM MirrorsTheFile == ASSUME StaticBoot PROVE Spec => []MirrorsFile
<1>1. ASSUME IInv PROVE MirrorsFile
  <2>1. SUFFICES ASSUME NEW p \in Procs \ Writers, mode[p] # "down", ~kept[p]
                 PROVE  LET seen == SubSeq(file, 1, readBytes[p])
                        IN  /\ readBytes[p] <= Len(file) /\ Consumed(seen) = readBytes[p]
                            /\ store[p] = Scan(seen)
    BY DEF MirrorsFile
  <2> DEFINE c == readBytes[p]
             seen == SubSeq(file, 1, c)
  <2>2. file \in Seq(Unit) /\ LineEnd(c) /\ store[p] = Scan(seen)
    BY <1>1, <2>1 DEF IInv, TypeOK, MirrorInv, Mirrors
  <2> HIDE DEF c
  <2>3. c \in 0 .. Len(file) /\ (c > 0 => file[c] = Newline)
    BY <2>2 DEF LineEnd
  <2>4. seen \in Seq(Unit) /\ Len(seen) = c /\ \A i \in 1 .. c : seen[i] = file[i]
    BY <2>2, <2>3, Cut
  <2> HIDE DEF seen
  <2>5. /\ c \in 0 .. Len(seen) /\ (c > 0 => seen[c] = Newline)
        /\ \A n \in 1 .. Len(seen) : seen[n] = Newline => n <= c
    <3>1. c > 0 => c \in 1 .. c
      BY <2>3
    <3>2. QED BY <2>3, <2>4, <3>1
  <2>6. Consumed(seen) = c
    BY <2>4, <2>5, ConsumedAt
  <2>7. c <= Len(file)
    BY <2>2, <2>3
  <2>8. QED BY <2>2, <2>6, <2>7 DEF c, seen
<1>2. IInv => MirrorsFile
  BY <1>1
<1>3. QED BY <1>2, Invariance, PTL

\* No half of an event's line is in the file twice, whatever is killed, truncated or
\* written in pieces: a process that polls can never take an event in a second time.
THEOREM WrittenOnce == ASSUME StaticBoot PROVE Spec => []Once(file)
<1>1. IInv => Once(file)
  BY DEF IInv, UniqueInv
<1>2. QED BY <1>1, Invariance, PTL

\* What append has acknowledged is in the file in one piece from then on, through torn
\* writes, kills, crashes and truncations, when one process appends and none scans the
\* file meanwhile.
THEOREM AckedStays == ASSUME StaticBoot, OneWriter PROVE Spec => []AckedOnDisk
<1>1. Init => IInv /\ AckInv
  BY FileAssumption, InitInv
<1>2. IInv /\ AckInv /\ [Next]_vars => (IInv /\ AckInv)'
  <2>1. SUFFICES ASSUME IInv, AckInv, [Next]_vars PROVE IInv' /\ AckInv'
    OBVIOUS
  <2>2. IInv'
    BY <2>1, FileAssumption, InvStep
  <2>3. QED BY <2>1, <2>2, FileAssumption, AckStep DEF IInv
<1>3. ASSUME IInv, AckInv PROVE AckedOnDisk
  <2>1. file \in Seq(Unit) /\ synced \in 0 .. Len(file) /\ acked \subseteq Seq(Id)
    BY <1>3 DEF IInv, TypeOK
  <2>2. SUFFICES ASSUME NEW ids \in acked
                 PROVE  \E n \in 0 .. Len(file) - Len(Buffer(ids)) :
                            SubSeq(file, n + 1, n + Len(Buffer(ids))) = Buffer(ids)
    BY DEF AckedOnDisk
  <2> DEFINE b == Buffer(ids)
             l == Len(b)
  <2>3. b \in Seq(Unit) /\ l \in Nat /\ DOMAIN b = 1 .. l
    BY <2>1, BufferIs
  <2>4. PICK n \in 0 .. Len(file) : n + l <= synced /\ \A i \in DOMAIN b : file[n + i] = b[i]
    BY <1>3 DEF AckInv, Holds
  <2> HIDE DEF b
  <2>5. n \in 0 .. Len(file) - l /\ n + l \in n .. Len(file) /\ (n + l) - n = l
    BY <2>1, <2>3, <2>4
  <2> DEFINE piece == SubSeq(file, n + 1, n + l)
  <2>6. /\ piece \in Seq(Unit) /\ Len(piece) = l
        /\ \A i \in 1 .. l : piece[i] = file[n + i]
    BY <2>1, <2>5, Piece
  <2> HIDE DEF piece, l
  <2>7. piece = b
    <3>1. Len(b) = l /\ \A i \in 1 .. l : piece[i] = b[i]
      BY <2>3, <2>4, <2>6 DEF l
    <3>2. QED BY <2>3, <2>6, <3>1, SeqEqual
  <2>8. QED BY <2>5, <2>7 DEF piece, b, l
<1>4. IInv /\ AckInv => AckedOnDisk
  BY <1>3
<1>5. QED BY <1>1, <1>2, <1>4, PTL DEF Spec
=============================================================================
