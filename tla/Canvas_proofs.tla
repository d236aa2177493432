---------------------------- MODULE Canvas_proofs ----------------------------
(***************************************************************************)
(* Proofs about Canvas, for any pages, shapes, notes and casts, and any    *)
(* number of changes, openings, model calls and faults.                    *)
(***************************************************************************)
EXTENDS Canvas, FiniteSetTheorems, FunctionTheorems, WellFoundedInduction, TLAPS

\* f lists the members of S, each once.
Lists(f, S) ==
    \E k \in Nat :
        /\ f \in [1 .. k -> S]
        /\ \A i, j \in 1 .. k : f[i] = f[j] => i = j
        /\ \A x \in S : \E i \in 1 .. k : f[i] = x

\* SetToSeq finds such a list of every finite set.
LEMMA SetToSeqLists == ASSUME NEW S, IsFiniteSet(S) PROVE Lists(SetToSeq(S), S)
<1> DEFINE k == Cardinality(S)
<1>1. k \in Nat /\ ExistsBijection(1 .. k, S)
  BY FS_CardinalityType
<1>2. PICK g : g \in Bijection(1 .. k, S)
  BY <1>1 DEF ExistsBijection
<1>3. g \in [1 .. k -> S] /\ IsInjective(g)
  BY <1>2 DEF Bijection, Injection
<1> DEFINE f == SetToSeq(S)
<1>4. f \in [1 .. k -> S] /\ IsInjective(f)
  BY <1>3 DEF SetToSeq
<1>5. \A i, j \in 1 .. k : f[i] = f[j] => i = j
  BY <1>4 DEF IsInjective
<1>6. f \in Injection(1 .. k, S)
  BY <1>4, <1>5, Fun_IsInj
<1>7. Cardinality(1 .. k) = k
  BY <1>1, FS_Interval
<1>8. f \in Surjection(1 .. k, S)
  BY <1>6, <1>7, FS_Injection
<1>9. \A x \in S : \E i \in 1 .. k : f[i] = x
  BY <1>8 DEF Surjection
<1> HIDE DEF f, k
<1>10. Lists(f, S)
  BY <1>1, <1>4, <1>5, <1>9 DEF Lists
<1>11. QED BY <1>10 DEF f

\* What the agent appends for a set of notes: one entry for each, and nothing else.
Pins(b, op, notes) ==
    /\ b \in Seq(Entry)
    /\ \A i \in DOMAIN b :
          b[i].by = Agent /\ b[i].shape \in notes /\ b[i].edit = 1 /\ b[i].op = op
    /\ \A i, j \in DOMAIN b : b[i].shape = b[j].shape => i = j
    /\ \A n \in notes : \E i \in DOMAIN b : b[i].shape = n

\* Each entry of them is the agent's.
LEMMA PinsEntry ==
    ASSUME NEW b, NEW op, NEW notes, Pins(b, op, notes), NEW i \in DOMAIN b
    PROVE  b[i].by = Agent /\ b[i].shape \in notes /\ b[i].edit = 1 /\ b[i].op = op
  BY DEF Pins

\* Batch appends each note once.
LEMMA BatchPins ==
    ASSUME NEW notes \in SUBSET Notes, IsFiniteSet(notes), NEW op \in {"put", "del"}
    PROVE  Pins(Batch(op, notes), op, notes)
<1> DEFINE e(n) == [by |-> Agent, shape |-> n, edit |-> 1, op |-> op, beside |-> {}]
           S == {e(n) : n \in notes}
           g == [n \in notes |-> e(n)]
           b == Batch(op, notes)
<1>1. g \in [notes -> S] /\ \A x \in S : \E n \in notes : g[n] = x
  OBVIOUS
<1>2. IsFiniteSet(S)
  BY <1>1, Fun_IsSurj, FS_Surjection
<1>3. Lists(b, S)
  BY <1>2, SetToSeqLists DEF Batch
<1>4. \A x \in S : /\ x \in Entry /\ x.by = Agent /\ x.shape \in notes /\ x.edit = 1
                   /\ x.op = op /\ x = e(x.shape)
  BY DEF Entry, Things, Edit
<1>5. \A n \in notes : e(n) \in S /\ e(n).shape = n
  OBVIOUS
<1> HIDE DEF e, S, b
<1>6. PICK k \in Nat : /\ b \in [1 .. k -> S]
                       /\ \A i, j \in 1 .. k : b[i] = b[j] => i = j
                       /\ \A x \in S : \E i \in 1 .. k : b[i] = x
  BY <1>3 DEF Lists
<1>7. DOMAIN b = 1 .. k /\ \A i \in 1 .. k : b[i] \in S
  BY <1>6
<1>8. b \in Seq(Entry)
  BY <1>4, <1>6, <1>7
<1>9. \A i, j \in DOMAIN b : b[i].shape = b[j].shape => i = j
  BY <1>4, <1>6, <1>7
<1>10. Pins(b, op, notes)
  BY <1>4, <1>5, <1>6, <1>7, <1>8, <1>9 DEF Pins
<1>11. QED BY <1>10 DEF b
----------------------------------------------------------------------------
\* How the log grows.

\* Every entry of s is where it was in t.
Extends(s, t) ==
    /\ t \in Seq(Entry) /\ Len(s) \in Nat /\ Len(t) \in Nat /\ Len(s) <= Len(t)
    /\ DOMAIN s = 1 .. Len(s) /\ DOMAIN t = 1 .. Len(t)
    /\ \A i \in DOMAIN s : t[i] = s[i]

\* One entry is appended by Land.
LEMMA Appended ==
    ASSUME NEW s \in Seq(Entry), NEW e \in Entry, NEW t, t = Append(s, e)
    PROVE  Extends(s, t) /\ Len(t) = Len(s) + 1 /\ t[Len(s) + 1] = e
  BY DEF Extends

\* t is s and b one after the other.
Joins(s, b, t) ==
    /\ Extends(s, t) /\ Len(t) = Len(s) + Len(b) /\ Len(b) \in Nat /\ DOMAIN b = 1 .. Len(b)
    /\ \A i \in DOMAIN b : Len(s) + i \in DOMAIN t /\ t[Len(s) + i] = b[i]
    /\ \A i \in DOMAIN t : i > Len(s) => i - Len(s) \in DOMAIN b /\ t[i] = b[i - Len(s)]

\* The entries of a concatenation.
LEMMA Joined ==
    ASSUME NEW s \in Seq(Entry), NEW b \in Seq(Entry), NEW t, t = s \o b
    PROVE  Joins(s, b, t)
  BY DEF Extends, Joins

\* Every entry of a concatenation is one of the two parts'.
LEMMA Split ==
    ASSUME NEW d \in Seq(Entry), NEW u \in Seq(Entry)
    PROVE  \A i \in DOMAIN (d \o u) :
               \/ i \in DOMAIN d /\ (d \o u)[i] = d[i]
               \/ i - Len(d) \in DOMAIN u /\ (d \o u)[i] = u[i - Len(d)]
  OBVIOUS
----------------------------------------------------------------------------
\* What the steps do to the changes of the users: those that wait, those under way, the log.

\* One cell of a table over pages is replaced.
LEMMA Cell ==
    ASSUME NEW D, NEW f \in [Pages -> [D -> Nat]], NEW p \in Pages, NEW s \in D, NEW v \in Nat,
           NEW g, g = [f EXCEPT ![p][s] = v]
    PROVE  /\ g \in [Pages -> [D -> Nat]]
           /\ \A q \in Pages, t \in D : g[q][t] = IF q = p /\ t = s THEN v ELSE f[q][t]
<1>1. [f[p] EXCEPT ![s] = v] \in [D -> Nat]
  OBVIOUS
<1>2. g = [f EXCEPT ![p] = [f[p] EXCEPT ![s] = v]]
  OBVIOUS
<1>3. QED BY <1>1, <1>2

\* The row of one page is replaced.
LEMMA Row ==
    ASSUME NEW V, NEW f \in [Pages -> V], NEW p \in Pages, NEW v \in V,
           NEW g, g = [f EXCEPT ![p] = v]
    PROVE  /\ g \in [Pages -> V]
           /\ g[p] = v /\ \A q \in Pages : q # p => g[q] = f[q]
  OBVIOUS

\* Nothing happens to them.
Kept == UNCHANGED <<log, pending, flight, edits>>

Drawn(p, s) ==
    /\ p \in up /\ edits' = edits + 1 /\ UNCHANGED <<log, flight>>
    /\ \A q \in Pages, t \in Things :
          pending'[q][t] = IF q = p /\ t = s THEN edits + 1 ELSE pending[q][t]

Erased(p, s, f) ==
    /\ p \in up /\ edits' = edits + 1 /\ UNCHANGED log
    /\ f.shape = s /\ f.edit = edits + 1 /\ f.beside = Underway(p)
    /\ flight'[p] = flight[p] \cup {f} /\ \A q \in Pages : q # p => flight'[q] = flight[q]
    /\ \A q \in Pages, t \in Things :
          pending'[q][t] = IF q = p /\ t = s THEN 0 ELSE pending[q][t]

\* The debounced upsert of page p and shape s, as it goes out.
Upsert(p, s) == [shape |-> s, edit |-> pending[p][s], op |-> "put", beside |-> Underway(p)]

Sent(p, W) ==
    /\ W \subseteq Waiting(p) /\ UNCHANGED <<log, edits>>
    /\ flight'[p] = flight[p] \cup {Upsert(p, s) : s \in W}
    /\ \A q \in Pages : q # p => flight'[q] = flight[q]
    /\ \A q \in Pages, t \in Things :
          pending'[q][t] = IF q = p /\ t \in W THEN 0 ELSE pending[q][t]

Gone(p, f) ==
    /\ f \in flight[p] /\ UNCHANGED <<pending, edits>>
    /\ flight'[p] = flight[p] \ {f} /\ \A q \in Pages : q # p => flight'[q] = flight[q]

\* The append f of page p is the next entry of the log.
Landed(p, f) ==
    /\ Gone(p, f) /\ Extends(log, log') /\ Len(log') = Len(log) + 1
    /\ log'[Len(log) + 1].by = p /\ log'[Len(log) + 1].shape = f.shape
    /\ log'[Len(log) + 1].edit = f.edit /\ log'[Len(log) + 1].op = f.op
    /\ log'[Len(log) + 1].beside = f.beside

Failed(p, f) == Gone(p, f) /\ UNCHANGED log /\ lost' = lost \cup {f.edit}

\* The agent's entries come next.
Pinned ==
    /\ UNCHANGED <<pending, flight, edits>> /\ Extends(log, log')
    /\ \A i \in DOMAIN log' : i > Len(log) => log'[i].by = Agent /\ log'[i].shape \in Notes

Types ==
    /\ log \in Seq(Entry) /\ edits \in Nat /\ flight \in [Pages -> SUBSET Flight]
    /\ pending \in [Pages -> [Things -> Nat]] /\ canvas \in [Pages -> [Things -> Nat]]
    /\ last \in [Pages -> [Things -> Nat]] /\ got \in [Pages -> Nat] /\ up \subseteq Pages
    /\ lost \subseteq Edit

\* The part of the types that is about the pages.
LEMMA PageTypes == ASSUME TypeOK PROVE Types
  BY DEF TypeOK, Types

\* A change of the user: its number is new, and it is the last of the page and the shape.
LEMMA ChangesFacts ==
    ASSUME Types, NEW p \in Pages, NEW s \in Things, NEW v \in Nat, Changes(p, s, v)
    PROVE  /\ p \in up /\ edits' = edits + 1 /\ edits' \in Edit
           /\ canvas' \in [Pages -> [Things -> Nat]] /\ last' \in [Pages -> [Things -> Nat]]
           /\ \A q \in Pages, t \in Things :
                 canvas'[q][t] = IF q = p /\ t = s THEN v ELSE canvas[q][t]
           /\ \A q \in Pages, t \in Things :
                 last'[q][t] = IF q = p /\ t = s THEN edits + 1 ELSE last[q][t]
<1>1. p \in up /\ edits' = edits + 1 /\ edits' \in Nat /\ edits' # 0
  BY DEF Changes, Types
<1>2. canvas' = [canvas EXCEPT ![p][s] = v] /\ last' = [last EXCEPT ![p][s] = edits']
  BY DEF Changes
<1>3. /\ canvas' \in [Pages -> [Things -> Nat]]
      /\ \A q \in Pages, t \in Things :
            canvas'[q][t] = IF q = p /\ t = s THEN v ELSE canvas[q][t]
  BY <1>2, Cell DEF Types
<1>4. /\ last' \in [Pages -> [Things -> Nat]]
      /\ \A q \in Pages, t \in Things :
            last'[q][t] = IF q = p /\ t = s THEN edits' ELSE last[q][t]
  BY <1>1, <1>2, Cell DEF Types
<1>5. QED BY <1>1, <1>3, <1>4 DEF Edit

\* Draw replaces what waits.
LEMMA DrawFacts ==
    ASSUME Types, NEW p \in Pages, NEW s \in Things, Draw(p, s)
    PROVE  /\ Drawn(p, s) /\ Types' /\ UNCHANGED <<up, got, lost>>
           /\ \A q \in Pages, t \in Things :
                 q # p \/ t # s => canvas'[q][t] = canvas[q][t]
           /\ \A q \in Pages, t \in Things :
                 last'[q][t] = IF q = p /\ t = s THEN edits + 1 ELSE last[q][t]
<1>1. edits + 1 \in Nat /\ Changes(p, s, edits + 1)
  BY DEF Draw, Types
<1>2. /\ p \in up /\ edits' = edits + 1 /\ edits' \in Edit
      /\ canvas' \in [Pages -> [Things -> Nat]] /\ last' \in [Pages -> [Things -> Nat]]
      /\ \A q \in Pages, t \in Things :
            canvas'[q][t] = IF q = p /\ t = s THEN edits + 1 ELSE canvas[q][t]
      /\ \A q \in Pages, t \in Things :
            last'[q][t] = IF q = p /\ t = s THEN edits + 1 ELSE last[q][t]
  BY <1>1, ChangesFacts
<1>3. UNCHANGED <<log, up, flight, got, lost>> /\ pending' = [pending EXCEPT ![p][s] = edits']
  BY DEF Draw
<1>4. /\ pending' \in [Pages -> [Things -> Nat]]
      /\ \A q \in Pages, t \in Things :
            pending'[q][t] = IF q = p /\ t = s THEN edits' ELSE pending[q][t]
  <2>1. edits' \in Nat
    BY <1>2 DEF Edit
  <2>2. QED BY <1>3, <2>1, Cell DEF Types
<1>5. Types'
  BY <1>2, <1>3, <1>4 DEF Types, Edit
<1>6. QED BY <1>2, <1>3, <1>4, <1>5 DEF Drawn

\* What goes out is an append under way.
LEMMA UnderwayType == ASSUME Types, NEW p \in Pages PROVE Underway(p) \in SUBSET Edit
<1>1. flight[p] \in SUBSET Flight
  BY DEF Types
<1>2. QED BY <1>1 DEF Underway, Flight

\* Erase cancels what waits and sends the delete.
LEMMA EraseFacts ==
    ASSUME Types, NEW p \in Pages, NEW s \in Things, Erase(p, s)
    PROVE  /\ \E f \in Flight : Erased(p, s, f)
           /\ Types' /\ UNCHANGED <<up, got, lost>>
           /\ \A q \in Pages, t \in Things :
                 q # p \/ t # s => canvas'[q][t] = canvas[q][t]
           /\ \A q \in Pages, t \in Things :
                 last'[q][t] = IF q = p /\ t = s THEN edits + 1 ELSE last[q][t]
<1>1. Changes(p, s, 0)
  BY DEF Erase
<1>2. /\ p \in up /\ edits' = edits + 1 /\ edits' \in Edit
      /\ canvas' \in [Pages -> [Things -> Nat]] /\ last' \in [Pages -> [Things -> Nat]]
      /\ \A q \in Pages, t \in Things :
            canvas'[q][t] = IF q = p /\ t = s THEN 0 ELSE canvas[q][t]
      /\ \A q \in Pages, t \in Things :
            last'[q][t] = IF q = p /\ t = s THEN edits + 1 ELSE last[q][t]
  BY <1>1, ChangesFacts
<1> DEFINE f == [shape |-> s, edit |-> edits', op |-> "del", beside |-> Underway(p)]
<1>3. f \in Flight
  BY <1>1, <1>2, UnderwayType DEF Flight
<1>4. /\ UNCHANGED <<log, up, got, lost>> /\ pending' = [pending EXCEPT ![p][s] = 0]
      /\ flight' = [flight EXCEPT ![p] = flight[p] \cup {f}]
  BY DEF Erase, Send, Types
<1>5. f.shape = s /\ f.edit = edits + 1 /\ f.beside = Underway(p)
  BY <1>2
<1> HIDE DEF f
<1>6. /\ pending' \in [Pages -> [Things -> Nat]]
      /\ \A q \in Pages, t \in Things :
            pending'[q][t] = IF q = p /\ t = s THEN 0 ELSE pending[q][t]
  BY <1>4, Cell DEF Types
<1>7. flight[p] \cup {f} \in SUBSET Flight
  BY <1>3 DEF Types
<1>8. /\ flight' \in [Pages -> SUBSET Flight]
      /\ flight'[p] = flight[p] \cup {f} /\ \A q \in Pages : q # p => flight'[q] = flight[q]
  BY <1>4, <1>7, Row DEF Types
<1>9. Types'
  BY <1>2, <1>4, <1>6, <1>8 DEF Types, Edit
<1>10. Erased(p, s, f)
  BY <1>2, <1>4, <1>5, <1>6, <1>8 DEF Erased
<1>11. QED BY <1>2, <1>3, <1>4, <1>9, <1>10

\* A debounced upsert is an append like any other.
LEMMA UpsertType ==
    ASSUME Types, NEW p \in Pages, NEW s \in Waiting(p) PROVE Upsert(p, s) \in Flight
<1>1. s \in Things /\ pending[p][s] # 0
  BY DEF Waiting
<1>2. pending[p][s] \in Edit
  BY <1>1 DEF Types, Edit
<1>3. QED BY <1>1, <1>2, UnderwayType DEF Upsert, Flight

\* Timer sends one upsert that waited.
LEMMA TimerFacts ==
    ASSUME Types, NEW p \in Pages, NEW s \in Things, Timer(p, s)
    PROVE  Sent(p, {s}) /\ Types' /\ UNCHANGED <<up, got, last, lost, canvas>>
<1>1. /\ pending[p][s] # 0 /\ pending' = [pending EXCEPT ![p][s] = 0]
      /\ flight' = [flight EXCEPT ![p] = flight[p] \cup {Upsert(p, s)}]
      /\ UNCHANGED <<log, up, canvas, got, edits, last, lost>>
  BY DEF Timer, Send, Types, Upsert
<1>2. s \in Waiting(p)
  BY <1>1 DEF Waiting
<1>3. flight[p] \cup {Upsert(p, s)} \in SUBSET Flight
  BY <1>2, UpsertType DEF Types
<1>4. /\ flight' \in [Pages -> SUBSET Flight]
      /\ flight'[p] = flight[p] \cup {Upsert(p, s)}
      /\ \A q \in Pages : q # p => flight'[q] = flight[q]
  BY <1>1, <1>3, Row DEF Types
<1>5. /\ pending' \in [Pages -> [Things -> Nat]]
      /\ \A q \in Pages, t \in Things :
            pending'[q][t] = IF q = p /\ t = s THEN 0 ELSE pending[q][t]
  BY <1>1, Cell DEF Types
<1>6. Types'
  BY <1>1, <1>4, <1>5 DEF Types
<1>7. {Upsert(p, t) : t \in {s}} = {Upsert(p, s)}
  OBVIOUS
<1>8. Sent(p, {s})
  BY <1>1, <1>2, <1>4, <1>5, <1>7 DEF Sent
<1>9. QED BY <1>1, <1>6, <1>8

\* Close sends every upsert that waits.
LEMMA CloseFacts ==
    ASSUME Types, NEW p \in Pages, Close(p)
    PROVE  /\ Sent(p, Waiting(p)) /\ Types' /\ UNCHANGED <<last, lost>>
           /\ up' = up \ {p} /\ got'[p] = 0 /\ \A t \in Things : canvas'[p][t] = 0
           /\ \A q \in Pages : q # p => got'[q] = got[q] /\ canvas'[q] = canvas[q]
<1> DEFINE U == {Upsert(p, s) : s \in Waiting(p)}
<1>1. CloseWith(p, U)
  BY DEF Close, Upsert
<1>2. /\ flight' = [flight EXCEPT ![p] = flight[p] \cup U]
      /\ up' = up \ {p}
      /\ canvas' = [canvas EXCEPT ![p] = [s \in Things |-> 0]]
      /\ pending' = [pending EXCEPT ![p] = [s \in Things |-> 0]]
      /\ got' = [got EXCEPT ![p] = 0]
      /\ UNCHANGED <<log, edits, last, lost>>
  BY <1>1 DEF CloseWith, Types
<1>3. U \subseteq Flight
  BY UpsertType
<1> HIDE DEF U
<1>4. flight[p] \cup U \in SUBSET Flight
  BY <1>3 DEF Types
<1>5. /\ flight' \in [Pages -> SUBSET Flight]
      /\ flight'[p] = flight[p] \cup U /\ \A q \in Pages : q # p => flight'[q] = flight[q]
  BY <1>2, <1>4, Row DEF Types
<1>6. /\ pending' \in [Pages -> [Things -> Nat]]
      /\ \A q \in Pages : pending'[q] = IF q = p THEN [s \in Things |-> 0] ELSE pending[q]
  BY <1>2 DEF Types
<1>7. \A q \in Pages, t \in Things :
          pending'[q][t] = IF q = p /\ t \in Waiting(p) THEN 0 ELSE pending[q][t]
  BY <1>6 DEF Waiting
<1>8. /\ canvas' \in [Pages -> [Things -> Nat]]
      /\ \A q \in Pages : canvas'[q] = IF q = p THEN [s \in Things |-> 0] ELSE canvas[q]
  BY <1>2 DEF Types
<1>9. got' \in [Pages -> Nat] /\ \A q \in Pages : got'[q] = IF q = p THEN 0 ELSE got[q]
  BY <1>2 DEF Types
<1>10. Types'
  BY <1>2, <1>5, <1>6, <1>8, <1>9 DEF Types
<1>11. Sent(p, Waiting(p))
  BY <1>2, <1>5, <1>7 DEF Sent, U
<1>12. QED BY <1>2, <1>8, <1>9, <1>10, <1>11

\* An append that settles is no longer under way.
LEMMA GoneFacts ==
    ASSUME Types, NEW p \in Pages, NEW f \in flight[p], UNCHANGED <<pending, edits>>,
           flight' = [flight EXCEPT ![p] = @ \ {f}]
    PROVE  /\ Gone(p, f) /\ flight' \in [Pages -> SUBSET Flight] /\ f \in Flight
<1>1. flight' = [flight EXCEPT ![p] = flight[p] \ {f}] /\ flight[p] \ {f} \in SUBSET Flight
      /\ f \in Flight
  BY DEF Types
<1>2. /\ flight' \in [Pages -> SUBSET Flight]
      /\ flight'[p] = flight[p] \ {f} /\ \A q \in Pages : q # p => flight'[q] = flight[q]
  BY <1>1, Row DEF Types
<1>3. QED BY <1>1, <1>2 DEF Gone

\* Land: what was under way is the next entry.
LEMMA LandFacts ==
    ASSUME Types, NEW p \in Pages, NEW f \in flight[p], Land(p, f)
    PROVE  Landed(p, f) /\ Types' /\ UNCHANGED <<up, got, last, lost, canvas>>
<1>1. /\ flight' = [flight EXCEPT ![p] = @ \ {f}]
      /\ UNCHANGED <<up, canvas, pending, got, edits, last, lost>>
  BY DEF Land
<1>2. Gone(p, f) /\ flight' \in [Pages -> SUBSET Flight] /\ f \in Flight
  BY <1>1, GoneFacts
<1> DEFINE e == [by |-> p, shape |-> f.shape, edit |-> f.edit, op |-> f.op,
                 beside |-> f.beside]
<1>3. e \in Entry
  BY <1>2 DEF Entry, Flight, Edit
<1>4. log' = Append(log, e)
  BY DEF Land
<1>5. e.by = p /\ e.shape = f.shape /\ e.edit = f.edit /\ e.op = f.op /\ e.beside = f.beside
  OBVIOUS
<1> HIDE DEF e
<1>6. Extends(log, log') /\ Len(log') = Len(log) + 1 /\ log'[Len(log) + 1] = e
  BY <1>3, <1>4, Appended DEF Types
<1>7. Types'
  BY <1>1, <1>2, <1>6 DEF Types, Extends
<1>8. QED BY <1>1, <1>2, <1>5, <1>6, <1>7 DEF Landed

\* AppendFails: it is lost.
LEMMA FailsFacts ==
    ASSUME Types, NEW p \in Pages, NEW f \in flight[p], AppendFails(p, f)
    PROVE  Failed(p, f) /\ Types' /\ UNCHANGED <<up, got, last, canvas>>
<1>1. /\ flight' = [flight EXCEPT ![p] = @ \ {f}]
      /\ UNCHANGED <<log, up, canvas, pending, got, edits, last>>
      /\ lost' = lost \cup {f.edit}
  BY DEF AppendFails
<1>2. Gone(p, f) /\ flight' \in [Pages -> SUBSET Flight] /\ f \in Flight
  BY <1>1, GoneFacts
<1>3. f.edit \in Edit
  BY <1>2 DEF Flight
<1>4. QED BY <1>1, <1>2, <1>3 DEF Types, Failed

\* Receive applies one entry.
LEMMA ReceiveFacts ==
    ASSUME Types, NEW p \in Pages, Receive(p)
    PROVE  /\ Kept /\ Types' /\ UNCHANGED <<up, last, lost>>
           /\ p \in up /\ got[p] + 1 \in DOMAIN log
           /\ \A q \in Pages : got'[q] = IF q = p THEN got[p] + 1 ELSE got[q]
           /\ \A q \in Pages, t \in Things :
                 canvas'[q][t] = IF q = p /\ t = log[got[p] + 1].shape
                                 THEN Shown(p, log[got[p] + 1]) ELSE canvas[q][t]
<1> DEFINE e == log[got[p] + 1]
<1>1. p \in up /\ got[p] + 1 \in DOMAIN log /\ got[p] + 1 \in Nat
  BY DEF Receive, Hears, Types
<1>2. e \in Entry
  BY <1>1 DEF Types
<1>3. e.shape \in Things /\ Shown(p, e) \in Nat
  <2>1. e.shape \in Things /\ Record(e) \in Nat
    BY <1>2 DEF Entry, Record
  <2>2. canvas[p][e.shape] \in Nat
    BY <2>1 DEF Types
  <2>3. QED BY <2>1, <2>2 DEF Shown
<1>4. got' = [got EXCEPT ![p] = got[p] + 1] /\ got'[p] = got[p] + 1
  BY DEF Receive, Types
<1>5. canvas' = [canvas EXCEPT ![p][e.shape] = Shown(p, e)]
  BY <1>4 DEF Receive
<1>6. UNCHANGED <<log, up, pending, flight, edits, last, lost>>
  BY DEF Receive
<1>7. /\ got' \in [Pages -> Nat]
      /\ got'[p] = got[p] + 1 /\ \A q \in Pages : q # p => got'[q] = got[q]
  BY <1>1, <1>4, Row DEF Types
<1> HIDE DEF e
<1>8. /\ canvas' \in [Pages -> [Things -> Nat]]
      /\ \A q \in Pages, t \in Things :
            canvas'[q][t] = IF q = p /\ t = e.shape THEN Shown(p, e) ELSE canvas[q][t]
  BY <1>3, <1>5, Cell DEF Types
<1>9. Types'
  BY <1>6, <1>7, <1>8 DEF Types
<1>10. QED BY <1>1, <1>6, <1>7, <1>8, <1>9 DEF e, Kept
----------------------------------------------------------------------------
\* The agent.

NotesInv ==
    /\ IsFiniteSet(agent.emitted) /\ IsFiniteSet(agent.stale)
    /\ \A s \in Things : IsFiniteSet(prior[s])
    /\ agent.pc = "idle" => agent.emitted = {} /\ agent.stale = {}
    /\ agent.pc # "idle" => agent.at < Len(log) /\ Trigger.by # Agent
    /\ agent.emitted \subseteq DOMAIN made
    /\ \A n \in agent.emitted : made[n] = Trigger.shape

\* Emit: first the deletes of the stale notes, then the puts of the new.
LEMMA EmitFacts ==
    ASSUME TypeOK, NotesInv, Emit
    PROVE  \E d, u \in Seq(Entry) :
               /\ Pins(d, "del", agent.stale) /\ Pins(u, "put", agent.emitted)
               /\ log' = (log \o d) \o u /\ d \o u \in Seq(Entry) /\ log' = log \o (d \o u)
<1> DEFINE d == Batch("del", agent.stale)
           u == Batch("put", agent.emitted)
<1>1. agent.stale \in SUBSET Notes /\ agent.emitted \in SUBSET Notes /\ log \in Seq(Entry)
  BY DEF TypeOK
<1>2. Pins(d, "del", agent.stale) /\ Pins(u, "put", agent.emitted)
  BY <1>1, BatchPins DEF NotesInv
<1>3. log' = (log \o d) \o u
  BY DEF Emit
<1> HIDE DEF d, u
<1>4. d \in Seq(Entry) /\ u \in Seq(Entry)
  BY <1>2 DEF Pins
<1>5. d \o u \in Seq(Entry) /\ log' = log \o (d \o u)
  BY <1>1, <1>3, <1>4
<1>6. QED BY <1>2, <1>3, <1>4, <1>5

\* Everything after the old end is the agent's.
LEMMA EmitPins ==
    ASSUME TypeOK, NotesInv, Emit
    PROVE  /\ Pinned /\ Types' /\ UNCHANGED <<up, got, last, lost, canvas>>
           /\ agent' = [Idle EXCEPT !.at = agent.at + 1] /\ agent.at < Len(log)
<1>1. PICK d, u \in Seq(Entry) :
          /\ Pins(d, "del", agent.stale) /\ Pins(u, "put", agent.emitted)
          /\ d \o u \in Seq(Entry) /\ log' = log \o (d \o u)
  BY EmitFacts
<1> DEFINE new == d \o u
<1>2. \A i \in DOMAIN new : new[i].by = Agent /\ new[i].shape \in Notes
  <2>1. agent.stale \subseteq Notes /\ agent.emitted \subseteq Notes
    BY DEF TypeOK
  <2>2. \A i \in DOMAIN new :
            \/ i \in DOMAIN d /\ new[i] = d[i]
            \/ i - Len(d) \in DOMAIN u /\ new[i] = u[i - Len(d)]
    BY Split
  <2> HIDE DEF new
  <2>3. ASSUME NEW i \in DOMAIN new PROVE new[i].by = Agent /\ new[i].shape \in Notes
    <3>1. CASE i \in DOMAIN d /\ new[i] = d[i]
      BY <1>1, <2>1, <3>1, PinsEntry
    <3>2. CASE i - Len(d) \in DOMAIN u /\ new[i] = u[i - Len(d)]
      BY <1>1, <2>1, <3>2, PinsEntry
    <3>3. QED BY <2>2, <2>3, <3>1, <3>2
  <2>4. QED BY <2>3
<1>3. new \in Seq(Entry) /\ log' = log \o new /\ log \in Seq(Entry)
  BY <1>1 DEF TypeOK
<1> HIDE DEF new
<1>4. Joins(log, new, log')
  BY <1>3, Joined
<1>5. UNCHANGED <<pending, flight, edits, up, got, last, lost, canvas>>
  BY DEF Emit, page
<1>6. Types'
  BY <1>4, <1>5, PageTypes DEF Types, Joins, Extends
<1>7. Pinned
  BY <1>2, <1>4, <1>5 DEF Pinned, Joins
<1>8. QED BY <1>5, <1>6, <1>7 DEF Emit, Busy
----------------------------------------------------------------------------
\* Every step is of one of these kinds.

Kinds ==
    \/ Kept
    \/ \E p \in Pages, s \in Things : Drawn(p, s) \/ \E f \in Flight : Erased(p, s, f)
    \/ \E p \in Pages : \E W \in SUBSET Things : Sent(p, W)
    \/ \E p \in Pages : \E f \in flight[p] : Landed(p, f) \/ Failed(p, f)
    \/ Pinned

\* A page opens: it was not, and nothing of it is under way.
LEMMA OpenFacts ==
    ASSUME Types, NEW p \in Pages, Open(p)
    PROVE  /\ Kept /\ Types' /\ UNCHANGED <<canvas, got, last, lost>>
           /\ up' = up \cup {p} /\ p \notin up
<1>1. UNCHANGED <<log, canvas, pending, flight, got, edits, last, lost>>
  BY DEF Open
<1>2. up' = up \cup {p} /\ p \notin up
  BY DEF Open
<1>3. QED BY <1>1, <1>2 DEF Kept, Types

DrainStep(p) == DrainEnds(p) \/ DrainRestarts(p) \/ Deafens(p)

\* A drain ends or starts over, or nobody listens any more: only the page's place in the log
\* may change.
LEMMA DrainFacts ==
    ASSUME Types, NEW p \in Pages, DrainStep(p)
    PROVE  /\ Kept /\ Types' /\ UNCHANGED <<up, canvas, last, lost>>
           /\ \A q \in Pages : got'[q] = got[q] \/ (q = p /\ got'[q] = 0)
<1>1. /\ UNCHANGED <<log, up, canvas, pending, flight, edits, last, lost>>
      /\ (got' = got \/ got' = [got EXCEPT ![p] = 0])
  BY DEF DrainStep, DrainEnds, DrainRestarts, Deafens
<1>2. /\ got' \in [Pages -> Nat]
      /\ \A q \in Pages : got'[q] = got[q] \/ (q = p /\ got'[q] = 0)
  <2>1. CASE got' = got
    BY <2>1 DEF Types
  <2>2. CASE got' = [got EXCEPT ![p] = 0]
    BY <2>2 DEF Types
  <2>3. QED BY <1>1, <2>1, <2>2
<1>3. QED BY <1>1, <1>2 DEF Kept, Types

\* What the agent does, but for Emit, is no matter of the pages.
LEMMA BotFacts ==
    ASSUME Skip \/ Ask \/ CallFails \/ CallEnds \/ EmitFails \/ \E n \in Notes : Suggest(n)
    PROVE  UNCHANGED <<log, up, canvas, pending, flight, got, edits, opens, last, lost>>
  BY DEF Skip, Ask, CallFails, CallEnds, EmitFails, Suggest, page

\* The kinds cover the steps.
LEMMA StepKinds ==
    ASSUME TypeOK, NotesInv, [Next]_vars
    PROVE  Types' /\ Kinds
<1>0. Types
  BY PageTypes
<1>1. ASSUME NEW p \in Pages, Page(p) PROVE Types' /\ Kinds
  <2>1. CASE Open(p)
    BY <1>0, <2>1, OpenFacts DEF Kinds
  <2>2. CASE DrainStep(p)
    BY <1>0, <2>2, DrainFacts DEF Kinds
  <2>3. CASE Receive(p)
    BY <1>0, <2>3, ReceiveFacts DEF Kinds
  <2>4. CASE Close(p)
    <3>1. Waiting(p) \in SUBSET Things
      BY DEF Waiting
    <3>2. QED BY <1>0, <2>4, <3>1, CloseFacts DEF Kinds
  <2>5. ASSUME NEW s \in Things, Draw(p, s) PROVE Types' /\ Kinds
    BY <1>0, <2>5, DrawFacts DEF Kinds
  <2>6. ASSUME NEW s \in Things, Erase(p, s) PROVE Types' /\ Kinds
    BY <1>0, <2>6, EraseFacts DEF Kinds
  <2>7. ASSUME NEW s \in Things, Timer(p, s) PROVE Types' /\ Kinds
    <3>1. Sent(p, {s}) /\ Types' /\ {s} \in SUBSET Things
      BY <1>0, <2>7, TimerFacts
    <3>2. QED BY <3>1 DEF Kinds
  <2>8. ASSUME NEW f \in flight[p], Land(p, f) PROVE Types' /\ Kinds
    BY <1>0, <2>8, LandFacts DEF Kinds
  <2>9. ASSUME NEW f \in flight[p], AppendFails(p, f) PROVE Types' /\ Kinds
    BY <1>0, <2>9, FailsFacts DEF Kinds
  <2>10. QED
    BY <1>1, <2>1, <2>2, <2>3, <2>4, <2>5, <2>6, <2>7, <2>8, <2>9 DEF Page, Settle, DrainStep
<1>2. CASE Bot
  <2>1. CASE Emit
    BY <2>1, EmitPins DEF Kinds
  <2>2. CASE Skip \/ Ask \/ CallFails \/ CallEnds \/ EmitFails \/ \E n \in Notes : Suggest(n)
    <3>1. UNCHANGED <<log, up, canvas, pending, flight, got, edits, last, lost>>
      BY <2>2, BotFacts
    <3>2. QED BY <1>0, <3>1 DEF Types, Kinds, Kept
  <2>3. QED BY <1>2, <2>1, <2>2 DEF Bot
<1>3. CASE UNCHANGED vars
  BY <1>0, <1>3 DEF vars, Types, Kinds, Kept
<1>4. QED BY <1>1, <1>2, <1>3 DEF Next

\* The log only grows.
LEMMA LogGrows == ASSUME Types, Kinds PROVE Extends(log, log')
<1>1. Extends(log, log)
  BY DEF Types, Extends
<1>2. QED BY <1>1 DEF Kinds, Kept, Drawn, Erased, Sent, Landed, Failed, Pinned
----------------------------------------------------------------------------
\* Type correctness, and what the agent has in hand.

\* Users change shapes and never notes.
ShapedInv ==
    /\ \A i \in DOMAIN log : log[i].by # Agent => log[i].by \in Pages /\ log[i].shape \in Things
    /\ \A i \in DOMAIN log : log[i].by = Agent => log[i].shape \in Notes
    /\ \A p \in Pages : \A f \in flight[p] : f.shape \in Things

\* Pages send shapes only, and the agent pins notes only.
LEMMA ShapedStep ==
    ASSUME CanvasAssumption, Types, ShapedInv, Kinds
    PROVE  ShapedInv'
<1>1. CASE Kept
  BY <1>1 DEF Kept, ShapedInv
<1>2. ASSUME NEW p \in Pages, NEW s \in Things, Drawn(p, s) PROVE ShapedInv'
  BY <1>2 DEF Drawn, ShapedInv
<1>3. ASSUME NEW p \in Pages, NEW s \in Things, NEW f \in Flight, Erased(p, s, f)
      PROVE  ShapedInv'
  BY <1>3 DEF Erased, ShapedInv
<1>4. ASSUME NEW p \in Pages, NEW W \in SUBSET Things, Sent(p, W) PROVE ShapedInv'
  <2>1. \A s \in W : Upsert(p, s).shape \in Things
    BY DEF Upsert
  <2>2. \A q \in Pages : \A f \in flight'[q] :
            f \in flight[q] \/ \E s \in W : f = Upsert(p, s)
    BY <1>4 DEF Sent
  <2>3. QED BY <1>4, <2>1, <2>2 DEF Sent, ShapedInv
<1>5. ASSUME NEW p \in Pages, NEW f \in flight[p], Landed(p, f) PROVE ShapedInv'
  <2> USE DEF Types
  <2>1. p # Agent
    BY DEF CanvasAssumption
  <2>2. /\ \A i \in DOMAIN log' : i \in DOMAIN log \/ i = Len(log) + 1
        /\ \A i \in DOMAIN log : log'[i] = log[i]
    BY <1>5 DEF Landed, Extends
  <2>3. \A q \in Pages : \A g \in flight'[q] : g.shape \in Things
    BY <1>5 DEF Landed, Gone, ShapedInv
  <2>4. log'[Len(log) + 1].by = p /\ log'[Len(log) + 1].shape \in Things
    BY <1>5 DEF Landed, ShapedInv
  <2>5. QED BY <2>1, <2>2, <2>3, <2>4 DEF ShapedInv
<1>6. ASSUME NEW p \in Pages, NEW f \in flight[p], Failed(p, f) PROVE ShapedInv'
  BY <1>6 DEF Failed, Gone, ShapedInv
<1>7. CASE Pinned
  <2>1. /\ \A i \in DOMAIN log' : i \in DOMAIN log \/ i > Len(log)
        /\ \A i \in DOMAIN log : log'[i] = log[i]
    BY <1>7 DEF Pinned, Extends
  <2>2. QED BY <1>7, <2>1 DEF Pinned, ShapedInv
<1>8. QED BY <1>1, <1>2, <1>3, <1>4, <1>5, <1>6, <1>7 DEF Kinds

AgentState == [pc : {"idle", "call", "emit"}, at : Nat, try : 1 .. MaxTries,
               emitted : SUBSET Notes, stale : SUBSET Notes]

BotTypes ==
    /\ agent \in AgentState /\ agent.at <= Len(log)
    /\ prior \in [Things -> SUBSET Notes] /\ broken \in BOOLEAN
    /\ DOMAIN made \subseteq Notes /\ \A n \in DOMAIN made : made[n] \in Things

Counts == {opens, calls, faults} \subseteq Nat

AllTypes ==
    /\ Types /\ BotTypes /\ Counts /\ cast \in Casts /\ draining \cup deaf \subseteq up
    /\ \A p \in Pages : got[p] <= Len(log)

\* TypeOK in parts.
LEMMA TypeParts == TypeOK <=> AllTypes
<1> USE DEF AllTypes
<1>1. ASSUME TypeOK
      PROVE  /\ Types /\ BotTypes /\ Counts /\ cast \in Casts /\ draining \cup deaf \subseteq up
             /\ \A p \in Pages : got[p] <= Len(log)
  <2>1. agent \in AgentState /\ agent.at <= Len(log)
    BY <1>1 DEF TypeOK, AgentState
  <2>2. QED BY <1>1, <2>1, PageTypes DEF TypeOK, BotTypes, Counts
<1>2. ASSUME Types, BotTypes, Counts, cast \in Casts, draining \cup deaf \subseteq up,
             \A p \in Pages : got[p] <= Len(log)
      PROVE  TypeOK
  <2>1. agent \in [pc : {"idle", "call", "emit"}, at : 0 .. Len(log), try : 1 .. MaxTries,
                   emitted : SUBSET Notes, stale : SUBSET Notes]
    <3>1. agent \in AgentState /\ agent.at <= Len(log) /\ Len(log) \in Nat
      BY <1>2 DEF BotTypes, Types
    <3>2. agent.at \in 0 .. Len(log)
      BY <3>1 DEF AgentState
    <3>3. QED BY <3>1, <3>2 DEF AgentState
  <2>2. QED BY <1>2, <2>1 DEF TypeOK, Types, BotTypes, Counts
<1>3. QED BY <1>1, <1>2

\* The steps of the agent keep its types and what it has in hand.
LEMMA BotStep ==
    ASSUME CanvasAssumption, TypeOK, ShapedInv, NotesInv, Bot
    PROVE  BotTypes' /\ NotesInv'
<1>0. /\ agent \in AgentState /\ agent.at <= Len(log) /\ Len(log) \in Nat
      /\ agent.emitted \in SUBSET Notes /\ agent.stale \in SUBSET Notes /\ agent.at \in Nat
      /\ prior \in [Things -> SUBSET Notes] /\ broken \in BOOLEAN
      /\ DOMAIN made \subseteq Notes /\ \A n \in DOMAIN made : made[n] \in Things
      /\ Idle.emitted = {} /\ Idle.stale = {} /\ Idle.pc = "idle"
  BY TypeParts DEF AllTypes, BotTypes, Types, AgentState, Idle
<1>1. \A k \in Nat : k <= Len(log) =>
          LET a == [Idle EXCEPT !.at = k]
          IN  /\ a \in AgentState /\ a.at = k /\ a.emitted = {} /\ a.stale = {}
              /\ a.pc = "idle"
  BY DEF AgentState, Idle, CanvasAssumption
<1>2. IsFiniteSet({})
  BY FS_EmptySet
<1>3. ASSUME agent.pc # "idle" PROVE Trigger.shape \in Things
  <2>1. agent.at + 1 \in DOMAIN log /\ Trigger.by # Agent
    BY <1>0, <1>3, TypeParts DEF AllTypes, NotesInv, Types
  <2>2. QED BY <2>1 DEF ShapedInv, Trigger
<1>4. CASE Skip
  <2>1. /\ agent' = [agent EXCEPT !.at = agent.at + 1] /\ agent.pc = "idle"
        /\ agent.at < Len(log) /\ UNCHANGED <<log, prior, made, broken>>
    BY <1>0, <1>4 DEF Skip, Busy
  <2>2. /\ agent' \in AgentState /\ agent'.at <= Len(log) /\ agent'.pc = "idle"
        /\ agent'.emitted = agent.emitted /\ agent'.stale = agent.stale
    BY <1>0, <2>1 DEF AgentState
  <2>3. BotTypes'
    BY <1>0, <2>1, <2>2 DEF BotTypes
  <2>4. agent.emitted = {} /\ agent.stale = {}
    BY <2>1 DEF NotesInv
  <2>5. QED BY <2>1, <2>2, <2>3, <2>4 DEF NotesInv
<1>5. CASE Ask
  <2>1. /\ agent' = [agent EXCEPT !.pc = "call"] /\ agent.pc = "idle"
        /\ agent.at < Len(log) /\ UNCHANGED <<log, prior, made, broken>>
        /\ Trigger.by # Agent
    BY <1>5 DEF Ask, Busy
  <2>2. /\ agent' \in AgentState /\ agent'.at = agent.at /\ agent'.pc = "call"
        /\ agent'.emitted = agent.emitted /\ agent'.stale = agent.stale
    BY <1>0, <2>1 DEF AgentState
  <2>3. BotTypes'
    BY <1>0, <2>1, <2>2 DEF BotTypes
  <2>4. Trigger' = Trigger
    BY <2>1, <2>2 DEF Trigger
  <2>5. agent.emitted = {} /\ agent.stale = {}
    BY <2>1 DEF NotesInv
  <2>6. QED BY <2>1, <2>2, <2>3, <2>4, <2>5 DEF NotesInv
<1>6. ASSUME NEW n \in Notes, Suggest(n) PROVE BotTypes' /\ NotesInv'
  <2>1. /\ agent' = [agent EXCEPT !.emitted = agent.emitted \cup {n}] /\ agent.pc = "call"
        /\ agent.at < Len(log) /\ UNCHANGED <<log, prior, broken>> /\ n \notin DOMAIN made
        /\ made' = [m \in DOMAIN made \cup {n} |-> IF m = n THEN Trigger.shape ELSE made[m]]
    BY <1>0, <1>6 DEF Suggest, Busy
  <2>2. /\ agent' \in AgentState /\ agent'.at = agent.at /\ agent'.pc = "call"
        /\ agent'.emitted = agent.emitted \cup {n} /\ agent'.stale = agent.stale
    BY <1>0, <2>1 DEF AgentState
  <2>3. /\ DOMAIN made' = DOMAIN made \cup {n} /\ made'[n] = Trigger.shape
        /\ \A m \in DOMAIN made : made'[m] = made[m]
    BY <2>1
  <2>4. BotTypes'
    BY <1>0, <1>3, <2>1, <2>2, <2>3 DEF BotTypes
  <2>5. Trigger' = Trigger
    BY <2>1, <2>2 DEF Trigger
  <2>6. IsFiniteSet(agent'.emitted)
    <3>1. IsFiniteSet(agent.emitted)
      BY DEF NotesInv
    <3>2. IsFiniteSet(agent.emitted \cup {n})
      BY <3>1, FS_AddElement
    <3>3. QED BY <2>2, <3>2
  <2>7. \A m \in agent'.emitted : m \in DOMAIN made' /\ made'[m] = Trigger.shape
    BY <2>2, <2>3 DEF NotesInv
  <2>8. QED BY <2>1, <2>2, <2>4, <2>5, <2>6, <2>7 DEF NotesInv
<1>7. CASE CallFails
  <2>1. CASE agent.try < MaxTries
    <3>1. /\ agent' = [agent EXCEPT !.try = agent.try + 1] /\ agent.pc = "call"
          /\ UNCHANGED <<log, prior, made, broken>>
      BY <1>0, <1>7, <2>1 DEF CallFails, Busy
    <3>2. agent.try + 1 \in 1 .. MaxTries
      BY <1>0, <2>1 DEF AgentState, CanvasAssumption
    <3>3. /\ agent' \in AgentState /\ agent'.at = agent.at /\ agent'.pc = agent.pc
          /\ agent'.emitted = agent.emitted /\ agent'.stale = agent.stale
      BY <1>0, <3>1, <3>2 DEF AgentState
    <3>4. BotTypes'
      BY <1>0, <3>1, <3>3 DEF BotTypes
    <3>5. Trigger' = Trigger
      BY <3>1, <3>3 DEF Trigger
    <3>6. QED BY <3>1, <3>3, <3>4, <3>5 DEF NotesInv
  <2>2. CASE ~(agent.try < MaxTries)
    <3>1. agent' = Restarted /\ UNCHANGED <<log, prior, made, broken>>
      BY <1>7, <2>2 DEF CallFails
    <3>2. /\ agent' \in AgentState /\ agent'.at = Len(log) /\ agent'.pc = "idle"
          /\ agent'.emitted = {} /\ agent'.stale = {}
      BY <1>0, <1>1, <3>1 DEF Restarted
    <3>3. BotTypes'
      BY <1>0, <3>1, <3>2 DEF BotTypes
    <3>4. QED BY <1>2, <3>1, <3>2, <3>3 DEF NotesInv
  <2>3. QED BY <2>1, <2>2
<1>8. CASE CallEnds
  <2> DEFINE s == Trigger.shape
  <2>1. /\ agent' = [agent EXCEPT !.pc = "emit", !.stale = prior[s]] /\ agent.pc = "call"
        /\ agent.at < Len(log) /\ UNCHANGED <<log, made, broken>>
        /\ prior' = IF agent.emitted = {} THEN prior ELSE [prior EXCEPT ![s] = agent.emitted]
    BY <1>8 DEF CallEnds, Busy
  <2>2. s \in Things
    BY <1>3, <2>1
  <2>3. /\ prior' \in [Things -> SUBSET Notes]
        /\ \A t \in Things : prior'[t] \in {prior[t], agent.emitted}
    <3>1. CASE agent.emitted = {}
      BY <1>0, <2>1, <3>1
    <3>2. CASE agent.emitted # {}
      BY <1>0, <2>1, <2>2, <3>2
    <3>3. QED BY <3>1, <3>2
  <2>4. /\ agent' \in AgentState /\ agent'.at = agent.at /\ agent'.pc = "emit"
        /\ agent'.emitted = agent.emitted /\ agent'.stale = prior[s]
    <3>1. prior[s] \in SUBSET Notes
      BY <1>0, <2>2
    <3> HIDE DEF s
    <3>2. QED BY <1>0, <2>1, <3>1 DEF AgentState
  <2>5. BotTypes'
    BY <1>0, <2>1, <2>3, <2>4 DEF BotTypes
  <2>6. Trigger' = Trigger
    BY <2>1, <2>4 DEF Trigger
  <2>7. IsFiniteSet(agent'.stale) /\ \A t \in Things : IsFiniteSet(prior'[t])
    BY <2>2, <2>3, <2>4 DEF NotesInv
  <2>8. QED BY <2>1, <2>4, <2>5, <2>6, <2>7 DEF NotesInv
<1>9. CASE Emit
  <2>1. Extends(log, log') /\ agent' = [Idle EXCEPT !.at = agent.at + 1]
        /\ agent.at < Len(log)
    BY <1>9, EmitPins DEF Pinned
  <2>2. UNCHANGED <<prior, made, broken>>
    BY <1>9 DEF Emit
  <2>3. /\ agent' \in AgentState /\ agent'.at <= Len(log') /\ agent'.pc = "idle"
        /\ agent'.emitted = {} /\ agent'.stale = {}
    <3>1. agent.at + 1 \in Nat /\ agent.at + 1 <= Len(log) /\ Len(log') \in Nat
          /\ Len(log) <= Len(log')
      BY <1>0, <2>1 DEF Extends
    <3>2. /\ agent' \in AgentState /\ agent'.at = agent.at + 1 /\ agent'.pc = "idle"
          /\ agent'.emitted = {} /\ agent'.stale = {}
      BY <1>1, <2>1, <3>1
    <3>3. QED BY <1>0, <3>1, <3>2
  <2>4. BotTypes'
    BY <1>0, <2>2, <2>3 DEF BotTypes
  <2>5. QED BY <1>2, <2>2, <2>3, <2>4 DEF NotesInv
<1>10. CASE EmitFails
  <2>1. agent' = Restarted /\ UNCHANGED <<log, prior, made>> /\ broken' = TRUE
    BY <1>10 DEF EmitFails
  <2>2. /\ agent' \in AgentState /\ agent'.at = Len(log) /\ agent'.pc = "idle"
        /\ agent'.emitted = {} /\ agent'.stale = {}
    BY <1>0, <1>1, <2>1 DEF Restarted
  <2>3. BotTypes'
    BY <1>0, <2>1, <2>2 DEF BotTypes
  <2>4. QED BY <1>2, <2>1, <2>2, <2>3 DEF NotesInv
<1>11. QED BY <1>4, <1>5, <1>6, <1>7, <1>8, <1>9, <1>10 DEF Bot

\* The steps of the pages leave the agent what it has.
LEMMA BotStays ==
    ASSUME TypeOK, NotesInv, Extends(log, log'), UNCHANGED <<agent, prior, made, broken>>
    PROVE  BotTypes' /\ NotesInv'
<1>1. /\ BotTypes /\ Types /\ Len(log) \in Nat /\ Len(log') \in Nat /\ Len(log) <= Len(log')
      /\ DOMAIN log = 1 .. Len(log) /\ agent.at \in Nat
  BY TypeParts DEF AllTypes, Extends, BotTypes, AgentState
<1>2. BotTypes'
  BY <1>1 DEF BotTypes, AgentState
<1>3. agent.pc # "idle" => Trigger' = Trigger /\ agent.at < Len(log')
  <2>1. SUFFICES ASSUME agent.pc # "idle" PROVE Trigger' = Trigger /\ agent.at < Len(log')
    OBVIOUS
  <2>2. agent.at < Len(log) /\ agent.at + 1 \in DOMAIN log
    BY <1>1, <2>1 DEF NotesInv
  <2>3. QED BY <1>1, <2>2 DEF Trigger, Extends
<1>4. CASE agent.pc = "idle"
  BY <1>2, <1>4 DEF NotesInv
<1>5. CASE agent.pc # "idle"
  BY <1>2, <1>3, <1>5 DEF NotesInv
<1>6. QED BY <1>4, <1>5

\* Every step keeps the types and what the agent has in hand.
LEMMA TypeStep ==
    ASSUME CanvasAssumption, TypeOK, ShapedInv, NotesInv, [Next]_vars
    PROVE  TypeOK' /\ NotesInv'
<1>0. /\ Types /\ BotTypes /\ Counts /\ cast \in Casts /\ draining \cup deaf \subseteq up
      /\ \A p \in Pages : got[p] <= Len(log) /\ got[p] \in Nat
  BY TypeParts DEF AllTypes, Types
<1>1. Types' /\ Extends(log, log') /\ Len(log) <= Len(log') /\ Len(log) \in Nat
      /\ Len(log') \in Nat
  BY <1>0, StepKinds, LogGrows DEF Extends
<1>a. AllTypes' => TypeOK'
  BY TypeParts, PTL
<1>2. ASSUME NEW p \in Pages, Page(p) PROVE TypeOK' /\ NotesInv'
  <2>1. UNCHANGED <<cast, agent, prior, calls, made, broken>>
    BY <1>2 DEF Page, Open, Receive, DrainEnds, DrainRestarts, Deafens, Close, CloseWith, Draw,
        Erase, Timer, Settle, Land, AppendFails, bot
  <2>2. draining' \cup deaf' \subseteq up'
    <3>1. CASE Open(p)
      BY <1>0, <3>1 DEF Open
    <3>2. CASE DrainStep(p)
      BY <1>0, <1>2, <3>2 DEF Page, DrainStep, DrainEnds, DrainRestarts, Deafens
    <3>3. CASE Close(p)
      BY <1>0, <3>3 DEF Close, CloseWith
    <3>4. CASE ~Open(p) /\ ~DrainStep(p) /\ ~Close(p)
      <4>1. UNCHANGED <<up, draining, deaf>>
        BY <1>2, <3>4 DEF Page, DrainStep, Receive, Draw, Erase, Timer, Settle, Land, AppendFails
      <4>2. QED BY <1>0, <4>1
    <3>5. QED BY <3>1, <3>2, <3>3, <3>4
  <2>3. opens' \in Nat /\ faults' \in Nat
    <3>1. opens' = opens \/ opens' = opens + 1
      BY <1>2 DEF Page, Open, Receive, DrainEnds, DrainRestarts, Deafens, Close, CloseWith, Draw,
          Erase, Timer, Settle, Land, AppendFails
    <3>2. faults' = faults \/ faults' = faults + 1
      BY <1>2 DEF Page, Open, Receive, DrainEnds, DrainRestarts, Deafens, Close, CloseWith, Draw,
          Erase, Timer, Settle, Land, AppendFails, Strikes
    <3>3. QED BY <1>0, <3>1, <3>2 DEF Counts
  <2>4. \A q \in Pages : got'[q] <= Len(log')
    <3>1. CASE Receive(p)
      <4>1. /\ got[p] + 1 \in DOMAIN log
            /\ \A q \in Pages : got'[q] = IF q = p THEN got[p] + 1 ELSE got[q]
        BY <1>0, <3>1, ReceiveFacts
      <4>2. got[p] + 1 <= Len(log)
        BY <1>1, <4>1 DEF Extends
      <4>3. QED BY <1>0, <1>1, <4>1, <4>2
    <3>2. CASE DrainStep(p)
      <4>1. \A q \in Pages : got'[q] = got[q] \/ (q = p /\ got'[q] = 0)
        BY <1>0, <3>2, DrainFacts
      <4>2. QED BY <1>0, <1>1, <4>1
    <3>3. CASE Close(p)
      <4>1. got'[p] = 0 /\ \A q \in Pages : q # p => got'[q] = got[q]
        BY <1>0, <3>3, CloseFacts
      <4>2. QED BY <1>0, <1>1, <4>1
    <3>4. CASE ~Receive(p) /\ ~DrainStep(p) /\ ~Close(p)
      <4>1. got' = got
        BY <1>2, <3>4 DEF Page, DrainStep, Open, Draw, Erase, Timer, Settle, Land, AppendFails
      <4>2. QED BY <1>0, <1>1, <4>1
    <3>5. QED BY <3>1, <3>2, <3>3, <3>4
  <2>5. BotTypes' /\ NotesInv'
    BY <1>1, <2>1, BotStays
  <2>6. Counts'
    BY <1>0, <2>1, <2>3 DEF Counts
  <2>7. QED BY <1>0, <1>1, <1>a, <2>1, <2>2, <2>4, <2>5, <2>6 DEF AllTypes
<1>3. CASE Bot
  <2>1. UNCHANGED <<cast, draining, deaf, up, got, opens>>
    BY <1>3 DEF Bot, Skip, Ask, Suggest, CallFails, CallEnds, Emit, EmitFails, page
  <2>2. calls' \in Nat /\ faults' \in Nat
    <3>1. calls' = calls \/ calls' = calls + 1
      BY <1>3 DEF Bot, Skip, Ask, Suggest, CallFails, CallEnds, Emit, EmitFails
    <3>2. faults' = faults \/ faults' = faults + 1
      BY <1>3 DEF Bot, Skip, Ask, Suggest, CallFails, CallEnds, Emit, EmitFails, Strikes
    <3>3. QED BY <1>0, <3>1, <3>2 DEF Counts
  <2>3. BotTypes' /\ NotesInv'
    BY <1>3, BotStep
  <2>4. Counts'
    BY <1>0, <2>1, <2>2 DEF Counts
  <2>5. \A q \in Pages : got'[q] <= Len(log')
    BY <1>0, <1>1, <2>1
  <2>6. QED BY <1>0, <1>1, <2>1, <2>3, <2>4, <2>5, <1>a DEF AllTypes
<1>4. CASE UNCHANGED vars
  <2>1. UNCHANGED <<cast, draining, deaf, up, got, opens, calls, faults, agent, prior, made,
                    broken>>
    BY <1>4 DEF vars
  <2>2. BotTypes' /\ NotesInv'
    BY <1>1, <2>1, BotStays
  <2>3. Counts'
    BY <1>0, <2>1 DEF Counts
  <2>4. \A q \in Pages : got'[q] <= Len(log')
    BY <1>0, <1>1, <2>1
  <2>5. QED BY <1>0, <1>1, <2>1, <2>2, <2>3, <2>4, <1>a DEF AllTypes
<1>5. QED BY <1>2, <1>3, <1>4 DEF Next
----------------------------------------------------------------------------
\* Every change is in one place: it waits, or is under way, or is in the log.

Fresh ==
    /\ \A p \in Pages, s \in Things : pending[p][s] <= edits
    /\ \A p \in Pages : \A f \in flight[p] : f.edit <= edits /\ f.edit # 0
    /\ \A i \in DOMAIN log : log[i].by # Agent => log[i].edit <= edits /\ log[i].edit # 0

WaitOnce ==
    \A p, q \in Pages, s, t \in Things :
        pending[p][s] = pending[q][t] /\ pending[p][s] # 0 => p = q /\ s = t

WaitOrGo ==
    \A p, q \in Pages, t \in Things : \A f \in flight[p] : f.edit # pending[q][t]

GoOnce ==
    \A p, q \in Pages : \A f \in flight[p], g \in flight[q] : f.edit = g.edit => p = q /\ f = g

WaitOrLogged ==
    \A i \in DOMAIN log : log[i].by # Agent =>
        \A p \in Pages, s \in Things : pending[p][s] # log[i].edit

GoOrLogged ==
    \A i \in DOMAIN log : log[i].by # Agent =>
        \A p \in Pages : \A f \in flight[p] : f.edit # log[i].edit

Unique == Fresh /\ WaitOnce /\ WaitOrGo /\ GoOnce /\ WaitOrLogged /\ GoOrLogged /\ NoEcho

\* What a step adds to the appends under way, and what it cancels.
Moved(p, W) ==
    /\ UNCHANGED <<log, edits>>
    /\ \A q \in Pages : \A g \in flight'[q] :
          \/ g \in flight[q]
          \/ q = p /\ \E s \in W : /\ g = Upsert(p, s) /\ g.edit = pending[p][s]
                                   /\ g.shape = s /\ g.beside = Underway(p)
                                   /\ pending[p][s] # 0 /\ pending'[p][s] = 0
    /\ \A q \in Pages, t \in Things : pending'[q][t] \in {0, pending[q][t]}

\* Sent in these terms.
LEMMA SentMoves ==
    ASSUME Types, NEW p \in Pages, NEW W \in SUBSET Things, Sent(p, W) PROVE Moved(p, W)
<1>1. \A q \in Pages : \A g \in flight'[q] :
          g \in flight[q] \/ (q = p /\ \E s \in W : g = Upsert(p, s))
  <2>1. /\ flight'[p] = flight[p] \cup {Upsert(p, s) : s \in W}
        /\ \A q \in Pages : q # p => flight'[q] = flight[q]
    BY DEF Sent
  <2>2. QED BY <2>1
<1>2. \A s \in W : /\ Upsert(p, s).edit = pending[p][s] /\ pending[p][s] # 0
                   /\ Upsert(p, s).shape = s /\ Upsert(p, s).beside = Underway(p)
                   /\ pending'[p][s] = 0
  BY DEF Sent, Upsert, Waiting
<1>3. QED BY <1>1, <1>2 DEF Sent, Moved

\* Landed in these terms.
Lands(p, f) ==
    /\ UNCHANGED <<pending, edits>>
    /\ \A q \in Pages : \A g \in flight'[q] : g \in flight[q] /\ ~(q = p /\ g = f)
    /\ \A i \in DOMAIN log' :
          \/ i \in DOMAIN log /\ log'[i] = log[i] /\ i < Len(log) + 1
          \/ /\ i = Len(log) + 1 /\ log'[i].by = p /\ log'[i].shape = f.shape
             /\ log'[i].edit = f.edit /\ log'[i].beside = f.beside

\* An append that lands leaves the flight and is the one new entry.
LEMMA LandedMoves ==
    ASSUME Types, NEW p \in Pages, NEW f \in flight[p], Landed(p, f) PROVE Lands(p, f)
<1>1. \A i \in DOMAIN log' : (i \in DOMAIN log /\ i < Len(log) + 1) \/ i = Len(log) + 1
  BY DEF Landed, Extends
<1>2. QED BY <1>1 DEF Landed, Gone, Extends, Lands

\* No step makes two of one change: it moves on, or it is cancelled or lost.
LEMMA UniqueStep ==
    ASSUME CanvasAssumption, Types, Types', Unique, Kinds
    PROVE  Unique'
<1> USE DEF Unique
<1>0. /\ edits \in Nat /\ \A p \in Pages, s \in Things : pending[p][s] \in Nat
      /\ \A p \in Pages : \A f \in flight[p] : f.edit \in Nat
      /\ \A i \in DOMAIN log : log[i].edit \in Nat
  <2>1. \A p \in Pages : flight[p] \subseteq Flight
    BY DEF Types
  <2>2. \A i \in DOMAIN log : log[i] \in Entry
    BY DEF Types
  <2>3. QED BY <2>1, <2>2 DEF Types, Flight, Entry, Edit
<1>1. CASE Kept
  BY <1>1 DEF Kept, Fresh, WaitOnce, WaitOrGo, GoOnce, WaitOrLogged, GoOrLogged, NoEcho
<1>2. ASSUME NEW p \in Pages, NEW s \in Things, Drawn(p, s) PROVE Unique'
  <2>1. Fresh'
    BY <1>0, <1>2 DEF Drawn, Fresh
  <2>2. WaitOnce'
    BY <1>0, <1>2 DEF Drawn, Fresh, WaitOnce
  <2>3. WaitOrGo' /\ WaitOrLogged'
    BY <1>0, <1>2 DEF Drawn, Fresh, WaitOrGo, WaitOrLogged
  <2>4. GoOnce' /\ GoOrLogged' /\ NoEcho'
    BY <1>2 DEF Drawn, GoOnce, GoOrLogged, NoEcho
  <2>5. QED BY <2>1, <2>2, <2>3, <2>4
<1>3. ASSUME NEW p \in Pages, NEW s \in Things, NEW f \in Flight, Erased(p, s, f)
      PROVE  Unique'
  <2>0. /\ f.edit = edits + 1 /\ edits' = edits + 1 /\ UNCHANGED log
        /\ \A q \in Pages : \A g \in flight'[q] : g \in flight[q] \/ (q = p /\ g = f)
        /\ \A q \in Pages, t \in Things : pending'[q][t] \in {0, pending[q][t]}
    BY <1>3 DEF Erased
  <2>1. Fresh'
    BY <1>0, <2>0 DEF Fresh
  <2>2. WaitOnce'
    BY <1>0, <2>0 DEF WaitOnce
  <2>3. WaitOrGo' /\ WaitOrLogged'
    BY <1>0, <2>0 DEF Fresh, WaitOrGo, WaitOrLogged
  <2>4. GoOnce' /\ GoOrLogged'
    BY <1>0, <2>0 DEF Fresh, GoOnce, GoOrLogged
  <2>5. NoEcho'
    BY <2>0 DEF NoEcho
  <2>6. QED BY <2>1, <2>2, <2>3, <2>4, <2>5
<1>4. ASSUME NEW p \in Pages, NEW W \in SUBSET Things, Sent(p, W) PROVE Unique'
  <2>0. Moved(p, W)
    BY <1>4, SentMoves
  <2> USE DEF Moved
  <2>1. Fresh'
    BY <1>0, <2>0 DEF Fresh
  <2>2. WaitOnce'
    BY <1>0, <2>0 DEF WaitOnce
  <2>3. WaitOrGo'
    BY <1>0, <2>0 DEF Fresh, WaitOrGo, WaitOnce
  <2>4. WaitOrLogged'
    BY <1>0, <2>0 DEF Fresh, WaitOrLogged
  <2>5. GoOnce'
    BY <1>0, <2>0 DEF GoOnce, WaitOrGo, WaitOnce
  <2>6. GoOrLogged'
    BY <1>0, <2>0 DEF GoOrLogged, WaitOrLogged
  <2>7. NoEcho'
    BY <2>0 DEF NoEcho
  <2>8. QED BY <2>1, <2>2, <2>3, <2>4, <2>5, <2>6, <2>7
<1>5. ASSUME NEW p \in Pages, NEW f \in flight[p], Gone(p, f), UNCHANGED log PROVE Unique'
  BY <1>5 DEF Gone, Fresh, WaitOnce, WaitOrGo, GoOnce, WaitOrLogged, GoOrLogged, NoEcho
<1>6. ASSUME NEW p \in Pages, NEW f \in flight[p], Landed(p, f) PROVE Unique'
  <2>0. Lands(p, f) /\ Len(log) \in Nat
    BY <1>6, LandedMoves DEF Landed, Extends
  <2> USE DEF Lands
  <2>1. Fresh'
    BY <1>0, <2>0 DEF Fresh
  <2>2. WaitOnce' /\ WaitOrGo' /\ GoOnce'
    BY <2>0 DEF WaitOnce, WaitOrGo, GoOnce
  <2>3. WaitOrLogged'
    BY <2>0 DEF WaitOrLogged, WaitOrGo
  <2>4. GoOrLogged'
    BY <2>0 DEF GoOrLogged, GoOnce
  <2>5. NoEcho'
    BY <2>0 DEF NoEcho, GoOrLogged
  <2>6. QED BY <2>1, <2>2, <2>3, <2>4, <2>5
<1>7. CASE Pinned
  <2>1. /\ UNCHANGED <<pending, flight, edits>>
        /\ \A i \in DOMAIN log' : log'[i].by # Agent => i \in DOMAIN log /\ log'[i] = log[i]
    BY <1>7 DEF Pinned, Extends
  <2>2. QED
    BY <2>1 DEF Fresh, WaitOnce, WaitOrGo, GoOnce, WaitOrLogged, GoOrLogged, NoEcho
<1>8. QED BY <1>1, <1>2, <1>3, <1>4, <1>5, <1>6, <1>7 DEF Kinds, Failed
----------------------------------------------------------------------------
\* Changes of one page to one shape keep their order.

GoInOrder ==
    \A p \in Pages : \A f, g \in flight[p] :
        f.shape = g.shape /\ f.edit < g.edit => f.edit \in g.beside

WaitLast ==
    \A p \in Pages : \A f \in flight[p] :
        f.shape \in Things /\ pending[p][f.shape] # 0 => f.edit < pending[p][f.shape]

GoAfterLogged ==
    \A i \in DOMAIN log : log[i].by # Agent =>
        \A f \in flight[log[i].by] :
            f.shape = log[i].shape => log[i].edit < f.edit \/ f.edit \in log[i].beside

WaitAfterLogged ==
    \A i \in DOMAIN log : log[i].by # Agent /\ log[i].shape \in Things =>
        \/ pending[log[i].by][log[i].shape] = 0
        \/ log[i].edit < pending[log[i].by][log[i].shape]

Ordered == GoInOrder /\ WaitLast /\ GoAfterLogged /\ WaitAfterLogged /\ OrderKept

\* What goes out carries all that is under way, so nothing overtakes unseen.
LEMMA OrderStep ==
    ASSUME CanvasAssumption, Types, ShapedInv, Unique, Ordered, Kinds
    PROVE  Ordered'
<1> USE DEF Ordered
<1>0. /\ edits \in Nat /\ \A p \in Pages, s \in Things : pending[p][s] \in Nat
      /\ \A p \in Pages : \A f \in flight[p] : f.edit \in Nat /\ f.shape \in Things
      /\ \A i \in DOMAIN log : log[i].edit \in Nat
      /\ \A i \in DOMAIN log : log[i].by # Agent => log[i].by \in Pages /\ log[i].shape \in Things
  <2>1. \A p \in Pages : flight[p] \subseteq Flight
    BY DEF Types
  <2>2. \A i \in DOMAIN log : log[i] \in Entry
    BY DEF Types
  <2>3. QED BY <2>1, <2>2 DEF Types, Flight, Entry, Edit, ShapedInv
<1>1. CASE Kept
  BY <1>1 DEF Kept, GoInOrder, WaitLast, GoAfterLogged, WaitAfterLogged, OrderKept
<1>2. ASSUME NEW p \in Pages, NEW s \in Things, Drawn(p, s) PROVE Ordered'
  <2>1. GoInOrder' /\ GoAfterLogged' /\ OrderKept'
    BY <1>2 DEF Drawn, GoInOrder, GoAfterLogged, OrderKept
  <2>2. WaitLast'
    BY <1>0, <1>2 DEF Drawn, WaitLast, Unique, Fresh
  <2>3. WaitAfterLogged'
    BY <1>0, <1>2 DEF Drawn, WaitAfterLogged, Unique, Fresh
  <2>4. QED BY <2>1, <2>2, <2>3
<1>3. ASSUME NEW p \in Pages, NEW s \in Things, NEW f \in Flight, Erased(p, s, f)
      PROVE  Ordered'
  <2>0. /\ f.edit = edits + 1 /\ edits' = edits + 1 /\ UNCHANGED log /\ f.shape = s
        /\ \A g \in flight[p] : g.edit \in f.beside
        /\ \A q \in Pages : \A g \in flight'[q] : g \in flight[q] \/ (q = p /\ g = f)
        /\ \A q \in Pages, t \in Things : pending'[q][t] \in {0, pending[q][t]}
        /\ pending'[p][s] = 0
    BY <1>3 DEF Erased, Underway
  <2>1. GoInOrder'
    BY <1>0, <2>0 DEF GoInOrder, Unique, Fresh
  <2>2. WaitLast'
    BY <1>0, <2>0 DEF WaitLast
  <2>3. GoAfterLogged'
    BY <1>0, <2>0 DEF GoAfterLogged, Unique, Fresh
  <2>4. WaitAfterLogged'
    BY <1>0, <2>0 DEF WaitAfterLogged
  <2>5. OrderKept'
    BY <2>0 DEF OrderKept
  <2>6. QED BY <2>1, <2>2, <2>3, <2>4, <2>5
<1>4. ASSUME NEW p \in Pages, NEW W \in SUBSET Things, Sent(p, W) PROVE Ordered'
  <2>0. Moved(p, W)
    BY <1>4, SentMoves
  <2> USE DEF Moved
  <2>1. GoInOrder'
    BY <1>0, <2>0 DEF GoInOrder, WaitLast, Underway
  <2>2. WaitLast'
    BY <1>0, <2>0 DEF WaitLast
  <2>3. GoAfterLogged'
    BY <1>0, <2>0 DEF GoAfterLogged, WaitAfterLogged
  <2>4. WaitAfterLogged'
    BY <1>0, <2>0 DEF WaitAfterLogged
  <2>5. OrderKept'
    BY <2>0 DEF OrderKept
  <2>6. QED BY <2>1, <2>2, <2>3, <2>4, <2>5
<1>5. ASSUME NEW p \in Pages, NEW f \in flight[p], Gone(p, f), UNCHANGED log PROVE Ordered'
  BY <1>0, <1>5 DEF Gone, GoInOrder, WaitLast, GoAfterLogged, WaitAfterLogged, OrderKept
<1>6. ASSUME NEW p \in Pages, NEW f \in flight[p], Landed(p, f) PROVE Ordered'
  <2>0. Lands(p, f) /\ Len(log) \in Nat
    BY <1>6, LandedMoves DEF Landed, Extends
  <2>1. GoInOrder' /\ WaitLast'
    BY <1>0, <2>0 DEF Lands, GoInOrder, WaitLast
  <2>2. GoAfterLogged'
    <3>1. \A g \in flight[p] : g # f => g.edit # f.edit
      BY DEF Unique, GoOnce
    <3>2. \A g \in flight'[p] :
              g.shape = f.shape => f.edit < g.edit \/ g.edit \in f.beside
      BY <1>0, <2>0, <3>1 DEF Lands, GoInOrder
    <3>3. QED BY <1>0, <2>0, <3>2 DEF Lands, GoAfterLogged
  <2>3. WaitAfterLogged'
    BY <1>0, <2>0 DEF Lands, WaitAfterLogged, WaitLast
  <2>4. OrderKept'
    BY <1>0, <2>0 DEF Lands, OrderKept, GoAfterLogged
  <2>5. QED BY <2>1, <2>2, <2>3, <2>4
<1>7. CASE Pinned
  <2>1. /\ UNCHANGED <<pending, flight, edits>>
        /\ \A i \in DOMAIN log' : log'[i].by # Agent => i \in DOMAIN log /\ log'[i] = log[i]
    BY <1>7 DEF Pinned, Extends
  <2>2. QED BY <2>1 DEF GoInOrder, WaitLast, GoAfterLogged, WaitAfterLogged, OrderKept
<1>8. QED BY <1>1, <1>2, <1>3, <1>4, <1>5, <1>6, <1>7 DEF Kinds, Failed
----------------------------------------------------------------------------
\* The last change of a user to a shape is somewhere.

Placed(p, s) ==
    \/ last[p][s] \in lost \cup {0}
    \/ pending[p][s] = last[p][s]
    \/ \E f \in flight[p] : f.shape = s /\ f.edit = last[p][s]
    \/ \E i \in DOMAIN log : log[i].by = p /\ log[i].edit = last[p][s]

LoggedInv ==
    \A p \in Pages, s \in Things : Placed(p, s) /\ pending[p][s] \in {0, last[p][s]}

\* Changes wait and go out as what they are, and are lost only as an append that fails.
LEMMA LoggedStep ==
    ASSUME TypeOK, NotesInv, LoggedInv, [Next]_vars
    PROVE  LoggedInv'
<1>0. Types /\ Extends(log, log')
  BY PageTypes, StepKinds, LogGrows
<1>1. \A p \in Pages : \A i \in DOMAIN log :
          log[i].by = p => i \in DOMAIN log' /\ log'[i].by = p /\ log'[i].edit = log[i].edit
  BY <1>0 DEF Extends
<1>2. ASSUME UNCHANGED <<pending, flight, last, lost>> PROVE LoggedInv'
  BY <1>1, <1>2 DEF LoggedInv, Placed
<1>3. ASSUME NEW p \in Pages, NEW s \in Things, Draw(p, s) PROVE LoggedInv'
  <2>1. /\ Drawn(p, s) /\ UNCHANGED lost
        /\ \A q \in Pages, t \in Things :
              last'[q][t] = IF q = p /\ t = s THEN edits + 1 ELSE last[q][t]
    BY <1>0, <1>3, DrawFacts
  <2>2. /\ UNCHANGED <<flight, lost, log>>
        /\ pending'[p][s] = last'[p][s]
        /\ \A q \in Pages, t \in Things : q # p \/ t # s =>
              last'[q][t] = last[q][t] /\ pending'[q][t] = pending[q][t]
    BY <2>1 DEF Drawn
  <2>3. QED BY <2>2 DEF LoggedInv, Placed
<1>4. ASSUME NEW p \in Pages, NEW s \in Things, Erase(p, s) PROVE LoggedInv'
  <2>1. PICK f \in Flight : Erased(p, s, f)
    BY <1>0, <1>4, EraseFacts
  <2>2. /\ UNCHANGED lost
        /\ \A q \in Pages, t \in Things :
              last'[q][t] = IF q = p /\ t = s THEN edits + 1 ELSE last[q][t]
    BY <1>0, <1>4, EraseFacts
  <2>3. /\ UNCHANGED <<lost, log>> /\ \A q \in Pages : flight[q] \subseteq flight'[q]
        /\ f \in flight'[p] /\ f.shape = s /\ f.edit = last'[p][s] /\ pending'[p][s] = 0
        /\ \A q \in Pages, t \in Things : q # p \/ t # s =>
              last'[q][t] = last[q][t] /\ pending'[q][t] = pending[q][t]
    BY <2>1, <2>2 DEF Erased
  <2>4. ASSUME NEW q \in Pages, NEW t \in Things
        PROVE  Placed(q, t)' /\ pending'[q][t] \in {0, last'[q][t]}
    <3>1. CASE q = p /\ t = s
      BY <2>3, <3>1 DEF Placed
    <3>2. CASE q # p \/ t # s
      BY <2>3, <3>2 DEF LoggedInv, Placed
    <3>3. QED BY <3>1, <3>2
  <2>5. QED BY <2>4 DEF LoggedInv
<1>5. ASSUME NEW p \in Pages, NEW W \in SUBSET Things, Sent(p, W), UNCHANGED <<last, lost>>
      PROVE  LoggedInv'
  <2>1. /\ UNCHANGED <<last, lost, log>> /\ \A q \in Pages : flight[q] \subseteq flight'[q]
        /\ \A t \in W : Upsert(p, t) \in flight'[p]
        /\ \A q \in Pages, t \in Things :
              \/ pending'[q][t] = pending[q][t]
              \/ q = p /\ t \in W /\ pending'[q][t] = 0
    BY <1>5 DEF Sent
  <2>2. \A t \in W : Upsert(p, t).shape = t /\ Upsert(p, t).edit = pending[p][t]
    BY DEF Upsert
  <2>3. ASSUME NEW q \in Pages, NEW t \in Things
        PROVE  Placed(q, t)' /\ pending'[q][t] \in {0, last'[q][t]}
    <3>1. CASE pending'[q][t] = pending[q][t]
      BY <2>1, <3>1 DEF LoggedInv, Placed
    <3>2. CASE q = p /\ t \in W /\ pending'[q][t] = 0
      <4>1. pending[p][t] = last[p][t] \/ ~(pending[p][t] = last[p][t])
        OBVIOUS
      <4>2. CASE pending[p][t] = last[p][t]
        <5>1. /\ Upsert(p, t) \in flight'[q] /\ Upsert(p, t).shape = t
              /\ Upsert(p, t).edit = last'[q][t]
          BY <2>1, <2>2, <3>2, <4>2
        <5>2. QED BY <3>2, <5>1 DEF Placed
      <4>3. CASE ~(pending[p][t] = last[p][t])
        BY <2>1, <3>2, <4>3 DEF LoggedInv, Placed
      <4>4. QED BY <4>1, <4>2, <4>3
    <3>3. QED BY <2>1, <3>1, <3>2
  <2>4. QED BY <2>3 DEF LoggedInv
<1>6. ASSUME NEW p \in Pages, NEW f \in flight[p], Land(p, f) PROVE LoggedInv'
  <2>1. Landed(p, f) /\ UNCHANGED <<last, lost>>
    BY <1>0, <1>6, LandFacts
  <2>2. /\ UNCHANGED <<pending, last, lost>>
        /\ \A q \in Pages : \A g \in flight[q] : g \in flight'[q] \/ (q = p /\ g = f)
        /\ Len(log) + 1 \in DOMAIN log' /\ log'[Len(log) + 1].by = p
        /\ log'[Len(log) + 1].edit = f.edit
    BY <2>1 DEF Landed, Gone, Extends
  <2>3. ASSUME NEW q \in Pages, NEW t \in Things PROVE Placed(q, t)'
    BY <1>1, <2>2 DEF LoggedInv, Placed
  <2>4. QED BY <2>2, <2>3 DEF LoggedInv
<1>7. ASSUME NEW p \in Pages, NEW f \in flight[p], AppendFails(p, f) PROVE LoggedInv'
  <2>1. Failed(p, f) /\ UNCHANGED last
    BY <1>0, <1>7, FailsFacts
  <2>2. /\ UNCHANGED <<pending, last, log>> /\ lost' = lost \cup {f.edit}
        /\ \A q \in Pages : \A g \in flight[q] : g \in flight'[q] \/ (q = p /\ g = f)
    BY <2>1 DEF Failed, Gone
  <2>3. QED BY <2>2 DEF LoggedInv, Placed
<1>8. ASSUME NEW p \in Pages, Page(p) PROVE LoggedInv'
  <2>1. CASE Open(p)
    BY <1>0, <1>2, <2>1, OpenFacts DEF Kept
  <2>2. CASE DrainStep(p)
    BY <1>0, <1>2, <2>2, DrainFacts DEF Kept
  <2>3. CASE Receive(p)
    BY <1>0, <1>2, <2>3, ReceiveFacts DEF Kept
  <2>4. CASE Close(p)
    <3>1. Waiting(p) \in SUBSET Things
      BY DEF Waiting
    <3>2. QED BY <1>0, <1>5, <2>4, <3>1, CloseFacts
  <2>5. ASSUME NEW s \in Things, Timer(p, s) PROVE LoggedInv'
    <3>1. Sent(p, {s}) /\ UNCHANGED <<last, lost>> /\ {s} \in SUBSET Things
      BY <1>0, <2>5, TimerFacts
    <3>2. QED BY <1>5, <3>1
  <2>6. QED
    BY <1>3, <1>4, <1>6, <1>7, <1>8, <2>1, <2>2, <2>3, <2>4, <2>5 DEF Page, Settle, DrainStep
<1>9. CASE Bot
  <2>1. CASE Emit
    BY <1>2, <2>1, EmitPins DEF Pinned
  <2>2. CASE Skip \/ Ask \/ CallFails \/ CallEnds \/ EmitFails \/ \E n \in Notes : Suggest(n)
    BY <1>2, <2>2, BotFacts
  <2>3. QED BY <1>9, <2>1, <2>2 DEF Bot
<1>10. CASE UNCHANGED vars
  BY <1>2, <1>10 DEF vars
<1>11. QED BY <1>8, <1>9, <1>10 DEF Next
----------------------------------------------------------------------------
\* The fold of the log.

\* A non-empty set of numbers up to n has a largest member.
LEMMA Largest ==
    ASSUME NEW n \in Nat, NEW T, T \subseteq 1 .. n, T # {}
    PROVE  \E i \in T : \A j \in T : j <= i
<1> DEFINE R == OpToRel(<, Nat)
           U == {n - i : i \in T}
<1>1. IsWellFoundedOn(R, Nat)
  BY NatLessThanWellFounded
<1>2. \A x, y \in Nat : y < x => <<y, x>> \in R
  BY DEF OpToRel
<1>3. U \subseteq Nat /\ U # {}
  <2>1. \A i \in T : n - i \in Nat
    OBVIOUS
  <2>2. PICK i \in T : TRUE
    OBVIOUS
  <2>3. n - i \in U
    OBVIOUS
  <2>4. QED BY <2>1, <2>3
<1> HIDE DEF R
<1>4. PICK x \in U : \A y \in U : ~ (<<y, x>> \in R)
  <2> HIDE DEF U
  <2>1. QED BY <1>1, <1>3, WFMin
<1>5. PICK i \in T : x = n - i
  OBVIOUS
<1>6. \A j \in T : n - j \in U /\ n - j \in Nat /\ j \in Nat
  OBVIOUS
<1>7. \A j \in T : ~(n - j < n - i)
  BY <1>2, <1>3, <1>4, <1>5, <1>6
<1>8. QED BY <1>5, <1>6, <1>7

\* i is the last entry about t.
LastTouch(t, i) == i \in Touches(t) /\ \A j \in Touches(t) : j <= i

FoldsLast == \A t, i : LastTouch(t, i) => Folded(t) = Record(log[i])

HasLast == \A t : Touches(t) = {} \/ \E i : LastTouch(t, i)

\* The fold of a shape is what its last entry leaves, and there is one if there are any.
LEMMA FoldReads == ASSUME Types PROVE FoldsLast /\ HasLast
<1>1. DOMAIN log = 1 .. Len(log) /\ Len(log) \in Nat
  BY DEF Types
<1>2. ASSUME NEW t, NEW i, LastTouch(t, i) PROVE Folded(t) = Record(log[i])
  <2> DEFINE c == CHOOSE k \in Touches(t) : \A j \in Touches(t) : j <= k
  <2>1. Touches(t) # {} /\ Touches(t) \subseteq Nat
    BY <1>1, <1>2 DEF LastTouch, Touches
  <2>2. c \in Touches(t) /\ \A j \in Touches(t) : j <= c
    BY <1>2 DEF LastTouch
  <2>3. Folded(t) = Record(log[c])
    BY <2>1 DEF Folded
  <2> HIDE DEF c
  <2>4. c = i
    BY <1>2, <2>1, <2>2 DEF LastTouch
  <2>5. QED BY <2>3, <2>4
<1>3. ASSUME NEW t, Touches(t) # {} PROVE \E i : LastTouch(t, i)
  <2>1. Touches(t) \subseteq 1 .. Len(log)
    BY <1>1 DEF Touches
  <2>2. QED BY <1>1, <1>3, <2>1, Largest DEF LastTouch
<1>4. QED BY <1>2, <1>3 DEF FoldsLast, HasLast

\* What says nothing of a shape leaves its fold alone.
LEMMA FoldKept ==
    ASSUME Types, Types', Extends(log, log'), NEW t,
           \A i \in DOMAIN log' : i > Len(log) => log'[i].shape # t
    PROVE  Folded(t)' = Folded(t)
<1>1. FoldsLast /\ HasLast
  BY FoldReads
<1>a. Types' => FoldsLast' /\ HasLast'
  BY FoldReads, PTL
<1>2. FoldsLast' /\ HasLast'
  BY <1>a
<1>3. Touches(t)' = Touches(t)
  <2>1. \A i \in DOMAIN log' : i \in DOMAIN log \/ i > Len(log)
    BY DEF Extends
  <2>2. \A i \in DOMAIN log : i \in DOMAIN log' /\ log'[i] = log[i]
    BY DEF Extends
  <2>3. QED BY <2>1, <2>2 DEF Touches
<1>4. CASE Touches(t) = {}
  BY <1>3, <1>4 DEF Folded
<1>5. CASE Touches(t) # {}
  <2>1. PICK i : LastTouch(t, i)
    BY <1>1, <1>5 DEF HasLast
  <2>2. LastTouch(t, i)' /\ i \in DOMAIN log
    BY <1>3, <2>1 DEF LastTouch, Touches
  <2>3. log'[i] = log[i]
    BY <2>2 DEF Extends
  <2>4. Folded(t) = Record(log[i]) /\ Folded(t)' = Record(log'[i])
    BY <1>1, <1>2, <2>1, <2>2 DEF FoldsLast
  <2>5. QED BY <2>3, <2>4
<1>6. QED BY <1>4, <1>5
----------------------------------------------------------------------------
\* A page shows what the fold shows of a shape, or it will.

\* The page has a change of its own to the shape to send, or lost it.
Astray(p, t) ==
    /\ t \in Things
    /\ \/ last[p][t] \in lost \/ pending[p][t] # 0
       \/ \E f \in flight[p] : f.shape = t /\ f.edit = last[p][t]

\* The page has an entry about it to apply.
Coming(p, t) == \E i \in DOMAIN log : i > got[p] /\ log[i].shape = t

Settled(p, t) == Astray(p, t) \/ Coming(p, t) \/ canvas[p][t] = Folded(t)

\* What a canvas can show.
Fitting == Things \ Misfits

ConvInv == \A p \in up, t \in Fitting : Settled(p, t)

\* A page that is not open starts from nothing.
UpInv == \A p \in Pages : p \notin up => got[p] = 0 /\ \A t \in Things : canvas[p][t] = 0

\* More of the log, all else equal.
LEMMA GrownSettled ==
    ASSUME Types, Types', Extends(log, log'), NEW p \in Pages, NEW t \in Things,
           got[p] <= Len(log), UNCHANGED <<got, canvas>>, Astray(p, t) => Astray(p, t)',
           Settled(p, t)
    PROVE  Settled(p, t)'
<1>0. got[p] \in Nat /\ Len(log) \in Nat
  BY DEF Types
<1>1. CASE \E i \in DOMAIN log' : i > Len(log) /\ log'[i].shape = t
  <2>1. PICK i \in DOMAIN log' : i > Len(log) /\ log'[i].shape = t
    BY <1>1
  <2>2. i > got[p]
    BY <1>0, <2>1 DEF Extends
  <2>3. QED BY <2>1, <2>2 DEF Settled, Coming
<1>2. CASE ~ \E i \in DOMAIN log' : i > Len(log) /\ log'[i].shape = t
  <2>1. Folded(t)' = Folded(t)
    BY <1>2, FoldKept
  <2>2. Coming(p, t) => Coming(p, t)'
    BY DEF Coming, Extends
  <2>3. canvas[p][t] = Folded(t) => (canvas[p][t] = Folded(t))'
    BY <2>1
  <2>4. QED BY <2>2, <2>3 DEF Settled
<1>3. QED BY <1>1, <1>2

\* The same log, place and canvas cell, and nothing sent that was not put in the log.
LEMMA StillSettled ==
    ASSUME UNCHANGED log, NEW p, NEW t, got'[p] = got[p], canvas'[p][t] = canvas[p][t],
           Astray(p, t) => Astray(p, t)', Settled(p, t)
    PROVE  Settled(p, t)'
<1>1. Folded(t)' = Folded(t)
  BY DEF Folded, Touches
<1>2. Coming(p, t) => Coming(p, t)'
  BY DEF Coming
<1>3. QED BY <1>1, <1>2 DEF Settled

\* What a page that receives shows of a shape.
LEMMA ReceiveSettles ==
    ASSUME Types, NEW p \in Pages, Receive(p), NEW q \in Pages, NEW t \in Fitting, Settled(q, t)
    PROVE  Settled(q, t)'
<1> DEFINE k == got[p] + 1
<1>1. /\ UNCHANGED <<log, pending, flight, last, lost>> /\ k \in DOMAIN log
      /\ \A r \in Pages : got'[r] = IF r = p THEN k ELSE got[r]
      /\ \A r \in Pages, x \in Things :
            canvas'[r][x] = IF r = p /\ x = log[k].shape THEN Shown(p, log[k]) ELSE canvas[r][x]
      /\ t \in Things
  BY ReceiveFacts DEF Kept, Fitting
<1>2. Astray(q, t) => Astray(q, t)'
  BY <1>1 DEF Astray
<1>3. CASE q # p
  BY <1>1, <1>2, <1>3, StillSettled
<1>4. CASE q = p /\ \E i \in DOMAIN log : i > k /\ log[i].shape = t
  BY <1>1, <1>4 DEF Settled, Coming
<1>5. CASE q = p /\ ~ \E i \in DOMAIN log : i > k /\ log[i].shape = t
  <2>1. \A i \in DOMAIN log : i \in Nat /\ got[p] \in Nat
    BY DEF Types
  <2>2. CASE log[k].shape = t
    <3>1. LastTouch(t, k)
      BY <1>1, <1>5, <2>1, <2>2 DEF LastTouch, Touches
    <3>2. Folded(t) = Record(log[k])
      BY <3>1, FoldReads DEF FoldsLast
    <3>3. Folded(t)' = Folded(t)
      BY <1>1 DEF Folded, Touches
    <3>4. canvas'[q][t] = Record(log[k])
      <4>1. Shown(p, log[k]) = Record(log[k])
        BY <2>2 DEF Fitting, Shown, Refused
      <4>2. QED BY <1>1, <1>5, <2>2, <4>1
    <3>5. QED BY <3>2, <3>3, <3>4 DEF Settled
  <2>3. CASE log[k].shape # t
    <3>1. ~Coming(q, t)
      BY <1>1, <1>5, <2>1, <2>3 DEF Coming
    <3>2. CASE Astray(q, t)
      BY <1>2, <3>2 DEF Settled
    <3>3. CASE canvas[q][t] = Folded(t)
      <4>1. Folded(t)' = Folded(t)
        BY <1>1 DEF Folded, Touches
      <4>2. canvas'[q][t] = canvas[q][t]
        BY <1>1, <1>5, <2>3
      <4>3. QED BY <3>3, <4>1, <4>2 DEF Settled
    <3>4. QED BY <3>1, <3>2, <3>3 DEF Settled
  <2>4. QED BY <2>2, <2>3
<1>6. QED BY <1>3, <1>4, <1>5
----------------------------------------------------------------------------

\* Every step leaves an open page astray, with more to apply, or showing the fold.
LEMMA ConvStep ==
    ASSUME TypeOK, NotesInv, LoggedInv, UpInv, ConvInv, [Next]_vars
    PROVE  UpInv' /\ ConvInv'
<1>0. /\ Types /\ Types' /\ Extends(log, log') /\ up \subseteq Pages
      /\ \A p \in Pages : got[p] <= Len(log) /\ got[p] \in Nat
      /\ Fitting \subseteq Things
  BY TypeParts, StepKinds, LogGrows DEF AllTypes, Types, Fitting
<1>1. ASSUME UNCHANGED <<up, got, canvas>>,
             \A q \in Pages, t \in Things : Astray(q, t) => Astray(q, t)'
      PROVE  UpInv' /\ ConvInv'
  <2>1. UpInv'
    BY <1>1 DEF UpInv
  <2>2. ASSUME NEW q \in up, NEW t \in Fitting PROVE Settled(q, t)'
    BY <1>0, <1>1, <2>2, GrownSettled DEF ConvInv
  <2>3. QED BY <1>1, <2>1, <2>2 DEF ConvInv
<1>2. ASSUME NEW p \in Pages, Open(p) PROVE UpInv' /\ ConvInv'
  <2>1. /\ UNCHANGED <<log, pending, flight, canvas, got, last, lost>>
        /\ up' = up \cup {p} /\ p \notin up
    BY <1>0, <1>2, OpenFacts DEF Kept
  <2>2. UpInv'
    BY <2>1 DEF UpInv
  <2>3. ASSUME NEW t \in Fitting PROVE Settled(p, t)'
    <3>1. got'[p] = 0 /\ canvas'[p][t] = 0
      BY <1>0, <2>1 DEF UpInv
    <3>2. CASE Touches(t)' = {}
      BY <3>1, <3>2 DEF Settled, Folded
    <3>3. CASE Touches(t)' # {}
      <4>1. PICK i \in DOMAIN log' : log'[i].shape = t
        BY <3>3 DEF Touches
      <4>2. i > 0
        BY <1>0, <4>1 DEF Extends
      <4>3. QED BY <3>1, <4>1, <4>2 DEF Settled, Coming
    <3>4. QED BY <3>2, <3>3
  <2>4. ASSUME NEW q \in up, NEW t \in Fitting PROVE Settled(q, t)'
    <3>1. Astray(q, t) => Astray(q, t)'
      BY <2>1 DEF Astray
    <3>2. QED BY <2>1, <2>4, <3>1, StillSettled DEF ConvInv
  <2>5. QED BY <2>1, <2>2, <2>3, <2>4 DEF ConvInv
<1>3. ASSUME NEW p \in Pages, DrainStep(p) PROVE UpInv' /\ ConvInv'
  <2>1. /\ UNCHANGED <<log, pending, flight, canvas, up, last, lost>>
        /\ \A q \in Pages : got'[q] = got[q] \/ (q = p /\ got'[q] = 0)
    BY <1>0, <1>3, DrainFacts DEF Kept
  <2>2. UpInv'
    BY <2>1 DEF UpInv
  <2>3. ASSUME NEW q \in up, NEW t \in Fitting PROVE Settled(q, t)'
    <3>1. Astray(q, t) => Astray(q, t)'
      BY <2>1 DEF Astray
    <3>2. Folded(t)' = Folded(t)
      BY <2>1 DEF Folded, Touches
    <3>3. got'[q] <= got[q] /\ got'[q] \in Nat /\ got[q] \in Nat
      BY <1>0, <2>1
    <3>4. Coming(q, t) => Coming(q, t)'
      <4>1. \A i \in DOMAIN log : i \in Nat
        BY <1>0 DEF Extends
      <4>2. QED BY <2>1, <3>3, <4>1 DEF Coming
    <3>5. canvas'[q][t] = canvas[q][t] /\ Settled(q, t)
      BY <2>1 DEF ConvInv
    <3>6. QED BY <3>1, <3>2, <3>4, <3>5 DEF Settled
  <2>4. QED BY <2>1, <2>2, <2>3 DEF ConvInv
<1>4. ASSUME NEW p \in Pages, Receive(p) PROVE UpInv' /\ ConvInv'
  <2>1. /\ UNCHANGED up /\ p \in up
        /\ \A q \in Pages : q # p => got'[q] = got[q]
        /\ \A q \in Pages, t \in Things : q # p => canvas'[q][t] = canvas[q][t]
    BY <1>0, <1>4, ReceiveFacts
  <2>2. UpInv'
    BY <2>1 DEF UpInv
  <2>3. ASSUME NEW q \in up, NEW t \in Fitting PROVE Settled(q, t)'
    BY <1>0, <1>4, <2>3, ReceiveSettles DEF ConvInv
  <2>4. QED BY <2>1, <2>2, <2>3 DEF ConvInv
<1>5. ASSUME NEW p \in Pages, Close(p) PROVE UpInv' /\ ConvInv'
  <2>1. /\ Sent(p, Waiting(p)) /\ UNCHANGED <<last, lost>>
        /\ up' = up \ {p} /\ got'[p] = 0 /\ \A t \in Things : canvas'[p][t] = 0
        /\ \A q \in Pages : q # p => got'[q] = got[q] /\ canvas'[q] = canvas[q]
    BY <1>0, <1>5, CloseFacts
  <2>2. UpInv'
    BY <2>1 DEF UpInv
  <2>3. ASSUME NEW q \in up \ {p}, NEW t \in Fitting PROVE Settled(q, t)'
    <3>1. q \in Pages /\ q # p
      BY <1>0
    <3>2. Astray(q, t) => Astray(q, t)'
      BY <2>1, <3>1 DEF Astray, Sent
    <3>3. Settled(q, t) /\ got'[q] = got[q] /\ canvas'[q][t] = canvas[q][t] /\ UNCHANGED log
      BY <2>1, <3>1 DEF ConvInv, Sent
    <3>4. QED BY <3>2, <3>3, StillSettled
  <2>4. QED BY <2>1, <2>2, <2>3 DEF ConvInv
<1>6. ASSUME NEW p \in Pages, NEW s \in Things, p \in up, Astray(p, s)', UNCHANGED <<up, got, log>>,
             \A q \in Pages, t \in Things : q # p \/ t # s => canvas'[q][t] = canvas[q][t],
             \A q \in Pages, t \in Things :
                 q # p \/ t # s => (Astray(q, t) => Astray(q, t)')
      PROVE  UpInv' /\ ConvInv'
  <2>1. UpInv'
    BY <1>6 DEF UpInv
  <2>2. ASSUME NEW q \in up, NEW t \in Fitting PROVE Settled(q, t)'
    <3>1. CASE q = p /\ t = s
      BY <1>6, <3>1 DEF Settled
    <3>2. CASE q # p \/ t # s
      <4>1. /\ Settled(q, t) /\ got'[q] = got[q] /\ canvas'[q][t] = canvas[q][t]
            /\ Astray(q, t) => Astray(q, t)'
        BY <1>0, <1>6, <3>2 DEF ConvInv
      <4>2. QED BY <1>6, <4>1, StillSettled
    <3>3. QED BY <3>1, <3>2
  <2>3. QED BY <1>6, <2>1, <2>2 DEF ConvInv
<1>7. ASSUME NEW p \in Pages, NEW s \in Things, Draw(p, s) PROVE UpInv' /\ ConvInv'
  <2>1. /\ Drawn(p, s) /\ UNCHANGED <<up, got, lost>>
        /\ \A q \in Pages, t \in Things : q # p \/ t # s => canvas'[q][t] = canvas[q][t]
        /\ \A q \in Pages, t \in Things :
              last'[q][t] = IF q = p /\ t = s THEN edits + 1 ELSE last[q][t]
    BY <1>0, <1>7, DrawFacts
  <2>2. pending'[p][s] # 0
    BY <1>0, <2>1 DEF Drawn, Types
  <2>3. Astray(p, s)'
    BY <2>2 DEF Astray
  <2>4. \A q \in Pages, t \in Things : q # p \/ t # s => (Astray(q, t) => Astray(q, t)')
    BY <2>1 DEF Astray, Drawn
  <2>5. p \in up /\ UNCHANGED log
    BY <2>1 DEF Drawn
  <2>6. QED BY <1>6, <2>1, <2>3, <2>4, <2>5
<1>8. ASSUME NEW p \in Pages, NEW s \in Things, Erase(p, s) PROVE UpInv' /\ ConvInv'
  <2>1. PICK f \in Flight : Erased(p, s, f)
    BY <1>0, <1>8, EraseFacts
  <2>2. /\ UNCHANGED <<up, got, lost>>
        /\ \A q \in Pages, t \in Things : q # p \/ t # s => canvas'[q][t] = canvas[q][t]
        /\ \A q \in Pages, t \in Things :
              last'[q][t] = IF q = p /\ t = s THEN edits + 1 ELSE last[q][t]
    BY <1>0, <1>8, EraseFacts
  <2>3. f \in flight'[p] /\ f.shape = s /\ f.edit = last'[p][s]
    BY <2>1, <2>2 DEF Erased
  <2>4. Astray(p, s)'
    BY <2>3 DEF Astray
  <2>5. \A q \in Pages, t \in Things : q # p \/ t # s => (Astray(q, t) => Astray(q, t)')
    <3>1. \A q \in Pages : flight[q] \subseteq flight'[q]
      BY <2>1 DEF Erased
    <3>2. \A q \in Pages, t \in Things : q # p \/ t # s =>
              last'[q][t] = last[q][t] /\ pending'[q][t] = pending[q][t]
      BY <2>1, <2>2 DEF Erased
    <3>3. QED BY <2>2, <3>1, <3>2 DEF Astray
  <2>6. p \in up /\ UNCHANGED log
    BY <2>1 DEF Erased
  <2>7. QED BY <1>6, <2>2, <2>4, <2>5, <2>6
<1>9. ASSUME NEW p \in Pages, NEW s \in Things, Timer(p, s) PROVE UpInv' /\ ConvInv'
  <2>1. Sent(p, {s}) /\ UNCHANGED <<up, got, last, lost, canvas>>
    BY <1>0, <1>9, TimerFacts
  <2>2. /\ Upsert(p, s) \in flight'[p] /\ Upsert(p, s).shape = s
        /\ Upsert(p, s).edit = pending[p][s] /\ pending[p][s] # 0
        /\ \A q \in Pages : flight[q] \subseteq flight'[q]
    BY <2>1 DEF Sent, Upsert, Waiting
  <2>3. pending[p][s] = last[p][s]
    BY <2>2 DEF LoggedInv
  <2>4. ASSUME NEW q \in Pages, NEW t \in Things, Astray(q, t) PROVE Astray(q, t)'
    <3>1. CASE q = p /\ t = s
      BY <2>1, <2>2, <2>3, <3>1 DEF Astray
    <3>2. CASE ~(q = p /\ t = s)
      <4>1. t \in Things => pending'[q][t] = pending[q][t]
        BY <2>1, <3>2 DEF Sent
      <4>2. QED BY <2>1, <2>2, <2>4, <4>1 DEF Astray
    <3>3. QED BY <3>1, <3>2
  <2>5. QED BY <1>1, <2>1, <2>4
<1>10. ASSUME NEW p \in Pages, NEW f \in flight[p], Land(p, f) PROVE UpInv' /\ ConvInv'
  <2>1. Landed(p, f) /\ UNCHANGED <<up, got, last, lost, canvas>>
    BY <1>0, <1>10, LandFacts
  <2>2. UpInv'
    BY <2>1 DEF UpInv
  <2>3. /\ UNCHANGED <<pending, last, lost>>
        /\ \A q \in Pages : \A g \in flight[q] : g \in flight'[q] \/ (q = p /\ g = f)
        /\ Len(log) + 1 \in DOMAIN log' /\ log'[Len(log) + 1].shape = f.shape
        /\ Len(log) \in Nat
    BY <2>1 DEF Landed, Gone, Extends
  <2>4. ASSUME NEW q \in up, NEW t \in Fitting PROVE Settled(q, t)'
    <3>1. CASE f.shape = t
      <4>1. q \in Pages /\ Len(log) + 1 > got'[q]
        BY <1>0, <2>1, <2>3
      <4>2. QED BY <2>3, <3>1, <4>1 DEF Settled, Coming
    <3>2. CASE f.shape # t
      <4>1. Astray(q, t) => Astray(q, t)'
        BY <1>0, <2>3, <3>2 DEF Astray
      <4>2. QED BY <1>0, <2>1, <4>1, GrownSettled DEF ConvInv
    <3>3. QED BY <3>1, <3>2
  <2>5. QED BY <2>1, <2>2, <2>4 DEF ConvInv
<1>11. ASSUME NEW p \in Pages, NEW f \in flight[p], AppendFails(p, f) PROVE UpInv' /\ ConvInv'
  <2>1. Failed(p, f) /\ UNCHANGED <<up, got, last, canvas>>
    BY <1>0, <1>11, FailsFacts
  <2>2. /\ UNCHANGED <<pending, last>> /\ lost' = lost \cup {f.edit}
        /\ \A q \in Pages : \A g \in flight[q] : g \in flight'[q] \/ (q = p /\ g = f)
    BY <2>1 DEF Failed, Gone
  <2>3. \A q \in Pages, t \in Things : Astray(q, t) => Astray(q, t)'
    BY <2>2 DEF Astray
  <2>4. QED BY <1>1, <2>1, <2>3
<1>12. CASE Bot
  <2>1. UNCHANGED <<up, got, last, lost, canvas, pending, flight>>
    <3>1. CASE Emit
      BY <3>1, EmitPins DEF Pinned
    <3>2. CASE Skip \/ Ask \/ CallFails \/ CallEnds \/ EmitFails \/ \E n \in Notes : Suggest(n)
      BY <3>2, BotFacts
    <3>3. QED BY <1>12, <3>1, <3>2 DEF Bot
  <2>2. \A q \in Pages, t \in Things : Astray(q, t) => Astray(q, t)'
    BY <2>1 DEF Astray
  <2>3. QED BY <1>1, <2>1, <2>2
<1>13. CASE UNCHANGED vars
  <2>1. UNCHANGED <<up, got, last, lost, canvas, pending, flight>>
    BY <1>13 DEF vars
  <2>2. \A q \in Pages, t \in Things : Astray(q, t) => Astray(q, t)'
    BY <2>1 DEF Astray
  <2>3. QED BY <1>1, <2>1, <2>2
<1>14. ASSUME NEW p \in Pages, Page(p) PROVE UpInv' /\ ConvInv'
  BY <1>2, <1>3, <1>4, <1>5, <1>7, <1>8, <1>9, <1>10, <1>11, <1>14 DEF Page, Settle, DrainStep
<1>15. QED BY <1>12, <1>13, <1>14 DEF Next
----------------------------------------------------------------------------
\* The notes of the agent.

\* What is appended for notes nobody has heard of, and for stale ones.
LEMMA EmitEntries ==
    ASSUME TypeOK, NotesInv, Emit
    PROVE  /\ \A i \in DOMAIN log' : i > Len(log) =>
                 /\ log'[i].by = Agent
                 /\ \/ log'[i].op = "del" /\ log'[i].shape \in agent.stale
                    \/ log'[i].op = "put" /\ log'[i].shape \in agent.emitted
           /\ \A n \in agent.stale : \E i \in DOMAIN log' :
                 log'[i].by = Agent /\ log'[i].op = "del" /\ log'[i].shape = n
<1>1. PICK d, u \in Seq(Entry) :
          /\ Pins(d, "del", agent.stale) /\ Pins(u, "put", agent.emitted)
          /\ log' = (log \o d) \o u
  BY EmitFacts
<1> DEFINE mid == log \o d
<1>2. mid \in Seq(Entry) /\ log \in Seq(Entry)
  BY <1>1 DEF TypeOK
<1>3. Joins(log, d, mid) /\ Joins(mid, u, log')
  BY <1>1, <1>2, Joined
<1> HIDE DEF mid
<1>4. ASSUME NEW i \in DOMAIN log', i > Len(log)
      PROVE  /\ log'[i].by = Agent
             /\ \/ log'[i].op = "del" /\ log'[i].shape \in agent.stale
                \/ log'[i].op = "put" /\ log'[i].shape \in agent.emitted
  <2>1. CASE i > Len(mid)
    <3>1. i - Len(mid) \in DOMAIN u /\ log'[i] = u[i - Len(mid)]
      BY <1>3, <1>4, <2>1 DEF Joins
    <3>2. QED BY <1>1, <3>1, PinsEntry
  <2>2. CASE ~(i > Len(mid))
    <3>1. i \in DOMAIN mid /\ log'[i] = mid[i]
      BY <1>3, <2>2 DEF Joins, Extends
    <3>2. i - Len(log) \in DOMAIN d /\ mid[i] = d[i - Len(log)]
      BY <1>3, <1>4, <3>1 DEF Joins
    <3>3. QED BY <1>1, <3>1, <3>2, PinsEntry
  <2>3. QED BY <2>1, <2>2
<1>5. ASSUME NEW n \in agent.stale
      PROVE  \E i \in DOMAIN log' :
                 log'[i].by = Agent /\ log'[i].op = "del" /\ log'[i].shape = n
  <2>1. PICK i \in DOMAIN d : d[i].shape = n
    BY <1>1 DEF Pins
  <2>2. Len(log) + i \in DOMAIN mid /\ mid[Len(log) + i] = d[i]
    BY <1>3, <2>1 DEF Joins
  <2>3. Len(log) + i \in DOMAIN log' /\ log'[Len(log) + i] = d[i]
    BY <1>3, <2>2 DEF Joins, Extends
  <2>4. d[i].by = Agent /\ d[i].op = "del"
    BY <1>1, PinsEntry
  <2>5. QED BY <2>1, <2>3, <2>4
<1>6. QED BY <1>4, <1>5

\* The log says something of the note.
Told(n) == \E i \in DOMAIN log : log[i].shape = n

\* The agent has deleted it.
Deleted(n) ==
    \E i \in DOMAIN log : log[i].by = Agent /\ log[i].op = "del" /\ log[i].shape = n

\* A page has the note, or a change to it.
Held(p, n) ==
    \/ canvas[p][n] # 0 \/ pending[p][n] # 0 \/ last[p][n] # 0
    \/ \E f \in flight[p] : f.shape = n

\* Users learn of notes from the log.
ToldInv == \A p \in Pages, n \in Notes : Held(p, n) => Told(n)

\* What is told stays told.
LEMMA ToldStays ==
    ASSUME Extends(log, log'), NEW n
    PROVE  (Told(n) => Told(n)') /\ (Deleted(n) => Deleted(n)')
  BY DEF Extends, Told, Deleted

\* No page holds a note that was never told.
LEMMA ToldStep ==
    ASSUME CanvasAssumption, TypeOK, NotesInv, ToldInv, [Next]_vars
    PROVE  ToldInv'
<1>0. /\ Types /\ Types' /\ Extends(log, log') /\ Shapes \cap Notes = {}
      /\ Notes \subseteq Things
  BY PageTypes, StepKinds, LogGrows DEF CanvasAssumption, Things
<1>1. ASSUME NEW p \in Pages,
             \A q \in Pages, n \in Notes : Held(q, n)' => Held(q, n) \/ (q = p /\ Told(n)')
      PROVE  ToldInv'
  BY <1>0, <1>1, ToldStays DEF ToldInv
<1>2. ASSUME UNCHANGED <<canvas, pending, last, flight>> PROVE ToldInv'
  BY <1>0, <1>2, ToldStays DEF ToldInv, Held
<1>3. ASSUME NEW p \in Pages, Open(p) \/ DrainStep(p) PROVE ToldInv'
  BY <1>0, <1>2, <1>3, OpenFacts, DrainFacts DEF Kept
<1>4. ASSUME NEW p \in Pages, Receive(p) PROVE ToldInv'
  <2>1. /\ UNCHANGED <<log, pending, flight, last>> /\ got[p] + 1 \in DOMAIN log
        /\ \A q \in Pages, n \in Things :
              canvas'[q][n] = canvas[q][n] \/ (q = p /\ n = log[got[p] + 1].shape)
    BY <1>0, <1>4, ReceiveFacts DEF Kept
  <2>2. \A q \in Pages, n \in Notes : Held(q, n)' => Held(q, n) \/ (q = p /\ Told(n)')
    BY <1>0, <2>1 DEF Held, Told
  <2>3. QED BY <1>1, <2>2
<1>5. ASSUME NEW p \in Pages, NEW s \in Things, Draw(p, s) PROVE ToldInv'
  <2>1. /\ UNCHANGED flight
        /\ \A q \in Pages, n \in Things : q # p \/ n # s =>
              /\ canvas'[q][n] = canvas[q][n] /\ pending'[q][n] = pending[q][n]
              /\ last'[q][n] = last[q][n]
    BY <1>0, <1>5, DrawFacts DEF Drawn
  <2>2. s \in Notes => Held(p, s)
    BY <1>0, <1>5 DEF Draw, Held
  <2>3. \A q \in Pages, n \in Notes : Held(q, n)' => Held(q, n) \/ (q = p /\ n = s)
    BY <1>0, <2>1 DEF Held
  <2>4. QED BY <1>0, <1>1, <2>2, <2>3, ToldStays DEF ToldInv
<1>6. ASSUME NEW p \in Pages, NEW s \in Things, Erase(p, s) PROVE ToldInv'
  <2>1. PICK f \in Flight : Erased(p, s, f)
    BY <1>0, <1>6, EraseFacts
  <2>2. /\ \A q \in Pages, n \in Things : q # p \/ n # s => canvas'[q][n] = canvas[q][n]
        /\ \A q \in Pages, n \in Things : q # p \/ n # s => last'[q][n] = last[q][n]
    BY <1>0, <1>6, EraseFacts
  <2>3. /\ \A q \in Pages, n \in Things : q # p \/ n # s => pending'[q][n] = pending[q][n]
        /\ \A q \in Pages : \A g \in flight'[q] : g \in flight[q] \/ (q = p /\ g.shape = s)
    BY <2>1 DEF Erased
  <2>4. Held(p, s)
    BY <1>6 DEF Erase, Held
  <2>5. \A q \in Pages, n \in Notes : Held(q, n)' => Held(q, n) \/ (q = p /\ n = s)
    BY <1>0, <2>2, <2>3 DEF Held
  <2>6. QED BY <1>0, <1>1, <2>4, <2>5, ToldStays DEF ToldInv
<1>7. ASSUME NEW p \in Pages, NEW W \in SUBSET Things, Sent(p, W), UNCHANGED last,
             \A q \in Pages, n \in Things : canvas'[q][n] \in {0, canvas[q][n]}
      PROVE  ToldInv'
  <2>1. Moved(p, W)
    BY <1>0, <1>7, SentMoves
  <2>2. \A q \in Pages, n \in Notes : Held(q, n)' => Held(q, n)
    BY <1>0, <1>7, <2>1 DEF Moved, Held
  <2>3. QED BY <1>1, <1>7, <2>2
<1>8. ASSUME NEW p \in Pages, NEW s \in Things, Timer(p, s) PROVE ToldInv'
  <2>1. Sent(p, {s}) /\ UNCHANGED <<last, canvas>> /\ {s} \in SUBSET Things
    BY <1>0, <1>8, TimerFacts
  <2>2. QED BY <1>7, <2>1
<1>9. ASSUME NEW p \in Pages, Close(p) PROVE ToldInv'
  <2>1. /\ Sent(p, Waiting(p)) /\ UNCHANGED last
        /\ \A t \in Things : canvas'[p][t] = 0
        /\ \A q \in Pages : q # p => canvas'[q] = canvas[q]
    BY <1>0, <1>9, CloseFacts
  <2>2. Waiting(p) \in SUBSET Things
    BY DEF Waiting
  <2>3. \A q \in Pages, n \in Things : canvas'[q][n] \in {0, canvas[q][n]}
    BY <2>1
  <2>4. QED BY <1>7, <2>1, <2>2, <2>3
<1>10. ASSUME NEW p \in Pages, NEW f \in flight[p], Land(p, f) \/ AppendFails(p, f)
       PROVE  ToldInv'
  <2>1. Gone(p, f) /\ UNCHANGED <<last, canvas>>
    BY <1>0, <1>10, LandFacts, FailsFacts DEF Landed, Failed
  <2>2. \A q \in Pages, n \in Notes : Held(q, n)' => Held(q, n)
    BY <2>1 DEF Gone, Held
  <2>3. QED BY <1>1, <2>2
<1>11. CASE Bot
  <2>1. UNCHANGED <<canvas, pending, last, flight>>
    <3>1. CASE Emit
      BY <3>1, EmitPins DEF Pinned
    <3>2. CASE Skip \/ Ask \/ CallFails \/ CallEnds \/ EmitFails \/ \E n \in Notes : Suggest(n)
      BY <3>2, BotFacts
    <3>3. QED BY <1>11, <3>1, <3>2 DEF Bot
  <2>2. QED BY <1>2, <2>1
<1>12. CASE UNCHANGED vars
  BY <1>2, <1>12 DEF vars
<1>13. ASSUME NEW p \in Pages, Page(p) PROVE ToldInv'
  BY <1>3, <1>4, <1>5, <1>6, <1>8, <1>9, <1>10, <1>13 DEF Page, Settle, DrainStep
<1>14. QED BY <1>11, <1>12, <1>13 DEF Next

\* The agent's put of a note comes before its delete.
PutsFirst ==
    \A i, j \in DOMAIN log :
        log[i].by = Agent /\ log[j].by = Agent /\ log[i].shape = log[j].shape
        /\ log[i].op = "del" /\ log[j].op = "put" => j < i

\* What the agent has made is known, and what it is about to pin is new.
MadeInv ==
    /\ \A n \in Notes : Told(n) => n \in DOMAIN made
    /\ \A t \in Things : prior[t] \subseteq DOMAIN made
    /\ agent.stale \subseteq DOMAIN made
    /\ \A n \in agent.emitted : ~Told(n)
    /\ agent.pc = "call" => \A t \in Things : prior[t] \cap agent.emitted = {}
    /\ agent.stale \cap agent.emitted = {}

\* Every note the log tells of is still to be cleaned up, or has been.
HandInv ==
    /\ agent.pc = "emit" => \A n \in agent.emitted : n \in prior[made[n]]
    /\ ~broken => \A n \in Notes : Told(n) =>
          \/ n \in prior[made[n]] \/ Deleted(n)
          \/ agent.pc = "emit" /\ n \in agent.stale

NoteInv == PutsFirst /\ MadeInv /\ HandInv

\* A step that tells nothing of a note that was not told before.
LEMMA NoteStays ==
    ASSUME NoteInv, NotesInv, PutsFirst', \A n : Deleted(n) => Deleted(n)',
           \A n \in Notes : Told(n)' => Told(n), agent.emitted \subseteq Notes,
           UNCHANGED <<agent, prior, made, broken>>
    PROVE  NoteInv'
<1>1. MadeInv'
  BY DEF NoteInv, MadeInv
<1>2. HandInv'
  BY DEF NoteInv, HandInv
<1>3. QED BY <1>1, <1>2 DEF NoteInv

\* No step loses sight of a note.
LEMMA NoteStep ==
    ASSUME CanvasAssumption, TypeOK, NotesInv, ToldInv, NoteInv, [Next]_vars
    PROVE  NoteInv'
<1>0. /\ Types /\ Types' /\ Extends(log, log') /\ BotTypes /\ Len(log) \in Nat
      /\ agent \in AgentState /\ prior \in [Things -> SUBSET Notes] /\ broken \in BOOLEAN
      /\ agent.emitted \subseteq Notes /\ agent.stale \subseteq Notes
      /\ DOMAIN made \subseteq Notes /\ DOMAIN log = 1 .. Len(log)
      /\ \A i \in DOMAIN log : log[i].shape \in Things
  <2>1. TypeOK => AllTypes
    BY TypeParts
  <2>2. /\ Types /\ Types' /\ Extends(log, log') /\ BotTypes /\ Len(log) \in Nat
        /\ DOMAIN log = 1 .. Len(log)
    BY <2>1, StepKinds, LogGrows DEF AllTypes, Extends
  <2>3. \A i \in DOMAIN log : log[i] \in Entry
    BY <2>2 DEF Types
  <2>4. agent.emitted \subseteq Notes /\ agent.stale \subseteq Notes
    BY <2>2 DEF BotTypes, AgentState
  <2>5. QED BY <2>2, <2>3, <2>4 DEF BotTypes, Entry
<1>1. PutsFirst /\ MadeInv /\ HandInv
  BY DEF NoteInv
<1>2. ASSUME UNCHANGED log
      PROVE  PutsFirst' /\ \A n : (Told(n)' <=> Told(n)) /\ (Deleted(n)' <=> Deleted(n))
  BY <1>1, <1>2 DEF PutsFirst, Told, Deleted
<1>3. ASSUME NEW p \in Pages, Page(p) PROVE NoteInv'
  <2>1. UNCHANGED <<agent, prior, made, broken>>
    BY <1>3 DEF Page, Open, Receive, DrainEnds, DrainRestarts, Deafens, Close, CloseWith, Draw,
        Erase, Timer, Settle, Land, AppendFails, bot
  <2>2. ASSUME NEW f \in flight[p], Land(p, f) PROVE NoteInv'
    <3>1. Lands(p, f) /\ p # Agent
      BY <1>0, <2>2, LandFacts, LandedMoves DEF CanvasAssumption
    <3>2. PutsFirst'
      BY <1>1, <3>1 DEF PutsFirst, Lands
    <3>3. ASSUME NEW n \in Notes, Told(n)' PROVE Told(n)
      <4>1. PICK i \in DOMAIN log' : log'[i].shape = n
        BY <3>3 DEF Told
      <4>2. CASE i \in DOMAIN log /\ log'[i] = log[i]
        BY <4>1, <4>2 DEF Told
      <4>3. CASE log'[i].shape = f.shape
        BY <4>1, <4>3 DEF ToldInv, Held
      <4>4. QED BY <3>1, <4>2, <4>3 DEF Lands
    <3>4. \A n : Deleted(n) => Deleted(n)'
      BY <1>0, ToldStays
    <3>5. QED BY <1>0, <2>1, <3>2, <3>3, <3>4, NoteStays
  <2>3. CASE ~ \E f \in flight[p] : Land(p, f)
    <3>1. UNCHANGED log
      BY <1>3, <2>3 DEF Page, Open, Receive, DrainEnds, DrainRestarts, Deafens, Close, CloseWith,
          Draw, Erase, Timer, Settle, AppendFails
    <3>2. PutsFirst' /\ \A n : (Told(n)' => Told(n)) /\ (Deleted(n) => Deleted(n)')
      BY <1>2, <3>1
    <3>3. QED BY <1>0, <2>1, <3>2, NoteStays
  <2>4. QED BY <2>2, <2>3
<1>4. CASE Skip \/ Ask
  <2>1. /\ UNCHANGED <<log, prior, made, broken>> /\ agent.pc = "idle"
        /\ agent' = [agent EXCEPT !.at = agent.at + 1] \/ agent' = [agent EXCEPT !.pc = "call"]
    BY <1>0, <1>4 DEF Skip, Ask, Busy, AgentState
  <2>2. /\ agent'.pc # "emit" /\ agent'.emitted = {} /\ agent'.stale = {}
    BY <1>0, <2>1 DEF AgentState, NotesInv
  <2>3. MadeInv'
    BY <1>1, <1>2, <2>1, <2>2 DEF MadeInv
  <2>4. HandInv'
    BY <1>1, <1>2, <2>1, <2>2 DEF HandInv
  <2>5. QED BY <1>2, <2>1, <2>3, <2>4 DEF NoteInv
<1>5. ASSUME NEW n \in Notes, Suggest(n) PROVE NoteInv'
  <2>1. /\ UNCHANGED <<log, prior, broken>> /\ agent.pc = "call" /\ n \notin DOMAIN made
        /\ agent' = [agent EXCEPT !.emitted = agent.emitted \cup {n}]
        /\ made' = [m \in DOMAIN made \cup {n} |-> IF m = n THEN Trigger.shape ELSE made[m]]
    BY <1>0, <1>5 DEF Suggest, Busy, AgentState
  <2>2. /\ agent'.pc = "call" /\ agent'.emitted = agent.emitted \cup {n}
        /\ agent'.stale = agent.stale
    BY <1>0, <2>1 DEF AgentState
  <2>3. DOMAIN made' = DOMAIN made \cup {n} /\ \A m \in DOMAIN made : made'[m] = made[m]
    BY <2>1
  <2>4. ~Told(n) /\ n \notin agent.stale /\ \A t \in Things : n \notin prior[t]
    BY <1>1, <2>1 DEF MadeInv
  <2>5. MadeInv'
    BY <1>1, <1>2, <2>1, <2>2, <2>3, <2>4 DEF MadeInv
  <2>6. \A m \in Notes : Told(m) => m \in DOMAIN made
    BY <1>1 DEF MadeInv
  <2>7. HandInv'
    BY <1>1, <1>2, <2>1, <2>2, <2>3, <2>6 DEF HandInv
  <2>8. QED BY <1>2, <2>1, <2>5, <2>7 DEF NoteInv
<1>6. CASE CallFails
  <2>1. /\ UNCHANGED <<log, prior, made, broken>> /\ agent.pc = "call"
        /\ agent' = [agent EXCEPT !.try = agent.try + 1] \/ agent' = Restarted
    BY <1>0, <1>6 DEF CallFails, Busy, AgentState
  <2>2. /\ agent'.pc # "emit"
        /\ agent'.emitted \in {{}, agent.emitted} /\ agent'.stale \in {{}, agent.stale}
    BY <1>0, <2>1 DEF AgentState, Restarted, Idle
  <2>3. MadeInv'
    BY <1>1, <1>2, <2>1, <2>2 DEF MadeInv
  <2>4. HandInv'
    BY <1>1, <1>2, <2>1, <2>2 DEF HandInv
  <2>5. QED BY <1>2, <2>1, <2>3, <2>4 DEF NoteInv
<1>7. CASE CallEnds
  <2> DEFINE s == Trigger.shape
  <2>1. /\ UNCHANGED <<log, made, broken>> /\ agent.pc = "call"
        /\ agent' = [agent EXCEPT !.pc = "emit", !.stale = prior[s]]
        /\ prior' = IF agent.emitted = {} THEN prior ELSE [prior EXCEPT ![s] = agent.emitted]
    BY <1>7 DEF CallEnds, Busy
  <2>2. s \in Things /\ \A n \in agent.emitted : n \in DOMAIN made /\ made[n] = s
    <3>1. agent.at + 1 \in DOMAIN log
      BY <1>0, <2>1 DEF NotesInv, AgentState
    <3>2. QED BY <1>0, <3>1 DEF Trigger, NotesInv
  <2>3. /\ agent'.pc = "emit" /\ agent'.stale = prior[s] /\ agent'.emitted = agent.emitted
    <3> HIDE DEF s
    <3>1. QED BY <1>0, <2>1 DEF AgentState
  <2>4. /\ \A t \in Things : t # s => prior'[t] = prior[t]
        /\ prior'[s] \in {prior[s], agent.emitted}
        /\ agent.emitted # {} => prior'[s] = agent.emitted
    BY <1>0, <2>1, <2>2
  <2> HIDE DEF s
  <2>5. MadeInv'
    <3>1. \A t \in Things : prior'[t] \subseteq DOMAIN made
      BY <1>1, <2>2, <2>4 DEF MadeInv
    <3>2. prior[s] \cap agent.emitted = {} /\ prior[s] \subseteq DOMAIN made
      BY <1>1, <2>1, <2>2 DEF MadeInv
    <3>3. QED BY <1>1, <1>2, <2>1, <2>3, <3>1, <3>2 DEF MadeInv
  <2>6. \A n \in agent.emitted : n \in prior'[made[n]]
    BY <2>2, <2>4
  <2>7. ASSUME ~broken, NEW n \in Notes, Told(n), ~Deleted(n)
        PROVE  n \in prior'[made[n]] \/ n \in prior[s]
    <3>1. n \in DOMAIN made /\ n \in prior[made[n]] /\ made[n] \in Things
      BY <1>0, <1>1, <2>1, <2>7 DEF HandInv, MadeInv, BotTypes
    <3>2. QED BY <2>4, <3>1
  <2>8. HandInv'
    BY <1>2, <2>1, <2>3, <2>6, <2>7 DEF HandInv
  <2>9. QED BY <1>2, <2>1, <2>5, <2>8 DEF NoteInv
<1>8. CASE Emit
  <2>1. /\ agent' = [Idle EXCEPT !.at = agent.at + 1] /\ UNCHANGED <<prior, made, broken>>
        /\ agent.pc = "emit"
    BY <1>8 DEF Emit, Busy
  <2>2. agent'.pc = "idle" /\ agent'.emitted = {} /\ agent'.stale = {}
    BY <2>1 DEF Idle
  <2>3. \A i \in DOMAIN log' : i > Len(log) =>
            /\ log'[i].by = Agent
            /\ \/ log'[i].op = "del" /\ log'[i].shape \in agent.stale
               \/ log'[i].op = "put" /\ log'[i].shape \in agent.emitted
    BY <1>8, EmitEntries
  <2>4. \A n \in agent.stale : Deleted(n)'
    BY <1>8, EmitEntries DEF Deleted
  <2>5. /\ \A i \in DOMAIN log' : (i \in DOMAIN log /\ i <= Len(log)) \/ i > Len(log)
        /\ \A i \in DOMAIN log : log'[i] = log[i]
    BY <1>0 DEF Extends
  <2>6. ASSUME NEW n \in Notes, Told(n)' PROVE Told(n) \/ n \in agent.stale \/ n \in agent.emitted
    BY <2>3, <2>5, <2>6 DEF Told
  <2>7. PutsFirst'
    <3>1. SUFFICES ASSUME NEW i \in DOMAIN log', NEW j \in DOMAIN log',
                          log'[i].by = Agent, log'[j].by = Agent,
                          log'[i].shape = log'[j].shape, log'[i].op = "del", log'[j].op = "put"
                   PROVE  j < i
      BY DEF PutsFirst
    <3>2. i \in Int /\ j \in Int
      BY <1>0 DEF Extends
    <3>3. CASE j > Len(log)
      <4>1. log'[j].shape \in agent.emitted
        BY <2>3, <3>1, <3>3
      <4>2. CASE i > Len(log)
        BY <1>1, <2>3, <3>1, <4>1, <4>2 DEF MadeInv
      <4>3. CASE i \in DOMAIN log
        BY <1>1, <2>5, <3>1, <4>1, <4>3 DEF MadeInv, Told
      <4>4. QED BY <2>5, <4>2, <4>3
    <3>4. CASE j \in DOMAIN log /\ j <= Len(log)
      <4>1. CASE i > Len(log)
        BY <1>0, <3>2, <3>4, <4>1
      <4>2. CASE i \in DOMAIN log
        BY <1>1, <2>5, <3>1, <3>4, <4>2 DEF PutsFirst
      <4>3. QED BY <2>5, <4>1, <4>2
    <3>5. QED BY <2>5, <3>3, <3>4
  <2>8. MadeInv'
    <3>1. \A n \in Notes : Told(n)' => n \in DOMAIN made
      BY <1>1, <2>6 DEF MadeInv, NotesInv
    <3>2. QED BY <1>1, <2>1, <2>2, <3>1 DEF MadeInv
  <2>9. HandInv'
    <3>1. ASSUME ~broken, NEW n \in Notes, Told(n)' PROVE n \in prior[made[n]] \/ Deleted(n)'
      <4>1. CASE n \in agent.emitted
        BY <1>1, <2>1, <4>1 DEF HandInv
      <4>2. CASE n \in agent.stale
        BY <2>4, <4>2
      <4>3. CASE Told(n) /\ n \notin agent.stale
        BY <1>0, <1>1, <3>1, <4>3, ToldStays DEF HandInv
      <4>4. QED BY <2>6, <3>1, <4>1, <4>2, <4>3
    <3>2. QED BY <2>1, <2>2, <3>1 DEF HandInv
  <2>10. QED BY <2>7, <2>8, <2>9 DEF NoteInv
<1>9. CASE EmitFails
  <2>1. broken' = TRUE /\ agent' = Restarted /\ UNCHANGED <<log, prior, made>>
    BY <1>9 DEF EmitFails
  <2>2. agent'.pc = "idle" /\ agent'.emitted = {} /\ agent'.stale = {}
    BY <2>1 DEF Restarted, Idle
  <2>3. MadeInv'
    BY <1>1, <1>2, <2>1, <2>2 DEF MadeInv
  <2>4. HandInv'
    BY <2>1, <2>2 DEF HandInv
  <2>5. QED BY <1>2, <2>1, <2>3, <2>4 DEF NoteInv
<1>10. CASE UNCHANGED vars
  <2>1. UNCHANGED <<log, agent, prior, made, broken>>
    BY <1>10 DEF vars
  <2>2. QED BY <1>0, <1>2, <2>1, NoteStays
<1>11. QED BY <1>3, <1>4, <1>5, <1>6, <1>7, <1>8, <1>9, <1>10 DEF Next, Bot

\* A note that is on the canvas and no more the agent's has come back by a user's change.
LEMMA OrphansAreRevived ==
    ASSUME TypeOK, NoteInv PROVE NoOrphans
<1>1. SUFFICES ASSUME agent.pc = "idle", ~broken, NEW n \in Notes, Folded(n) # 0,
                      n \notin prior[made[n]]
               PROVE  Revived(n)
  BY DEF NoOrphans
<1>2. Types /\ FoldsLast /\ HasLast
  BY PageTypes, FoldReads
<1>3. Touches(n) # {}
  BY <1>1 DEF Folded
<1>4. PICK k : LastTouch(n, k)
  BY <1>2, <1>3 DEF HasLast
<1>5. /\ k \in DOMAIN log /\ log[k].shape = n /\ log[k].op # "del"
      /\ \A j \in DOMAIN log : log[j].shape = n => j <= k
  BY <1>1, <1>2, <1>4 DEF FoldsLast, LastTouch, Touches, Record
<1>6. log[k].op = "put" /\ k \in Int /\ \A j \in DOMAIN log : j \in Int
  <2>1. log[k] \in Entry
    BY <1>2, <1>5 DEF Types
  <2>2. QED BY <1>2, <1>5, <2>1 DEF Types, Entry
<1>7. PICK i \in DOMAIN log : log[i].by = Agent /\ log[i].op = "del" /\ log[i].shape = n
  BY <1>1, <1>5 DEF NoteInv, HandInv, Told, Deleted
<1>8. i < k
  <2>1. i <= k /\ i # k
    BY <1>5, <1>6, <1>7
  <2>2. QED BY <1>6, <2>1
<1>9. log[k].by # Agent
  <2>1. ~(k < i)
    BY <1>6, <1>8
  <2>2. QED BY <1>5, <1>6, <1>7, <2>1 DEF NoteInv, PutsFirst
<1>10. QED BY <1>5, <1>6, <1>7, <1>8, <1>9 DEF Revived
----------------------------------------------------------------------------
----------------------------------------------------------------------------
\* The theorems.

\* The inductive invariant.
IInv ==
    /\ TypeOK /\ ShapedInv /\ NotesInv /\ Unique /\ Ordered
    /\ LoggedInv /\ UpInv /\ ConvInv /\ ToldInv /\ NoteInv

\* It holds when nobody has drawn anything.
LEMMA IInvInit == ASSUME CanvasAssumption, Init PROVE IInv
<1>1. /\ log = <<>> /\ Len(log) = 0 /\ DOMAIN log = {} /\ log \in Seq(Entry)
      /\ \A t \in Things : Folded(t) = 0
  BY DEF Init, Folded, Touches
<1>2. agent = Idle /\ agent.pc = "idle" /\ agent.emitted = {} /\ agent.stale = {}
      /\ agent \in AgentState /\ agent.at = 0
  BY DEF Init, Idle, AgentState, CanvasAssumption
<1>3. DOMAIN made = {}
  BY DEF Init
<1>4. AllTypes
  <2>1. Types
    BY <1>1 DEF Init, Types
  <2>2. BotTypes
    <3>1. broken \in BOOLEAN
      BY DEF Init
    <3>2. prior \in [Things -> SUBSET Notes]
      BY DEF Init
    <3>3. agent.at <= Len(log)
      BY <1>1, <1>2
    <3>4. QED BY <1>2, <1>3, <3>1, <3>2, <3>3 DEF BotTypes
  <2>3. QED BY <1>1, <2>1, <2>2 DEF Init, AllTypes, Counts
<1>5. TypeOK
  BY <1>4, TypeParts
<1>6. ShapedInv
  BY <1>1 DEF Init, ShapedInv
<1>7. NotesInv
  <2>1. IsFiniteSet({})
    BY FS_EmptySet
  <2>2. QED BY <1>2, <2>1 DEF Init, NotesInv
<1>8. Unique
  BY <1>1 DEF Init, Unique, Fresh, WaitOnce, WaitOrGo, GoOnce, WaitOrLogged, GoOrLogged, NoEcho
<1>9. Ordered
  BY <1>1 DEF Init, Ordered, GoInOrder, WaitLast, GoAfterLogged, WaitAfterLogged, OrderKept
<1>10. LoggedInv
  BY DEF Init, LoggedInv, Placed
<1>11. UpInv /\ ConvInv
  BY DEF Init, UpInv, ConvInv
<1>12. ToldInv
  BY DEF Init, ToldInv, Held, Things
<1>14. NoteInv
  <2>1. \A n : ~Told(n) /\ PutsFirst
    BY <1>1 DEF Told, PutsFirst
  <2>2. QED BY <1>2, <2>1 DEF Init, NoteInv, MadeInv, HandInv
<1>13. QED BY <1>5, <1>6, <1>7, <1>8, <1>9, <1>10, <1>11, <1>12, <1>14 DEF IInv

\* Every step keeps it.
LEMMA IInvStep == ASSUME CanvasAssumption, IInv, [Next]_vars PROVE IInv'
<1>1. TypeOK /\ ShapedInv /\ NotesInv /\ Types
  BY PageTypes DEF IInv
<1>2. TypeOK' /\ NotesInv'
  BY <1>1, TypeStep
<1>3. Types' /\ Kinds
  BY <1>1, StepKinds
<1>4. ShapedInv'
  BY <1>1, <1>3, ShapedStep
<1>5. Unique' /\ Ordered'
  BY <1>1, <1>3, UniqueStep, OrderStep DEF IInv
<1>6. LoggedInv' /\ UpInv' /\ ConvInv' /\ ToldInv' /\ NoteInv'
  BY <1>1, LoggedStep, ConvStep, ToldStep, NoteStep DEF IInv
<1>7. QED BY <1>2, <1>4, <1>5, <1>6 DEF IInv

\* So it always holds.
LEMMA IInvAlways == Spec => []IInv
  BY CanvasAssumption, IInvInit, IInvStep, PTL DEF Spec

\* Every variable stays within the data of the code (RxweaveBridge.tsx, suggester.ts,
\* LlmAgent.ts), and no page and no agent reads past the log.
THEOREM CanvasTypeCorrect == Spec => []TypeOK
<1>1. IInv => TypeOK
  BY DEF IInv
<1>2. QED BY <1>1, IInvAlways, PTL

\* No change of a user is appended twice, by its page or by another that shows it: what
\* applyIncoming merges never comes back through the listener.
THEOREM CanvasNoEcho == Spec => []NoEcho
<1>1. IInv => NoEcho
  BY DEF IInv, Unique
<1>2. QED BY <1>1, IInvAlways, PTL

\* Changes of a page to a shape are appended in their order, but for appends that were under
\* way at once: scheduleUpsert replaces and flushForDelete cancels what waits.
THEOREM CanvasOrderKept == Spec => []OrderKept
<1>1. IInv => OrderKept
  BY DEF IInv, Ordered
<1>2. QED BY <1>1, IInvAlways, PTL

\* The last change of a user to a shape is appended once its page has nothing left to send,
\* although the page may have closed first, or the append was lost.
THEOREM CanvasLastChangeLogged == Spec => []LastChangeLogged
<1>1. ASSUME IInv PROVE LastChangeLogged
  <2>1. LoggedInv
    BY <1>1 DEF IInv
  <2>2. ASSUME NEW p \in Pages, NEW s \in Things, flight[p] = {}, Waiting(p) = {}
        PROVE  \/ last[p][s] \in lost \cup {0}
               \/ \E i \in DOMAIN log : log[i].by = p /\ log[i].edit = last[p][s]
    <3>1. pending[p][s] = 0
      BY <2>2 DEF Waiting
    <3>2. QED BY <2>1, <2>2, <3>1 DEF LoggedInv, Placed
  <2>3. QED BY <2>2 DEF LastChangeLogged
<1>2. QED BY <1>1, IInvAlways, PTL

\* A page with nothing to send or to receive shows what canvasFold makes of the log, drains
\* started over and changes made elsewhere included, but for shapes whose append was lost.
THEOREM CanvasConverged == Spec => []Converged
<1>1. ASSUME IInv PROVE Converged
  <2>1. ConvInv /\ up \subseteq Pages /\ \A p \in up : got[p] \in Nat
    BY <1>1, TypeParts DEF IInv, AllTypes, Types
  <2>2. ASSUME NEW p \in up, NEW s \in Things \ Misfits, Quiet(p)
        PROVE  canvas[p][s] = Folded(s) \/ last[p][s] \in lost
    <3>1. ~Coming(p, s)
      <4>1. \A i \in DOMAIN log : i <= got[p]
        BY <1>1, <2>1, <2>2, TypeParts DEF IInv, AllTypes, Types, Quiet
      <4>2. \A i \in DOMAIN log : i \in Nat
        BY <1>1, TypeParts DEF IInv, AllTypes, Types
      <4>3. QED BY <2>1, <4>1, <4>2 DEF Coming
    <3>2. Astray(p, s) => last[p][s] \in lost
      BY <2>2 DEF Astray, Quiet, Waiting
    <3>3. QED BY <2>1, <2>2, <3>1, <3>2 DEF ConvInv, Settled, Fitting
  <2>3. QED BY <2>2 DEF Converged
<1>2. QED BY <1>1, IInvAlways, PTL

\* An idle agent would still clean up every note on the canvas, whether users move it or not:
\* what a retried model call had suggested is emitted with the rest, stale notes go out with
\* the new, and a note comes back after that only by a user's change that was under way.
THEOREM CanvasNoOrphans == Spec => []NoOrphans
<1>1. IInv => NoOrphans
  BY OrphansAreRevived DEF IInv
<1>2. QED BY <1>1, IInvAlways, PTL
=============================================================================
