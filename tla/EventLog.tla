------------------------------ MODULE EventLog ------------------------------
(***************************************************************************)
(* What packages/schema and packages/core give every event store: event    *)
(* ids that are compared as strings, cursors, filters, and the reads over  *)
(* an append-only array of envelopes that MemoryStore and FileStore write  *)
(* out in the same words.                                                  *)
(*                                                                         *)
(* A ULID is its time part: the clamp of Ulid.Live makes the time parts    *)
(* of one process strictly increasing, so string order is order in Nat.    *)
(* Every field a filter reads (type, actor, source, timestamp) is fixed    *)
(* when the envelope is built; one value, its kind, stands for them all.   *)
(***************************************************************************)
EXTENDS Integers, Sequences, FiniteSets, Functions, Selection

CONSTANTS
    Kind,        \* what filters tell apart in an envelope
    Earliest,    \* the cursor literals of Cursor.ts
    Latest

ASSUME CursorAssumption == Earliest \notin Nat /\ Latest \notin Nat /\ Earliest # Latest

\* An EventEnvelope, as far as the stores look at it.
Event == [id : Nat \ {0}, kind : Kind]

Cursor == Nat \cup {Earliest, Latest}

Filter == SUBSET Kind

\* Mutant: without the clamp two ids of one millisecond, or of a clock set back, collide.
UnclampedNext(prev, now) == IF now > 0 THEN now ELSE prev + 1

\* Mutant: the clamp forgets to step past the previous id.
StuckNext(prev, now) == IF prev > now THEN prev ELSE now

\* Ulid.Live.next: never below the previous id plus one, whatever the clock says.
UlidNext(prev, now) == IF prev + 1 > now THEN prev + 1 ELSE now

\* matchFilter: every clause of the filter reads the envelope alone.
Matches(f, e) == e.kind \in f

\* Mutant: the cursor itself is read again.
FromCursor(c, e) == IF c \in {Earliest, Latest} THEN c = Earliest ELSE e.id >= c

\* The test replay and queryAfter make: "e.id > cursor", everything for "earliest".
AfterCursor(c, e) == IF c \in {Earliest, Latest} THEN c = Earliest ELSE e.id > c

\* snapshot.at(-1)?.id, with 0, below every id, for an empty array.
LastId(log) == IF log = <<>> THEN 0 ELSE log[Len(log)].id

\* latestCursor: the id of the last envelope, "earliest" for an empty store.
LatestCursor(log) == IF log = <<>> THEN Earliest ELSE LastId(log)

Take(s, n) == SubSeq(s, 1, IF n < Len(s) THEN n ELSE Len(s))

\* query(filter, limit): from the start of the array.
Query(log, f, limit) ==
    Take(Select(log, {i \in DOMAIN log : Matches(f, log[i])}), limit)

\* queryAfter(cursor, filter, limit): strictly after the cursor, nothing for "latest".
QueryAfter(log, c, f, limit) ==
    Take(Select(log, {i \in DOMAIN log : AfterCursor(c, log[i]) /\ Matches(f, log[i])}), limit)

Increasing(s) == \A i, j \in DOMAIN s : i < j => s[i].id < s[j].id
=============================================================================
