----------------------------- MODULE FileStore -----------------------------
(***************************************************************************)
(* packages/store-file: the JSONL event store.  Several processes may have *)
(* one file open (rxweave dev, and rxweave emit in another shell).  Each   *)
(* keeps the events in an array, appends under its own writer lock, and    *)
(* polls the file for lines that others wrote.                             *)
(*                                                                         *)
(* The file is a sequence of units: the line of event n is its body in two *)
(* halves, <<n, 1>> and <<n, 2>>, and a Newline.  That is enough to tear a *)
(* line in the body, to lose only its newline, and to join two lines; byte *)
(* counts become unit counts.  Subscriptions are MemoryStore's, line for   *)
(* line, over the array modelled here.                                     *)
(***************************************************************************)
EXTENDS Integers, Sequences, FiniteSets, FiniteSetsExt, Selection

CONSTANTS
    Procs,       \* processes that open the file
    Writers,     \* those that append to it
    Fibers,      \* fibers of one process that append concurrently
    Faults,      \* which of "kill", "crash", "write" may strike
    StaticBoot,  \* whether no append is under way while a process scans the file
    MaxId,       \* bound: event ids
    MaxBatch,    \* bound: events in one append
    MaxFile,     \* bound: units in the file
    MaxCalls,    \* bound: appends that reach the file
    MaxFaults    \* bound: faults in one behaviour

ASSUME FileAssumption ==
    /\ Writers \subseteq Procs /\ Faults \subseteq {"kill", "crash", "write"}
    /\ StaticBoot \in BOOLEAN
    /\ MaxId \in Nat /\ MaxBatch \in Nat /\ MaxFile \in Nat
    /\ MaxCalls \in Nat /\ MaxFaults \in Nat

VARIABLES
    file,        \* the units on disk
    synced,      \* how many of them an fsync has covered
    mode,        \* per process: "down", "boot" (scanned, truncation pending) or "up"
    store,       \* Ref: its array of events, here their ids
    readBytes,   \* Ref: how far it has read the file
    last,        \* Ref of Ulid.Live: the last id it handed out
    tail,        \* its tail fiber: the offset, then the events it holds unlocked
    job,         \* per process and fiber, the append in progress
    kept,        \* history: its boot kept an unterminated last line
    made,        \* history: ids handed out by any process
    acked,       \* history: batches whose append has returned
    calls,       \* appends that have reached the file
    faults       \* faults so far

vars == <<file, synced, mode, store, readBytes, last, tail, job, kept, made, acked, calls, faults>>

Id == 1 .. MaxId
Newline == <<0, 0>>
Unit == {Newline} \cup Id \X {1, 2}

NoTail == [pc |-> "idle", offset |-> 0, events |-> <<>>, consumed |-> 0]
NoJob == [pc |-> "idle", ids |-> <<>>, rest |-> <<>>]
----------------------------------------------------------------------------
\* appendLines: lines.join("\n") + "\n", so that an empty batch is a lone newline.
Line(id) == <<<<id, 1>>, <<id, 2>>, Newline>>

Buffer(ids) ==
    IF ids = <<>> THEN <<Newline>>
    ELSE [i \in 1 .. 3 * Len(ids) |-> Line(ids[((i - 1) \div 3) + 1])[((i - 1) % 3) + 1]]

\* appendedBytes: nothing for an empty batch, whatever was written for it.
Size(ids) == 3 * Len(ids)

From(s, n) == SubSeq(s, n + 1, Len(s))

\* decodeLine: both halves of one event and nothing else.
Decodes(line) == Len(line) = 2 /\ line[1][2] = 1 /\ line[2] = <<line[1][1], 2>>

Newlines(bytes) == {n \in DOMAIN bytes : bytes[n] = Newline}

\* Mutant: a partial last line counts as consumed.
ConsumedAll(bytes) == Len(bytes)

\* scanLines: all complete lines count as consumed, those that decode are events.
Consumed(bytes) == Max(Newlines(bytes) \cup {0})

LineOf(bytes, n) == SubSeq(bytes, Max({m \in Newlines(bytes) : m < n} \cup {0}) + 1, n - 1)

\* Where the lines end that hold an event.
EventEnds(bytes) == {n \in Newlines(bytes) : Decodes(LineOf(bytes, n))}

Scan(bytes) ==
    LET ends == EventEnds(bytes)
    IN  Select([n \in ends |-> bytes[n - 1][1]], ends)

\* scanAndRecover: an unterminated last line is kept when it decodes, else cut.
Recover(raw) ==
    LET rest == From(raw, Consumed(raw))
    IN  IF Decodes(rest)
        THEN [events |-> Append(Scan(raw), rest[1][1]), validBytes |-> Len(raw), kept |-> TRUE]
        ELSE [events |-> Scan(raw), validBytes |-> Consumed(raw), kept |-> FALSE]
----------------------------------------------------------------------------
Init ==
    /\ file = <<>> /\ synced = 0
    /\ mode = [p \in Procs |-> "down"]
    /\ store = [p \in Procs |-> <<>>]
    /\ readBytes = [p \in Procs |-> 0]
    /\ last = [p \in Procs |-> 0]
    /\ tail = [p \in Procs |-> NoTail]
    /\ job = [p \in Procs |-> [f \in Fibers |-> NoJob]]
    /\ kept = [p \in Procs |-> FALSE]
    /\ made = {} /\ acked = {} /\ calls = 0 /\ faults = 0

Writing(p) == \E f \in Fibers : job[p][f].pc = "write"

\* Layer.scoped, first half: the file is scanned as it is at this moment.
Boot(p) ==
    /\ mode[p] = "down"
    /\ StaticBoot => \A q \in Procs : mode[q] # "boot" /\ ~Writing(q)
    /\ LET r == Recover(file)
       IN  /\ mode' = [mode EXCEPT ![p] = IF r.validBytes < Len(file) THEN "boot" ELSE "up"]
           /\ store' = [store EXCEPT ![p] = r.events]
           /\ readBytes' = [readBytes EXCEPT ![p] = r.validBytes]
           /\ kept' = [kept EXCEPT ![p] = r.kept]
    /\ UNCHANGED <<file, synced, last, tail, job, made, acked, calls, faults>>

\* Mutant: what was cut is still taken to be on disk.
BootTruncateUnsynced(p) ==
    /\ mode[p] = "boot"
    /\ mode' = [mode EXCEPT ![p] = "up"]
    /\ file' = SubSeq(file, 1, readBytes[p])
    /\ UNCHANGED <<synced, store, readBytes, last, tail, job, kept, made, acked, calls, faults>>

\* writer.truncate(validBytes): whatever the file holds by now beyond it is cut.
BootTruncate(p) ==
    /\ mode[p] = "boot"
    /\ mode' = [mode EXCEPT ![p] = "up"]
    /\ file' = SubSeq(file, 1, readBytes[p])
    /\ synced' = Min({synced, readBytes[p]})
    /\ UNCHANGED <<store, readBytes, last, tail, job, kept, made, acked, calls, faults>>
----------------------------------------------------------------------------
SetJob(p, f, j) == job' = [job EXCEPT ![p][f] = j]

\* append, one turn of its loop: the id comes from Ulid.Live, outside every lock.
\* Above last[p] any id is possible: it depends on the clock and on random bits.
Stamp(p, f, id) ==
    /\ mode[p] = "up" /\ p \in Writers
    /\ job[p][f].pc \in {"idle", "stamp"} /\ Len(job[p][f].ids) < MaxBatch
    /\ id > last[p] /\ id \notin made
    /\ last' = [last EXCEPT ![p] = id]
    /\ made' = made \cup {id}
    /\ SetJob(p, f, [pc |-> "stamp", ids |-> Append(job[p][f].ids, id), rest |-> <<>>])
    /\ UNCHANGED <<file, synced, mode, store, readBytes, tail, kept, acked, calls, faults>>

\* Mutant: a writer without its semaphore.
NeverLocked(p) == FALSE

\* The writer's permit, held from open to fsync.
WriterLocked(p) == \E f \in Fibers : job[p][f].pc \in {"write", "sync"}

Open(p, f) ==
    /\ mode[p] = "up" /\ p \in Writers
    /\ job[p][f].pc \in {"idle", "stamp"} /\ ~WriterLocked(p)
    /\ calls < MaxCalls /\ calls' = calls + 1
    /\ StaticBoot => \A q \in Procs : mode[q] # "boot"
    /\ LET buf == Buffer(job[p][f].ids)
       IN  /\ Len(file) + Len(buf) <= MaxFile
           /\ SetJob(p, f, [job[p][f] EXCEPT !.pc = "write", !.rest = buf])
    /\ UNCHANGED <<file, synced, mode, store, readBytes, last, tail, kept, made, acked, faults>>

\* file.writeAll: the buffer reaches the end of the file in one piece or in several.
WriteSome(p, f) ==
    /\ job[p][f].pc = "write"
    /\ \E n \in 1 .. Len(job[p][f].rest) :
        /\ file' = file \o SubSeq(job[p][f].rest, 1, n)
        /\ SetJob(p, f, [job[p][f] EXCEPT !.rest = From(@, n),
                         !.pc = IF n = Len(job[p][f].rest) THEN "sync" ELSE "write"])
    /\ UNCHANGED <<synced, mode, store, readBytes, last, tail, kept, made, acked, calls, faults>>

\* file.sync, and the permit goes back.
Sync(p, f) ==
    /\ job[p][f].pc = "sync"
    /\ synced' = Len(file)
    /\ SetJob(p, f, [job[p][f] EXCEPT !.pc = "record"])
    /\ UNCHANGED <<file, mode, store, readBytes, last, tail, kept, made, acked, calls, faults>>

\* The section under the store's lock; then append returns its envelopes.
Record(p, f) ==
    /\ job[p][f].pc = "record"
    /\ store' = [store EXCEPT ![p] = @ \o job[p][f].ids]
    /\ readBytes' = [readBytes EXCEPT ![p] = @ + Size(job[p][f].ids)]
    /\ acked' = acked \cup {job[p][f].ids}
    /\ SetJob(p, f, NoJob)
    /\ UNCHANGED <<file, synced, mode, last, tail, kept, made, calls, faults>>

\* A write or an fsync fails (AppendError), or the calling fiber is interrupted: what
\* reached the file stays there, and nobody is told.
Abandon(p, f) ==
    /\ "write" \in Faults /\ faults < MaxFaults
    /\ job[p][f].pc \in {"write", "sync", "record"}
    /\ faults' = faults + 1
    /\ SetJob(p, f, NoJob)
    /\ UNCHANGED <<file, synced, mode, store, readBytes, last, tail, kept, made, acked, calls>>
----------------------------------------------------------------------------
\* The tail fiber reads its offset, then the file beyond it, and only then takes the
\* lock.  A poll that finds no complete line changes nothing and is left out: reading
\* the offset may as well wait for the line, for only Record moves it meanwhile.
TailKnown(p) ==
    /\ mode[p] = "up" /\ tail[p].pc = "idle"
    /\ Consumed(From(file, readBytes[p])) > 0
    /\ tail' = [tail EXCEPT ![p] = [NoTail EXCEPT !.pc = "known", !.offset = readBytes[p]]]
    /\ UNCHANGED <<file, synced, mode, store, readBytes, last, job, kept, made, acked, calls,
                   faults>>

TailRead(p) ==
    /\ tail[p].pc = "known"
    /\ LET bytes == From(file, tail[p].offset)
       IN  tail' = [tail EXCEPT ![p] =
                      IF Consumed(bytes) = 0 THEN NoTail
                      ELSE [@ EXCEPT !.pc = "read", !.events = Scan(bytes),
                                     !.consumed = Consumed(bytes)]]
    /\ UNCHANGED <<file, synced, mode, store, readBytes, last, job, kept, made, acked, calls,
                   faults>>

\* newEnvelopes.filter: the events the array does not have.
Fresh(events, known) ==
    Select(events, {i \in DOMAIN events : events[i] \notin Range(known)})

\* Mutant: the offset moves by the size of the events, re-encoded, not of the lines read.
TailIngestEvents(p) ==
    /\ tail[p].pc = "read"
    /\ store' = [store EXCEPT ![p] = @ \o Fresh(tail[p].events, @)]
    /\ readBytes' = [readBytes EXCEPT ![p] = @ + Size(tail[p].events)]
    /\ tail' = [tail EXCEPT ![p] = NoTail]
    /\ UNCHANGED <<file, synced, mode, last, job, kept, made, acked, calls, faults>>

TailIngest(p) ==
    /\ tail[p].pc = "read"
    /\ store' = [store EXCEPT ![p] = @ \o Fresh(tail[p].events, @)]
    /\ readBytes' = [readBytes EXCEPT ![p] = @ + tail[p].consumed]
    /\ tail' = [tail EXCEPT ![p] = NoTail]
    /\ UNCHANGED <<file, synced, mode, last, job, kept, made, acked, calls, faults>>
----------------------------------------------------------------------------
\* What a process that ends leaves behind: nothing but the file.
Stop(P) ==
    /\ mode' = [p \in Procs |-> IF p \in P THEN "down" ELSE mode[p]]
    /\ store' = [p \in Procs |-> IF p \in P THEN <<>> ELSE store[p]]
    /\ readBytes' = [p \in Procs |-> IF p \in P THEN 0 ELSE readBytes[p]]
    /\ last' = [p \in Procs |-> IF p \in P THEN 0 ELSE last[p]]
    /\ tail' = [p \in Procs |-> IF p \in P THEN NoTail ELSE tail[p]]
    /\ job' = [p \in Procs |-> IF p \in P THEN [f \in Fibers |-> NoJob] ELSE job[p]]
    /\ kept' = [p \in Procs |-> IF p \in P THEN FALSE ELSE kept[p]]
    /\ faults' = faults + 1

Kill(p) ==
    /\ "kill" \in Faults /\ faults < MaxFaults
    /\ mode[p] # "down"
    /\ Stop({p})
    /\ UNCHANGED <<file, synced, made, acked, calls>>

\* The machine goes down: the file keeps at least what was fsynced.
Crash ==
    /\ "crash" \in Faults /\ faults < MaxFaults
    /\ \E p \in Procs : mode[p] # "down"
    /\ \E n \in synced .. Len(file) : file' = SubSeq(file, 1, n) /\ synced' = n
    /\ Stop(Procs)
    /\ UNCHANGED <<made, acked, calls>>

Next ==
    \/ Crash
    \/ \E p \in Procs :
        \/ Boot(p) \/ BootTruncate(p) \/ Kill(p)
        \/ TailKnown(p) \/ TailRead(p) \/ TailIngest(p)
        \/ \E f \in Fibers :
            \/ \E id \in Id : Stamp(p, f, id)
            \/ Open(p, f) \/ WriteSome(p, f) \/ Sync(p, f) \/ Record(p, f) \/ Abandon(p, f)

Spec == Init /\ [][Next]_vars

\* The tail fiber polls for as long as its process lives.
Fairness ==
    \A p \in Procs :
        WF_vars(BootTruncate(p)) /\ WF_vars(TailKnown(p)) /\ WF_vars(TailRead(p))
        /\ WF_vars(TailIngest(p))

FairSpec == Spec /\ Fairness
----------------------------------------------------------------------------
TypeOK ==
    /\ file \in Seq(Unit) /\ synced \in 0 .. Len(file)
    /\ mode \in [Procs -> {"down", "boot", "up"}]
    /\ store \in [Procs -> Seq(Id)] /\ readBytes \in [Procs -> Nat]
    /\ last \in [Procs -> 0 .. MaxId]
    /\ tail \in [Procs -> [pc : {"idle", "known", "read"}, offset : Nat,
                           events : Seq(Id), consumed : Nat]]
    /\ job \in [Procs -> [Fibers -> [pc : {"idle", "stamp", "write", "sync", "record"},
                                     ids : Seq(Id), rest : Seq(Unit)]]]
    /\ kept \in [Procs -> BOOLEAN]
    /\ made \subseteq Id /\ acked \subseteq Seq(Id) /\ calls \in 0 .. MaxCalls
    /\ faults \in 0 .. MaxFaults

\* A process that never appends mirrors the file: its array is what the lines up to its
\* offset decode to, each once and in file order, and the offset is the end of a line.
MirrorsFile ==
    \A p \in Procs \ Writers :
        mode[p] # "down" /\ ~kept[p] =>
            LET seen == SubSeq(file, 1, readBytes[p])
            IN  /\ readBytes[p] <= Len(file) /\ Consumed(seen) = readBytes[p]
                /\ store[p] = Scan(seen)

\* What append has acknowledged stays in the file as it was written, in one piece,
\* through kills, crashes, failed writes and recoveries.
AckedOnDisk ==
    \A ids \in acked :
        \E n \in 0 .. Len(file) - Len(Buffer(ids)) :
            SubSeq(file, n + 1, n + Len(Buffer(ids))) = Buffer(ids)

\* An event that a line of the file decodes to is in p's array in the end, unless a crash
\* takes the line back or p ends.  (A line p's own boot kept unterminated may be cut later,
\* and p's offset with it: nothing is promised then.)
CatchesUp(p) ==
    \A id \in Id :
        (mode[p] = "up" /\ id \in Range(Scan(file)))
            ~> (mode[p] # "up" \/ kept[p] \/ id \in Range(store[p]))

\* The polling of a process that never appends brings it every event.
MirrorCatchesUp == \A p \in Procs \ Writers : CatchesUp(p)

\* cross-process.test.ts:52 of every process: it sees what the others append.
EveryoneCatchesUp == \A p \in Procs : CatchesUp(p)

\* Design 5.5: recovery "prevents appending after a partial line", so that an event whose
\* append succeeded is recovered by the next start.
AckedIsRecovered == \A ids \in acked : Range(ids) \subseteq Range(Recover(file).events)
=============================================================================
