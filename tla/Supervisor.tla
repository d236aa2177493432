----------------------------- MODULE Supervisor -----------------------------
(***************************************************************************)
(* packages/runtime: supervise runs one fiber per agent, each pulling the  *)
(* events that match its filter out of the store, and remembers in an      *)
(* AgentCursorStore.File how far every agent has come.                     *)
(*                                                                         *)
(* The store is the contract of EventStream: one log, an id per position,  *)
(* no event lost to a subscriber.  A process may be killed and started     *)
(* again; the log and the cursor file survive it.                          *)
(***************************************************************************)
EXTENDS Integers, Sequences, FiniteSets

CONSTANTS
    Agents,
    Emitters,     \* the agents whose handler or reducer returns an event to emit
    Kinds,        \* what the agents may be: functions from Agents to Behaviour
    On,           \* per agent, the kinds its filter lets through
    External,     \* the kind of the events that come from outside
    Out,          \* the kind of the events agents emit
    Nobody,       \* the origin of external events
    Timer,        \* the fiber of the time-based flush
    Earliest, Latest,
    First,        \* per agent, the cursor the file holds before the first start
    Empty,        \* the cursor file between open("w") and its write
    FlushEvents,  \* cursorFlush.events: 100 in the code
    Faults,       \* which of "handler", "append", "beat", "kill" may strike
    MaxArrivals,  \* bound, for each choice of kinds: external events
    MaxFaults     \* bound, for each choice of kinds: faults in one behaviour

\* validateAgent admits an agent with a handler, here plain or in withIdempotence over local
\* memory, or with a reducer and its initial state.  "none" is an agent that is not there.
Behaviour == {"handle", "once", "reduce", "none"}

ASSUME SupervisorAssumption ==
    /\ Kinds \subseteq [Agents -> Behaviour] /\ Emitters \subseteq Agents
    /\ Timer \notin Agents /\ Nobody \notin Agents
    /\ First \in [Agents -> Nat \cup {Earliest, Latest}]
    /\ Empty \notin [Agents -> Nat \cup {Earliest, Latest}]
    /\ Earliest \notin Nat /\ Latest \notin Nat /\ Earliest # Latest
    /\ Faults \subseteq {"handler", "append", "beat", "kill"}
    /\ FlushEvents \in Nat \ {0} /\ {MaxArrivals, MaxFaults} \subseteq [Kinds -> Nat]

VARIABLES
    kind,      \* what each agent is
    state,     \* the state of a reducer: the events it has folded, in order
    keys,      \* the localRef of withIdempotence
    log,       \* the store; an event's id is its position
    up,        \* whether the supervising process runs
    cur,       \* Ref of the cursor store: what get returns, per agent
    disk,      \* the cursor file: a map like cur, or Empty
    start,     \* startCursor of runOne
    pc,        \* where each agent's fiber is
    pos,       \* its subscription: the last id it has pulled
    pending,   \* Ref pendingCursor, 0 for null
    count,     \* Ref flushedCount
    flush,     \* per fiber, the flushCursorFor it is in
    emitted,   \* lastEmittedCursor of the heartbeat fiber, -1 when it has no entry
    beat,      \* history: the cursor of the last heartbeat this process appended, per agent
    floor,     \* history: where the agent's first subscription ever started
    handled,   \* history: the events its handler has completed
    failed,    \* history: the events such an agent has failed on, or was interrupted at
    born,      \* history: what the log held when such an agent's keys were first empty
    torn,      \* history: a kill has left the cursor file empty
    faults

own == <<kind, state, keys, failed, born>>
vars == <<log, up, cur, disk, start, pc, pos, pending, count, flush, emitted, beat, floor,
          handled, torn, faults, own>>

Fibers == Agents \cup {Timer}
Cursor == Nat \cup {Earliest, Latest}
NoFlush == [pc |-> "idle", agent |-> Nobody, map |-> Empty]

\* An unknown agent's cursor.
Unknown == [a \in Agents |-> Latest]

Init ==
    /\ kind \in Kinds
    /\ state = [a \in Agents |-> <<>>] /\ keys = [a \in Agents |-> {}]
    /\ failed = [a \in Agents |-> {}] /\ born = 0
    /\ log = <<>> /\ up = FALSE
    /\ cur = First /\ disk = First /\ start = First
    /\ pc = [a \in Agents |-> "off"]
    /\ pos = [a \in Agents |-> 0]
    /\ pending = [a \in Agents |-> 0]
    /\ count = [a \in Agents |-> 0]
    /\ flush = [x \in Fibers |-> NoFlush]
    /\ emitted = [a \in Agents |-> -1]
    /\ beat = [a \in Agents |-> -1]
    /\ floor = [a \in Agents |-> -1]
    /\ handled = [a \in Agents |-> {}]
    /\ torn = FALSE /\ faults = 0

Strikes(fault) == fault \in Faults /\ faults < MaxFaults[kind] /\ faults' = faults + 1

Wanted(a, i) == log[i].kind \in On[a]

Arrive ==
    /\ Cardinality({i \in DOMAIN log : log[i].by = Nobody}) < MaxArrivals[kind]
    /\ log' = Append(log, [kind |-> External, by |-> Nobody, cause |-> 0])
    /\ UNCHANGED <<up, cur, disk, start, pc, pos, pending, count, flush, emitted, beat, floor,
                   handled, faults, torn, own>>
----------------------------------------------------------------------------
\* supervise: the cursor file is read, and every agent reads its cursor from it.  An
\* empty file, like an unknown agent, means "latest".
Start ==
    /\ ~up /\ up' = TRUE
    /\ cur' = IF disk = Empty THEN Unknown ELSE disk
    /\ start' = cur'
    /\ pc' = [a \in Agents |-> IF kind[a] = "none" THEN "off" ELSE "subscribe"]
    /\ UNCHANGED <<log, disk, pos, pending, count, flush, emitted, beat, floor, handled,
                   faults, torn, own>>

\* Mutant: the cursor goes to the stream as it is.
SubscribeRaw(a) ==
    /\ pc[a] = "subscribe"
    /\ pos' = [pos EXCEPT ![a] = start[a]]
    /\ floor' = [floor EXCEPT ![a] = IF @ = -1 THEN 0 ELSE @]
    /\ pc' = [pc EXCEPT ![a] = "wait"]
    /\ UNCHANGED <<log, up, cur, disk, start, pending, count, flush, emitted, beat, handled,
                   faults, torn, own>>

StartAt(a) == CASE start[a] = Earliest -> 0
                [] start[a] = Latest -> Len(log)
                [] OTHER -> start[a]

SubscribeAt(a, p) ==
    /\ pc[a] = "subscribe"
    /\ pos' = [pos EXCEPT ![a] = p]
    /\ floor' = [floor EXCEPT ![a] = IF @ = -1 THEN p ELSE @]
    /\ pc' = [pc EXCEPT ![a] = "wait"]
    /\ UNCHANGED <<log, up, cur, disk, start, pending, count, flush, emitted, beat, handled,
                   faults, torn, own>>

\* Mutant: every attempt starts at the end of the log.
SubscribeLatest(a) == SubscribeAt(a, Len(log))

\* Mutant: a retried agent goes on behind the last event it has marked.
SubscribeResuming(a) == SubscribeAt(a, IF pending[a] # 0 THEN pending[a] ELSE StartAt(a))

\* store.subscribe({cursor: startCursor}): on every attempt, from the same cursor.
Subscribe(a) == SubscribeAt(a, StartAt(a))

\* The next event its stream holds for agent a.
Ahead(a) == {i \in pos[a] + 1 .. Len(log) : Wanted(a, i)}

\* withIdempotence skips an event whose key it has.
Runs(a, i) == kind[a] = "once" => i \notin keys[a]

\* onEvent up to the handler's result: a reducer folds, withIdempotence notes the key.
HandleThen(a, i) ==
    /\ pc[a] = "wait" /\ i \in Ahead(a) /\ \A j \in Ahead(a) : i <= j
    /\ pos' = [pos EXCEPT ![a] = i]
    /\ handled' = IF Runs(a, i) THEN [handled EXCEPT ![a] = @ \cup {i}] ELSE handled
    /\ state' = IF kind[a] = "reduce" THEN [state EXCEPT ![a] = Append(@, i)] ELSE state
    /\ keys' = IF kind[a] = "once" THEN [keys EXCEPT ![a] = @ \cup {i}] ELSE keys
    /\ pc' = [pc EXCEPT ![a] = IF a \in Emitters /\ Runs(a, i) THEN "emit" ELSE "mark"]
    /\ UNCHANGED <<log, up, cur, disk, start, count, flush, emitted, beat, floor, faults, torn,
                   kind, failed, born>>

\* Mutant: pendingCursor moves before the emits are appended.
HandleMarksFirst(a) ==
    \E i \in Ahead(a) : HandleThen(a, i) /\ pending' = [pending EXCEPT ![a] = i]

Handle(a) == \E i \in Ahead(a) : HandleThen(a, i) /\ UNCHANGED pending

Failing(a, i) ==
    failed' = IF kind[a] = "once" THEN [failed EXCEPT ![a] = @ \cup {i}] ELSE failed

\* The handler fails, its key noted already, or the append of the emits.  kept: the keys
\* that outlive the failure.
Fails(a, kept) ==
    /\ \/ \E i \in Ahead(a) :
            /\ pc[a] = "wait" /\ \A j \in Ahead(a) : i <= j
            /\ kind[a] # "reduce" /\ Runs(a, i) /\ Strikes("handler") /\ Failing(a, i)
            /\ keys' = [keys EXCEPT ![a] = IF kind[a] = "once" THEN kept \cup {i} ELSE kept]
       \/ /\ pc[a] = "emit" /\ Strikes("append") /\ Failing(a, pos[a])
          /\ keys' = [keys EXCEPT ![a] = kept]
    /\ UNCHANGED <<log, up, cur, disk, start, pos, pending, count, flush, emitted, beat, floor,
                   handled, torn, kind, state, born>>

\* Mutant: a failure ends the agent's fiber.
RetryNever(a) == Fails(a, keys[a]) /\ pc' = [pc EXCEPT ![a] = "off"]

\* Mutant: every attempt makes its own memory of keys.
RetryForgetting(a) == Fails(a, {}) /\ pc' = [pc EXCEPT ![a] = "subscribe"]

\* Effect.retry runs the stream again, over the same state and the same keys.
Retry(a) == Fails(a, keys[a]) /\ pc' = [pc EXCEPT ![a] = "subscribe"]

\* store.append(stamped), causedBy the event handled.
Emit(a) ==
    /\ pc[a] = "emit"
    /\ log' = Append(log, [kind |-> Out, by |-> a, cause |-> pos[a]])
    /\ pc' = [pc EXCEPT ![a] = "mark"]
    /\ UNCHANGED <<up, cur, disk, start, pos, pending, count, flush, emitted, beat, floor,
                   handled, faults, torn, own>>

\* Ref.set(pendingCursor, event.id), and the count that may call for a flush.
Mark(a) ==
    /\ pc[a] = "mark"
    /\ pending' = [pending EXCEPT ![a] = pos[a]]
    /\ count' = [count EXCEPT ![a] = @ + 1]
    /\ pc' = [pc EXCEPT ![a] = IF count[a] + 1 >= FlushEvents THEN "flush" ELSE "wait"]
    /\ UNCHANGED <<log, up, cur, disk, start, pos, flush, emitted, beat, floor, handled,
                   faults, torn, own>>
----------------------------------------------------------------------------
\* flushCursorFor(a) in fiber x, the agent's own or the timer's: pendingCursor is read
\* and set in the Ref of AgentCursorStore.File, with no suspension in between.
Flush(x, a) ==
    /\ up /\ flush[x].pc = "idle" /\ pending[a] # 0
    /\ x = Timer \/ (x = a /\ pc[a] = "flush")
    /\ cur' = [cur EXCEPT ![a] = pending[a]]
    /\ flush' = [flush EXCEPT ![x] = [NoFlush EXCEPT !.pc = "persist", !.agent = a]]
    /\ UNCHANGED <<log, up, disk, start, pc, pos, pending, count, emitted, beat, floor, handled,
                   faults, torn, own>>

\* Mutant: persist without its permit.
PersistOpenUnlocked(x) ==
    /\ flush[x].pc = "persist"
    /\ flush' = [flush EXCEPT ![x] = [@ EXCEPT !.pc = "write", !.map = cur]]
    /\ disk' = Empty
    /\ UNCHANGED <<log, up, cur, start, pc, pos, pending, count, emitted, beat, floor, handled,
                   faults, torn, own>>

\* persist, under its permit: the map is read, then open("w") empties the file.
PersistOpen(x) ==
    /\ flush[x].pc = "persist" /\ \A y \in Fibers : flush[y].pc # "write"
    /\ flush' = [flush EXCEPT ![x] = [@ EXCEPT !.pc = "write", !.map = cur]]
    /\ disk' = Empty
    /\ UNCHANGED <<log, up, cur, start, pc, pos, pending, count, emitted, beat, floor, handled,
                   faults, torn, own>>

\* writeAll and sync; then flushedCount is 0, and the agent's fiber goes on.
PersistWrite(x) ==
    /\ flush[x].pc = "write"
    /\ disk' = flush[x].map
    /\ count' = [count EXCEPT ![flush[x].agent] = 0]
    /\ flush' = [flush EXCEPT ![x] = NoFlush]
    /\ pc' = IF x = Timer THEN pc ELSE [pc EXCEPT ![x] = "wait"]
    /\ UNCHANGED <<log, up, cur, start, pos, pending, emitted, beat, floor, handled, faults,
                   torn, own>>
----------------------------------------------------------------------------
\* One tick of forkHeartbeat: one batch for the agents that moved since their last one.
Moved == {a \in Agents : kind[a] # "none" /\ emitted[a] # pending[a]}

Heartbeat ==
    /\ up /\ Moved # {}
    /\ emitted' = [a \in Agents |-> IF a \in Moved THEN pending[a] ELSE emitted[a]]
    /\ beat' = [a \in Agents |-> IF a \in Moved THEN pending[a] ELSE beat[a]]
    /\ UNCHANGED <<log, up, cur, disk, start, pc, pos, pending, count, flush, floor, handled,
                   faults, torn, own>>

\* Mutant: the map of emitted cursors is updated although the append failed.
HeartbeatFailsRecorded ==
    /\ up /\ Moved # {} /\ Strikes("beat")
    /\ emitted' = [a \in Agents |-> IF a \in Moved THEN pending[a] ELSE emitted[a]]
    /\ UNCHANGED <<log, up, cur, disk, start, pc, pos, pending, count, flush, beat, floor,
                   handled, torn, own>>

\* The append of the batch fails: catchAll, nothing is recorded.
HeartbeatFails ==
    /\ up /\ Moved # {} /\ Strikes("beat")
    /\ UNCHANGED <<log, up, cur, disk, start, pc, pos, pending, count, flush, emitted, beat,
                   floor, handled, torn, own>>
----------------------------------------------------------------------------
\* Everything supervise and its fibers held in memory is gone.
Gone ==
    /\ up' = FALSE
    /\ pc' = [a \in Agents |-> "off"]
    /\ pos' = [a \in Agents |-> 0]
    /\ pending' = [a \in Agents |-> 0]
    /\ count' = [a \in Agents |-> 0]
    /\ flush' = [x \in Fibers |-> NoFlush]
    /\ emitted' = [a \in Agents |-> -1]
    /\ beat' = [a \in Agents |-> -1]
    /\ state' = [a \in Agents |-> <<>>]
    /\ UNCHANGED kind

\* The keys of withIdempotence live as long as the definition of its agent.
Forgotten ==
    /\ keys' = [a \in Agents |-> {}]
    /\ born' = (IF \E a \in Agents : kind[a] = "once" THEN Len(log) ELSE 0)
    /\ UNCHANGED failed

\* The event agent a is interrupted at once its key is noted; `running` handlers are midway.
Cut(a, running) ==
    {i \in Ahead(a) \cup {pos[a]} :
        /\ kind[a] = "once"
        /\ IF pc[a] = "emit" THEN i = pos[a]
           ELSE /\ a \in running /\ pc[a] = "wait"
                /\ i \in Ahead(a) /\ Runs(a, i) /\ \A j \in Ahead(a) : i <= j}

\* Supervised again in the same process, an agent has the keys it had.
Remembered ==
    /\ \E running \in SUBSET Agents :
        /\ keys' = [a \in Agents |-> keys[a] \cup Cut(a, running)]
        /\ failed' = [a \in Agents |-> failed[a] \cup Cut(a, running)]
    /\ UNCHANGED born

\* The scope closes, with the process or without it: the fibers are interrupted, and onExit
\* flushes every cursor.
Stop ==
    /\ up /\ Strikes("kill")
    /\ Gone /\ (Forgotten \/ Remembered)
    /\ cur' = [a \in Agents |-> IF pending[a] # 0 THEN pending[a] ELSE cur[a]]
    /\ disk' = IF \E a \in Agents : pending[a] # 0 THEN cur' ELSE disk
    /\ UNCHANGED <<log, start, floor, handled, torn>>

\* The process is killed; between open("w") and the write, the cursor file stays empty.
Kill ==
    /\ up /\ Strikes("kill")
    /\ Gone /\ Forgotten
    /\ cur' = Unknown
    /\ torn' = (torn \/ disk = Empty)
    /\ UNCHANGED <<log, disk, start, floor, handled>>

Next ==
    \/ Arrive \/ Start \/ Stop \/ Kill \/ Heartbeat \/ HeartbeatFails
    \/ \E a \in Agents : Subscribe(a) \/ Handle(a) \/ Retry(a) \/ Emit(a) \/ Mark(a)
    \/ \E x \in Fibers :
        \/ \E a \in Agents : Flush(x, a)
        \/ PersistOpen(x) \/ PersistWrite(x)

Spec == Init /\ [][Next]_vars

\* Fibers are scheduled, retries come after their delay, the heartbeat ticks.  The store
\* and the file answer; a handler that does not fail returns.  The permit of persist goes
\* to its waiters in turn, hence strong fairness.
Fairness ==
    /\ WF_vars(Heartbeat)
    /\ \A a \in Agents :
        /\ WF_vars(Subscribe(a)) /\ WF_vars(Handle(a)) /\ WF_vars(Emit(a)) /\ WF_vars(Mark(a))
        /\ WF_vars(Flush(a, a))
    /\ \A x \in Fibers : SF_vars(PersistOpen(x)) /\ WF_vars(PersistWrite(x))

FairSpec == Spec /\ Fairness
----------------------------------------------------------------------------
Origin == [kind : {External, Out}, by : Agents \cup {Nobody}, cause : Nat]

\* The type invariant: cursors that may be literals, positions that may not.
TypeOK ==
    /\ log \in Seq(Origin) /\ up \in BOOLEAN
    /\ cur \in [Agents -> Cursor] /\ disk \in [Agents -> Cursor] \cup {Empty}
    /\ start \in [Agents -> Cursor]
    /\ pc \in [Agents -> {"off", "subscribe", "wait", "emit", "mark", "flush"}]
    /\ pos \in [Agents -> Nat] /\ pending \in [Agents -> Nat] /\ count \in [Agents -> Nat]
    /\ flush \in [Fibers -> [pc : {"idle", "persist", "write"}, agent : Agents \cup {Nobody},
                             map : [Agents -> Cursor] \cup {Empty}]]
    /\ emitted \in [Agents -> Nat \cup {-1}] /\ beat \in [Agents -> Nat \cup {-1}]
    /\ floor \in [Agents -> Nat \cup {-1}]
    /\ kind \in [Agents -> Behaviour] /\ state \in [Agents -> Seq(Nat)]
    /\ keys \in [Agents -> SUBSET Nat] /\ failed \in [Agents -> SUBSET Nat]
    /\ born \in Nat
    /\ handled \in [Agents -> SUBSET Nat] /\ torn \in BOOLEAN /\ faults \in 0 .. MaxFaults[kind]

\* What agent a owes up to id n: the events its filter lets through since it first came.
Owed(a, n) == {i \in DOMAIN log : floor[a] # -1 /\ floor[a] < i /\ i <= n /\ Wanted(a, i)}

\* An event on which an agent under withIdempotence has failed is skipped by its retry, and
\* one at which it was interrupted by the next supervise of its process.
Excused(a) == IF kind[a] = "once" THEN failed[a] ELSE {}

\* At least once: a subscription never stands beyond an event its agent has not handled.
\* The ways to lose events are a kill that leaves the cursor file empty, and a failure or an
\* interruption under withIdempotence, which loses the event it was about.
NothingSkipped ==
    ~torn => \A a \in Agents :
        pc[a] = "wait" => Owed(a, pos[a]) \subseteq handled[a] \cup Excused(a)

Emissions(a, i) == {k \in DOMAIN log : log[k].by = a /\ log[k].cause = i}

\* A cursor, in memory or on disk, stands for work that is done: up to it every event was
\* handled, and what its handler returned is in the log (the same two excepted).
CursorMeansDone ==
    ~torn =>
        \A a \in Agents :
            \A c \in {pending[a], cur[a]} \cup (IF disk = Empty THEN {} ELSE {disk[a]}) :
                c \in Nat => \A i \in Owed(a, c) \ Excused(a) :
                    i \in handled[a] /\ (a \in Emitters => Emissions(a, i) # {})

\* withIdempotence: however often its agent is retried and its events replayed, what the
\* handler returned for an event is appended at most once by a process.
EmittedOnce ==
    \A a \in Agents : kind[a] = "once" =>
        \A i \in DOMAIN log : Cardinality({k \in Emissions(a, i) : k > born}) <= 1

IsNext(a, i, n) == Wanted(a, i) /\ n < i /\ \A j \in n + 1 .. i - 1 : ~Wanted(a, j)

\* What a reducer has folded into its state: every event from where it started on, in order,
\* up to where it stands, and again from the start only after a failure.
StateReplays ==
    \A a \in Agents : kind[a] = "reduce" /\ start[a] # Latest =>
        LET s == state[a]
            again == {j \in DOMAIN s : IsNext(a, s[j], StartAt(a))}
        IN  /\ \A j \in DOMAIN s : j \in again \/ (j > 1 /\ IsNext(a, s[j], s[j - 1]))
            /\ Cardinality(again) <= 1 + faults
            /\ up /\ pos[a] > StartAt(a) => s # <<>> /\ s[Len(s)] = pos[a]

\* A set that has returned is on disk: when no flush is under way file and Ref agree,
\* however the flushes of the agents and of the timer overlapped.
PersistedIsCurrent ==
    (up /\ \A x \in Fibers : flush[x].pc = "idle") => (disk = cur \/ cur = Unknown)

\* An agent that is behind catches up with the log, as long as the process runs.
CatchesUp ==
    \A a \in Agents :
        (up /\ kind[a] # "none" /\ ~(Owed(a, Len(log)) \subseteq handled[a] \cup Excused(a)))
            ~> (Owed(a, Len(log)) \subseteq handled[a] \cup Excused(a) \/ ~up \/ torn)

\* A cursor that has moved is reported by a heartbeat, whatever append failed before.
HeartbeatCatchesUp ==
    \A a \in Agents :
        (up /\ kind[a] # "none" /\ beat[a] # pending[a]) ~> (beat[a] = pending[a] \/ ~up)
=============================================================================
