---------------------------- MODULE MemoryStore ----------------------------
(***************************************************************************)
(* packages/store-memory/src/MemoryStore.ts: the in-process event store.   *)
(*                                                                         *)
(* append runs wholly under a one-permit semaphore: it stamps the batch,   *)
(* extends the array in one Ref.update and publishes the envelopes one by  *)
(* one to a sliding PubSub.  subscribe takes the same permit to capture    *)
(* the array and register with the PubSub, then replays the captured       *)
(* events and goes on with its own queue, dropping what the snapshot held. *)
(* The subscriber's fiber takes no permit, so it may run between any two   *)
(* publications of a batch.                                                *)
(***************************************************************************)
EXTENDS EventLog

CONSTANTS
    Subs,        \* subscribers
    Clock,       \* readings the wall clock may give, in any order
    Capacity,    \* of the sliding PubSub: 1024 in the code
    MaxBatch,    \* bound: events in one append
    MaxEvents,   \* bound: events in the store
    MaxCursor    \* bound: ids a client may pass as a cursor

ASSUME MemoryAssumption ==
    /\ Clock \subseteq Nat
    /\ Capacity \in Nat \ {0}
    /\ MaxBatch \in Nat /\ MaxEvents \in Nat /\ MaxCursor \in Nat

VARIABLES
    store,       \* Ref: the array of envelopes
    last,        \* Ref of Ulid.Live: the last time part handed out
    draft,       \* envelopes the append in progress has stamped so far
    outbox,      \* envelopes of the append in progress still to be published
    sub,         \* per subscriber, its stream
    seen,        \* history: what the stream has emitted, across resumptions
    floor,       \* history: the id the subscriber asked to start after
    dropped      \* history: envelopes the sliding PubSub threw away

vars == <<store, last, draft, outbox, sub, seen, floor, dropped>>

Closed == [on |-> FALSE, cursor |-> Earliest, filter |-> {}, snap |-> 0,
           pos |-> 0, queue |-> <<>>, chunk |-> <<>>]

Init ==
    /\ store = <<>> /\ last = 0 /\ draft = <<>> /\ outbox = <<>>
    /\ sub = [s \in Subs |-> Closed]
    /\ seen = [s \in Subs |-> <<>>]
    /\ floor = [s \in Subs |-> 0]
    /\ dropped = [s \in Subs |-> {}]

\* The permit: append holds it from its first envelope to its last publication.
LockFree == draft = <<>> /\ outbox = <<>>
----------------------------------------------------------------------------
\* append, one turn of its loop: the next envelope of the batch is stamped.
MakeEnvelope(kind, now) ==
    /\ outbox = <<>>
    /\ Len(draft) < MaxBatch /\ Len(store) + Len(draft) < MaxEvents
    /\ last' = UlidNext(last, now)
    /\ draft' = Append(draft, [id |-> UlidNext(last, now), kind |-> kind])
    /\ UNCHANGED <<store, outbox, sub, seen, floor, dropped>>

\* Ref.update: the whole batch becomes visible to reads at once.
Commit ==
    /\ draft # <<>>
    /\ store' = store \o draft
    /\ outbox' = draft
    /\ draft' = <<>>
    /\ UNCHANGED <<last, sub, seen, floor, dropped>>

\* Mutant: the PubSub drops the newest instead of sliding.
OfferDropping(q, e) == IF Len(q) >= Capacity THEN q ELSE Append(q, e)

\* Mutant: a queue that slides one slot early.
FullEarly(q) == Len(q) >= Capacity - 1

\* pubsub.publish: every open queue gains the envelope; a full one slides.
Full(q) == Len(q) >= Capacity

Offer(q, e) == IF Full(q) THEN Append(Tail(q), e) ELSE Append(q, e)

Publish ==
    /\ outbox # <<>>
    /\ outbox' = Tail(outbox)
    /\ sub' = [s \in Subs |->
                IF sub[s].on
                THEN [sub[s] EXCEPT !.queue = Offer(@, Head(outbox))]
                ELSE sub[s]]
    /\ dropped' = [s \in Subs |->
                IF sub[s].on /\ Full(sub[s].queue)
                THEN dropped[s] \cup {Head(sub[s].queue)}
                ELSE dropped[s]]
    /\ UNCHANGED <<store, last, draft, seen, floor>>
----------------------------------------------------------------------------
\* subscribe({cursor, filter}): snapshot and registration under the permit.
Open(s, c, f) ==
    /\ LockFree
    /\ ~sub[s].on
    /\ sub' = [sub EXCEPT ![s] =
                [on |-> TRUE, cursor |-> c, filter |-> f, snap |-> Len(store),
                 pos |-> IF c = Latest THEN Len(store) ELSE 0,
                 queue |-> <<>>, chunk |-> <<>>]]
    /\ UNCHANGED <<store, last, draft, outbox>>

\* Where a subscription starts: the cursor, or the end of the snapshot before it.
StartOf(c) ==
    CASE c = Earliest -> 0
      [] c = Latest   -> LastId(store)
      [] OTHER        -> IF c < LastId(store) THEN c ELSE LastId(store)

Subscribe(s, c, f) ==
    /\ Open(s, c, f)
    /\ seen' = [seen EXCEPT ![s] = <<>>]
    /\ floor' = [floor EXCEPT ![s] = StartOf(c)]
    /\ dropped' = [dropped EXCEPT ![s] = {}]

\* A subscriber whose stream ended comes back with the last id it has seen; what
\* was lost above that id is in the new snapshot.
Resume(s) ==
    /\ seen[s] # <<>>
    /\ Open(s, LastId(seen[s]), sub[s].filter)
    /\ dropped' = [dropped EXCEPT ![s] = {e \in @ : e.id < LastId(seen[s])}]
    /\ UNCHANGED <<seen, floor>>

\* The scope of the stream closes: queue and chunk are gone.
Unsubscribe(s) ==
    /\ sub[s].on
    /\ sub' = [sub EXCEPT ![s] = [Closed EXCEPT !.filter = sub[s].filter]]
    /\ UNCHANGED <<store, last, draft, outbox, seen, floor, dropped>>

\* Snapshot positions the replay has still to emit.
Replay(s) ==
    {i \in sub[s].pos + 1 .. sub[s].snap :
        AfterCursor(sub[s].cursor, store[i]) /\ Matches(sub[s].filter, store[i])}

\* Mutant: the replay runs from the newest snapshot event back.
EmitReplayNewest(s) ==
    /\ sub[s].on
    /\ \E i \in Replay(s) :
        /\ \A j \in Replay(s) : j <= i
        /\ seen' = [seen EXCEPT ![s] = Append(@, store[i])]
        /\ sub' = [sub EXCEPT ![s].pos = i]
    /\ UNCHANGED <<store, last, draft, outbox, floor, dropped>>

EmitReplay(s) ==
    /\ sub[s].on
    /\ \E i \in Replay(s) :
        /\ \A j \in Replay(s) : i <= j
        /\ seen' = [seen EXCEPT ![s] = Append(@, store[i])]
        /\ sub' = [sub EXCEPT ![s].pos = i]
    /\ UNCHANGED <<store, last, draft, outbox, floor, dropped>>

\* Stream.fromQueue, once the replay is exhausted: the whole queue is one chunk.
TakeChunk(s) ==
    /\ sub[s].on /\ Replay(s) = {}
    /\ sub[s].chunk = <<>> /\ sub[s].queue # <<>>
    /\ sub' = [sub EXCEPT ![s].chunk = sub[s].queue, ![s].queue = <<>>]
    /\ UNCHANGED <<store, last, draft, outbox, seen, floor, dropped>>

\* The id of the last envelope in the snapshot, 0 for an empty one.
SnapMax(s) == IF sub[s].snap = 0 THEN 0 ELSE store[sub[s].snap].id

\* Mutant: the live filter compares with the store as it is now, not with the snapshot.
PassesLiveLate(s, e) == Matches(sub[s].filter, e) /\ e.id > LastId(store)

\* The live filter: what the snapshot already held does not pass.
PassesLive(s, e) == Matches(sub[s].filter, e) /\ e.id > SnapMax(s)

EmitLive(s) ==
    /\ sub[s].on /\ sub[s].chunk # <<>>
    /\ LET e == Head(sub[s].chunk)
       IN  seen' = IF PassesLive(s, e) THEN [seen EXCEPT ![s] = Append(@, e)] ELSE seen
    /\ sub' = [sub EXCEPT ![s].chunk = Tail(@)]
    /\ UNCHANGED <<store, last, draft, outbox, floor, dropped>>
----------------------------------------------------------------------------
Cursors == {Earliest, Latest} \cup 0 .. MaxCursor

Next ==
    \/ \E kind \in Kind, now \in Clock : MakeEnvelope(kind, now)
    \/ Commit
    \/ Publish
    \/ \E s \in Subs :
        \/ \E c \in Cursors, f \in Filter \ {{}} : Subscribe(s, c, f)
        \/ Resume(s)
        \/ Unsubscribe(s)
        \/ EmitReplay(s)
        \/ TakeChunk(s)
        \/ EmitLive(s)

Spec == Init /\ [][Next]_vars

\* Effect schedules every runnable fiber: an append under way publishes, and a
\* subscription whose consumer keeps pulling goes on emitting.
Fairness ==
    /\ WF_vars(Commit) /\ WF_vars(Publish)
    /\ \A s \in Subs : WF_vars(EmitReplay(s)) /\ WF_vars(TakeChunk(s)) /\ WF_vars(EmitLive(s))

FairSpec == Spec /\ Fairness
----------------------------------------------------------------------------
TypeOK ==
    /\ store \in Seq(Event) /\ draft \in Seq(Event) /\ outbox \in Seq(Event) /\ last \in Nat
    /\ sub \in [Subs -> [on : BOOLEAN, cursor : Cursor, filter : Filter, snap : Nat,
                         pos : Nat, queue : Seq(Event), chunk : Seq(Event)]]
    /\ seen \in [Subs -> Seq(Event)]
    /\ floor \in [Subs -> Nat]
    /\ dropped \in [Subs -> SUBSET Event]

\* One stream, over all the times its subscriber resumed from the last id it saw,
\* emits ids in strictly increasing order: nothing twice, nothing out of order.
DeliveredInOrder == \A s \in Subs : Increasing(seen[s])

\* What subscriber s asked for: the matching events after its start.
Owed(s) == {e \in Range(store) : e.id > floor[s] /\ Matches(sub[s].filter, e)}

\* The hand-off from snapshot to queue leaves no gap and adds nothing: up to the
\* last event emitted, a stream has emitted exactly the events it owed, except
\* those the sliding PubSub threw away.
NoGapBehind ==
    \A s \in Subs :
        Range(seen[s]) = {e \in Owed(s) : e.id <= LastId(seen[s])} \ dropped[s]

\* The sliding buffer only costs a subscriber that is behind by its capacity: an
\* event lost to it is followed in the store by at least Capacity others.
KeepingUpLosesNothing ==
    \A s \in Subs : \A e \in dropped[s] :
        Cardinality({x \in Range(store) : x.id > e.id}) >= Capacity

\* A client that pages through queryAfter, each page after the last id of the one before,
\* reads what one query of everything returns, and has nothing left at latestCursor.
PagingLosesNothing ==
    \A f \in Filter \ {{}} :
        /\ QueryAfter(store, Earliest, f, MaxEvents) = Query(store, f, MaxEvents)
        /\ QueryAfter(store, LatestCursor(store), f, MaxEvents) = <<>>
        /\ \A c \in {Earliest} \cup 0 .. MaxCursor, limit \in 1 .. MaxBatch :
            LET page == QueryAfter(store, c, f, limit)
            IN  QueryAfter(store, c, f, MaxEvents) =
                    page \o QueryAfter(store, IF page = <<>> THEN c ELSE LastId(page), f,
                                       IF page = <<>> THEN 0 ELSE MaxEvents)

\* Every event an open stream owes is emitted in the end, unless the buffer slid
\* past it or the subscriber went away.
OwedIsDelivered ==
    \A s \in Subs : \A n \in 1 .. MaxCursor :
        (sub[s].on /\ \E e \in Owed(s) : e.id = n)
            ~> (~sub[s].on \/ \E e \in Range(seen[s]) \cup dropped[s] : e.id = n)

\* The store implements the abstract event stream.
Stream == INSTANCE EventStream WITH
    log <- store, got <- seen, start <- floor, filter <- [s \in Subs |-> sub[s].filter]
StreamSpec == Stream!Spec
=============================================================================
