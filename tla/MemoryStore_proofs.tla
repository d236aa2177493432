------------------------- MODULE MemoryStore_proofs -------------------------
(***************************************************************************)
(* Proofs about MemoryStore, for every number of subscribers, every clock, *)
(* every buffer capacity and every bound.                                  *)
(***************************************************************************)
EXTENDS MemoryStore, EventLog_proofs

\* Every element of a is an event of the store with an id above n.
Later(a, n) == \A x \in Range(a) : x \in Range(store) /\ n < x.id

\* Every id handed out is at most last, and the array is in id order.
StoreInv ==
    /\ Increasing(store) /\ Increasing(draft)
    /\ \A x \in Range(store) \cup Range(draft) : x.id <= last
    /\ Below(store, draft)

\* What is still to be published is in the array already, in order.
OutboxInv ==
    /\ draft = <<>> \/ outbox = <<>>
    /\ Increasing(outbox)
    /\ Range(outbox) \subseteq Range(store)

\* The stages of an open stream follow one another in id order.
PipeInv(s) ==
    LET u == sub[s]
    IN  u.on =>
        /\ u.snap <= Len(store) /\ u.pos <= u.snap
        /\ Later(u.chunk, SnapMax(s)) /\ Later(u.queue, SnapMax(s)) /\ Later(outbox, SnapMax(s))
        /\ Increasing(u.chunk) /\ Increasing(u.queue)
        /\ Below(u.chunk, u.queue) /\ Below(u.chunk, outbox) /\ Below(u.queue, outbox)
        /\ Later(u.chunk, LastId(seen[s])) /\ Later(u.queue, LastId(seen[s]))
        /\ Later(outbox, LastId(seen[s]))
        /\ floor[s] <= SnapMax(s)
        /\ \A i \in Replay(s) : LastId(seen[s]) < store[i].id /\ floor[s] < store[i].id
        /\ u.chunk # <<>> => Replay(s) = {}

\* What was emitted was owed, in order; what was dropped is nowhere else.
SeenInv(s) ==
    /\ Increasing(seen[s])
    /\ Range(seen[s]) \subseteq Owed(s)
    /\ \A d \in dropped[s] :
        /\ d \in Range(store)
        /\ d \notin Range(seen[s])
        /\ sub[s].on => /\ d \notin Range(sub[s].chunk) /\ d \notin Range(sub[s].queue)
                        /\ d \notin Range(outbox)
                        /\ \A i \in Replay(s) : d # store[i]

\* An event still to come: in the snapshot to replay, the chunk, the queue or unpublished.
Coming(s, e) ==
    IF sub[s].on
    THEN \/ \E i \in Replay(s) : e = store[i]
         \/ e \in Range(sub[s].chunk) \/ e \in Range(sub[s].queue) \/ e \in Range(outbox)
    ELSE LastId(seen[s]) < e.id

\* Every owed event was emitted, was dropped, or is still to come.
AccountInv(s) ==
    \A e \in Owed(s) : e \in Range(seen[s]) \/ e \in dropped[s] \/ Coming(s, e)

IInv ==
    /\ TypeOK /\ StoreInv /\ OutboxInv
    /\ \A s \in Subs : PipeInv(s) /\ SeenInv(s) /\ AccountInv(s)
----------------------------------------------------------------------------
(* The PubSub's queues.                                                    *)

\* What publishing does to a queue whose ids are all below the new one.
LEMMA OfferProperties ==
    ASSUME NEW q \in Seq(Event), NEW e \in Event, Increasing(q),
           \A x \in Range(q) : x.id < e.id
    PROVE  /\ Offer(q, e) \in Seq(Event) /\ Increasing(Offer(q, e))
           /\ Full(q) => /\ Head(q) \in Range(q) /\ Head(q) \in Event
                         /\ Range(Offer(q, e)) = (Range(q) \ {Head(q)}) \cup {e}
           /\ ~Full(q) => Range(Offer(q, e)) = Range(q) \cup {e}
<1>1. CASE Full(q)
  <2>1. q # <<>>
    BY <1>1, MemoryAssumption DEF Full
  <2>2. /\ Tail(q) \in Seq(Event) /\ Increasing(Tail(q))
        /\ Range(Tail(q)) = Range(q) \ {Head(q)} /\ Head(q) \in Range(q) /\ Head(q) \in Event
    BY <2>1, TailRange, TailIncreasing
  <2> DEFINE t == Tail(q)
  <2>3. t \in Seq(Event) /\ Increasing(t) /\ \A x \in Range(t) : x.id < e.id
    BY <2>2
  <2> HIDE DEF t
  <2>4. /\ Range(Append(t, e)) = Range(t) \cup {e}
        /\ Increasing(Append(t, e)) /\ Append(t, e) \in Seq(Event)
    BY <2>3, AppendRange, AppendIncreasing
  <2>5. QED BY <1>1, <2>2, <2>4 DEF Offer, t
<1>2. CASE ~Full(q)
  BY <1>2, AppendRange, AppendIncreasing DEF Offer
<1>3. QED BY <1>1, <1>2
----------------------------------------------------------------------------
(* One lemma per action: the invariant is preserved.                       *)

\* The parts about one subscriber read only these components of the state.
LEMMA SubscriberFrame ==
    ASSUME NEW s \in Subs, UNCHANGED <<store, outbox>>,
           UNCHANGED <<sub[s], seen[s], floor[s], dropped[s]>>,
           PipeInv(s), SeenInv(s), AccountInv(s)
    PROVE  (PipeInv(s) /\ SeenInv(s) /\ AccountInv(s))'
  BY DEF PipeInv, SeenInv, AccountInv, Replay, SnapMax, Owed, Coming, Later, Below

\* What is left to replay is in the snapshot, hence no later than its last event.
LEMMA ReplayBounds ==
    ASSUME NEW s \in Subs, TypeOK, StoreInv, PipeInv(s), sub[s].on, NEW i \in Replay(s)
    PROVE  /\ i \in DOMAIN store /\ store[i] \in Range(store) /\ store[i] \in Event
           /\ i \in Nat /\ sub[s].pos < i /\ i <= sub[s].snap
           /\ store[i].id <= SnapMax(s)
<1>1. /\ store \in Seq(Event) /\ sub[s].snap \in Nat /\ sub[s].pos \in Nat
      /\ sub[s].snap <= Len(store)
  BY DEF TypeOK, PipeInv
<1>2. /\ i \in DOMAIN store /\ sub[s].snap \in DOMAIN store /\ sub[s].snap # 0
      /\ i \in Nat /\ sub[s].pos < i /\ i <= sub[s].snap /\ store[i] \in Event
      /\ store[sub[s].snap] \in Event
  BY <1>1 DEF Replay
<1>3. store[i].id <= store[sub[s].snap].id
  BY <1>1, <1>2, EventId DEF StoreInv, Increasing
<1>4. QED BY <1>2, <1>3 DEF SnapMax, Range

\* Stamping an envelope only touches the draft: its id is above every other.
LEMMA MakeEnvelopeStep ==
    ASSUME IInv, NEW kind \in Kind, NEW now \in Clock, MakeEnvelope(kind, now)
    PROVE  IInv'
<1> DEFINE e == [id |-> UlidNext(last, now), kind |-> kind]
<1>1. /\ last \in Nat /\ now \in Nat /\ last' \in Nat /\ last' > last /\ e.id = last'
      /\ e \in Event /\ draft \in Seq(Event) /\ store \in Seq(Event)
      /\ draft' = Append(draft, e) /\ outbox = <<>> /\ outbox' = <<>>
      /\ UNCHANGED <<store, sub, seen, floor, dropped>>
  BY MemoryAssumption DEF IInv, TypeOK, MakeEnvelope, UlidNext, Event
<1> HIDE DEF e
<1>2. /\ \A x \in Range(store) \cup Range(draft) : x.id <= last /\ x \in Event /\ x.id \in Nat
      /\ Increasing(store) /\ Increasing(draft) /\ Below(store, draft)
  BY <1>1, EventId DEF IInv, StoreInv, Range
<1>3. TypeOK'
  BY <1>1 DEF IInv, TypeOK
<1>4. Increasing(draft') /\ Range(draft') = Range(draft) \cup {e}
  BY <1>1, <1>2, AppendIncreasing, AppendRange
<1>5. StoreInv'
  BY <1>1, <1>2, <1>4 DEF StoreInv, Below
<1>6. OutboxInv'
  BY <1>1 DEF IInv, OutboxInv, Range
<1>7. \A s \in Subs : (PipeInv(s) /\ SeenInv(s) /\ AccountInv(s))'
  BY <1>1, SubscriberFrame DEF IInv
<1>8. QED BY <1>3, <1>5, <1>6, <1>7 DEF IInv

\* Ref.update: the new events are above what every stream has seen, and all still to
\* be published.
LEMMA CommitStep ==
    ASSUME IInv, Commit
    PROVE  IInv'
<1>1. /\ store \in Seq(Event) /\ draft \in Seq(Event) /\ last \in Nat
      /\ store' = store \o draft /\ outbox' = draft /\ draft' = <<>> /\ outbox = <<>>
      /\ UNCHANGED <<last, sub, seen, floor, dropped>>
  BY DEF IInv, TypeOK, OutboxInv, Commit
<1>2. /\ Increasing(store) /\ Increasing(draft) /\ Below(store, draft)
      /\ \A x \in Range(store) \cup Range(draft) : x.id <= last /\ x \in Event /\ x.id \in Nat
  BY <1>1, EventId DEF IInv, StoreInv, Range
<1>3. /\ store' \in Seq(Event) /\ Increasing(store')
      /\ Range(store') = Range(store) \cup Range(draft)
      /\ Len(store') = Len(store) + Len(draft) /\ Len(store) \in Nat /\ Len(draft) \in Nat
      /\ \A i \in 1 .. Len(store) : store'[i] = store[i]
  BY <1>1, <1>2, ConcatIncreasing, ConcatRange
<1>4. TypeOK'
  BY <1>1, <1>3 DEF IInv, TypeOK
<1>5. Range(outbox) = {} /\ Range(draft') = {} /\ Increasing(draft')
  BY <1>1 DEF Range, Increasing
<1>6. StoreInv'
  BY <1>1, <1>2, <1>3, <1>5 DEF StoreInv, Below
<1>7. OutboxInv'
  BY <1>1, <1>2, <1>3 DEF OutboxInv
<1>8. ASSUME NEW s \in Subs PROVE (PipeInv(s) /\ SeenInv(s) /\ AccountInv(s))'
  <2>1. PipeInv(s) /\ SeenInv(s) /\ AccountInv(s)
    BY DEF IInv
  <2>2. /\ sub[s].snap \in Nat /\ sub[s].pos \in Nat /\ sub[s].queue \in Seq(Event)
        /\ sub[s].chunk \in Seq(Event) /\ seen[s] \in Seq(Event) /\ floor[s] \in Nat
        /\ sub'[s] = sub[s] /\ seen'[s] = seen[s]
        /\ floor'[s] = floor[s] /\ dropped'[s] = dropped[s]
    BY <1>1 DEF IInv, TypeOK
  <2>3. LastId(seen[s]) \in Nat /\ \A x \in Range(draft) : LastId(seen[s]) < x.id
    <3>1. CASE seen[s] = <<>>
      BY <3>1, <1>2, EventId DEF LastId
    <3>2. CASE seen[s] # <<>>
      BY <3>2, <2>1, <2>2, <1>2, LastIdMax, LastIdNat DEF SeenInv, Owed, Below
    <3>3. QED BY <3>1, <3>2
  <2>4. Owed(s)' = Owed(s) \cup {x \in Range(draft) : x.id > floor[s] /\ Matches(sub[s].filter, x)}
    BY <1>3, <2>2 DEF Owed
  <2>5. CASE ~sub[s].on
    BY <2>1, <2>2, <2>3, <2>4, <2>5, <1>3 DEF PipeInv, SeenInv, AccountInv, Coming
  <2>6. CASE sub[s].on
    <3>1. sub[s].snap <= Len(store) /\ sub[s].pos <= sub[s].snap
      BY <2>1, <2>6 DEF PipeInv
    <3>2. SnapMax(s)' = SnapMax(s) /\ Replay(s)' = Replay(s)
      <4>1. \A i \in sub[s].pos + 1 .. sub[s].snap : store'[i] = store[i]
        BY <3>1, <2>2, <1>3
      <4>2. sub[s].snap # 0 => store'[sub[s].snap] = store[sub[s].snap]
        BY <3>1, <2>2, <1>3
      <4>3. SnapMax(s)' = SnapMax(s)
        BY <4>2, <2>2 DEF SnapMax
      <4>4. Replay(s)' = Replay(s)
        BY <4>1, <2>2 DEF Replay
      <4>5. QED BY <4>3, <4>4
    <3>3. \A i \in Replay(s) :
              i \in DOMAIN store /\ i \in 1 .. Len(store) /\ store[i] \in Range(store)
      BY <3>1, <2>2, <1>1 DEF Replay, Range
    <3>4. \A x \in Range(draft) : SnapMax(s) < x.id
      <4>1. CASE sub[s].snap = 0  BY <4>1, <1>2, EventId DEF SnapMax
      <4>2. CASE sub[s].snap # 0
        <5>1. store[sub[s].snap] \in Range(store)  BY <4>2, <3>1, <2>2, <1>1 DEF Range
        <5>2. QED BY <4>2, <5>1, <1>2 DEF SnapMax, Below
      <4>3. QED BY <4>1, <4>2
    <3>5. PipeInv(s)'
      <4>1. /\ sub[s].snap <= Len(store')
            /\ \A i \in Replay(s) : store'[i] = store[i]
        BY <1>3, <2>2, <3>1, <3>3
      <4>2. /\ Later(sub[s].chunk, SnapMax(s))' /\ Later(sub[s].chunk, LastId(seen[s]))'
            /\ Later(sub[s].queue, SnapMax(s))' /\ Later(sub[s].queue, LastId(seen[s]))'
        BY <1>3, <2>1, <2>2, <2>6, <3>2 DEF PipeInv, Later
      <4>3. Later(outbox, SnapMax(s))' /\ Later(outbox, LastId(seen[s]))'
        BY <1>1, <1>3, <2>2, <2>3, <3>2, <3>4 DEF Later
      <4>4. Below(sub[s].chunk, outbox)' /\ Below(sub[s].queue, outbox)'
        BY <1>1, <1>2, <2>1, <2>2, <2>6 DEF PipeInv, Later, Below
      <4>5. Increasing(outbox')
        BY <1>1, <1>2
      <4>6. QED
        BY <2>1, <2>2, <2>6, <3>1, <3>2, <4>1, <4>2, <4>3, <4>4, <4>5 DEF PipeInv
    <3>6. SeenInv(s)'
      BY <1>1, <1>2, <1>3, <1>5, <2>1, <2>2, <2>4, <2>6, <3>2, <3>3 DEF SeenInv, Below
    <3>7. ASSUME NEW e, e \in Owed(s)'
          PROVE  e \in Range(seen'[s]) \/ e \in dropped'[s] \/ Coming(s, e)'
      <4>1. CASE e \in Owed(s)
        <5>1. e \in Range(seen[s]) \/ e \in dropped[s] \/ Coming(s, e)
          BY <2>1, <4>1 DEF AccountInv
        <5>2. Coming(s, e) => Coming(s, e)'
          BY <1>3, <1>5, <2>2, <2>6, <3>2, <3>3 DEF Coming
        <5>3. QED BY <2>2, <5>1, <5>2
      <4>2. CASE e \notin Owed(s)
        <5>1. e \in Range(outbox')
          BY <1>1, <2>4, <3>7, <4>2
        <5>2. QED BY <2>2, <2>6, <5>1 DEF Coming
      <4>3. QED BY <4>1, <4>2
    <3>8. AccountInv(s)'
      BY <3>7 DEF AccountInv
    <3>9. QED BY <3>5, <3>6, <3>8
  <2>7. QED BY <2>5, <2>6
<1>9. QED BY <1>4, <1>6, <1>7, <1>8 DEF IInv

\* One publication: the envelope moves from the outbox to every open queue, and the
\* one a full queue slides over becomes dropped.
LEMMA PublishStep ==
    ASSUME IInv, Publish
    PROVE  IInv'
<1> DEFINE h == Head(outbox)
<1>1. /\ store \in Seq(Event) /\ outbox \in Seq(Event) /\ outbox # <<>> /\ draft = <<>>
      /\ outbox' = Tail(outbox) /\ UNCHANGED <<store, last, draft, seen, floor>>
  BY DEF IInv, TypeOK, OutboxInv, Publish
<1>2. /\ Increasing(outbox) /\ Range(outbox) \subseteq Range(store)
      /\ \A x \in Range(store) : x \in Event /\ x.id \in Nat
  <2>1. \A x \in Range(store) : x \in Event /\ x.id \in Nat
    BY <1>1, EventId DEF Range
  <2>2. QED BY <2>1 DEF IInv, OutboxInv
<1>3. /\ outbox' \in Seq(Event) /\ h \in Event /\ h \in Range(outbox) /\ Increasing(outbox')
      /\ Range(outbox') = Range(outbox) \ {h} /\ \A x \in Range(outbox') : h.id < x.id
  BY <1>1, <1>2, TailRange, TailIncreasing
<1> HIDE DEF h
<1>4. StoreInv' /\ OutboxInv'
  BY <1>1, <1>2, <1>3 DEF IInv, StoreInv, OutboxInv
<1>5. ASSUME NEW s \in Subs
      PROVE  /\ sub[s].on \in BOOLEAN /\ sub[s].queue \in Seq(Event)
             /\ sub[s].chunk \in Seq(Event) /\ dropped[s] \subseteq Event
             /\ sub'[s] = IF sub[s].on THEN [sub[s] EXCEPT !.queue = Offer(@, h)] ELSE sub[s]
             /\ dropped'[s] = IF sub[s].on /\ Full(sub[s].queue)
                              THEN dropped[s] \cup {Head(sub[s].queue)} ELSE dropped[s]
             /\ PipeInv(s) /\ SeenInv(s) /\ AccountInv(s)
  BY DEF Publish, h, IInv, TypeOK
<1>6. ASSUME NEW s \in Subs, sub[s].on
      PROVE  /\ Increasing(sub[s].queue) /\ \A x \in Range(sub[s].queue) : x.id < h.id
             /\ Offer(sub[s].queue, h) \in Seq(Event) /\ Increasing(Offer(sub[s].queue, h))
             /\ Full(sub[s].queue) =>
                    /\ Head(sub[s].queue) \in Range(sub[s].queue) /\ Head(sub[s].queue) \in Event
                    /\ Range(Offer(sub[s].queue, h))
                         = (Range(sub[s].queue) \ {Head(sub[s].queue)}) \cup {h}
             /\ ~Full(sub[s].queue) =>
                    Range(Offer(sub[s].queue, h)) = Range(sub[s].queue) \cup {h}
  <2>1. Increasing(sub[s].queue) /\ \A x \in Range(sub[s].queue) : x.id < h.id
    BY <1>3, <1>5, <1>6 DEF PipeInv, Below
  <2>2. QED BY <2>1, <1>3, <1>5, <1>6, OfferProperties
<1>7. TypeOK'
  <2>1. ASSUME NEW s \in Subs
        PROVE  /\ sub'[s] \in [on : BOOLEAN, cursor : Cursor, filter : Filter, snap : Nat,
                               pos : Nat, queue : Seq(Event), chunk : Seq(Event)]
               /\ dropped'[s] \in SUBSET Event
    <3>1. CASE ~sub[s].on  BY <1>5, <3>1 DEF IInv, TypeOK
    <3>2. CASE sub[s].on
      <4>1. sub'[s] = [sub[s] EXCEPT !.queue = Offer(sub[s].queue, h)]
        BY <1>5, <3>2
      <4>2. /\ Offer(sub[s].queue, h) \in Seq(Event)
            /\ Full(sub[s].queue) => Head(sub[s].queue) \in Event
        BY <1>6, <3>2
      <4>3. /\ sub[s] \in [on : BOOLEAN, cursor : Cursor, filter : Filter, snap : Nat,
                          pos : Nat, queue : Seq(Event), chunk : Seq(Event)]
            /\ dropped[s] \in SUBSET Event
        BY DEF IInv, TypeOK
      <4>4. dropped'[s] \in SUBSET Event
        BY <1>5, <4>2, <4>3
      <4>5. QED BY <4>1, <4>2, <4>3, <4>4, ZenonT(60)
    <3>3. QED BY <1>5, <3>1, <3>2
  <2>2. /\ sub' = [s \in Subs |-> sub'[s]] /\ dropped' = [s \in Subs |-> dropped'[s]]
    BY DEF Publish
  <2>3. QED BY <1>1, <1>3, <2>1, <2>2 DEF IInv, TypeOK
<1>8. ASSUME NEW s \in Subs PROVE (PipeInv(s) /\ SeenInv(s) /\ AccountInv(s))'
  <2>1. CASE ~sub[s].on
    BY <1>1, <1>5, <2>1 DEF PipeInv, SeenInv, AccountInv, Owed, Coming
  <2>2. CASE sub[s].on
    <3> DEFINE q == sub[s].queue
               r == sub'[s].queue
    <3>1. /\ sub'[s].on /\ sub'[s].cursor = sub[s].cursor /\ sub'[s].filter = sub[s].filter
          /\ sub'[s].snap = sub[s].snap /\ sub'[s].pos = sub[s].pos /\ sub'[s].chunk = sub[s].chunk
          /\ r = Offer(q, h) /\ seen'[s] = seen[s] /\ floor'[s] = floor[s]
      BY <1>1, <1>5, <2>2 DEF IInv, TypeOK
    <3>2. /\ SnapMax(s)' = SnapMax(s) /\ Replay(s)' = Replay(s) /\ Owed(s)' = Owed(s)
      BY <1>1, <3>1 DEF SnapMax, Replay, Owed
    <3>3. /\ h \in Range(r) /\ Range(r) \subseteq Range(q) \cup {h} /\ Increasing(r)
          /\ \A x \in Range(q) \ Range(r) : x \in dropped'[s]
          /\ dropped[s] \subseteq dropped'[s]
          /\ \A x \in dropped'[s] \ dropped[s] : x \in Range(q) /\ x \notin Range(r)
      <4>1. CASE Full(q)
        <5>1. /\ Head(q) \in Range(q) /\ Increasing(r) /\ Head(q).id < h.id
              /\ Range(r) = (Range(q) \ {Head(q)}) \cup {h}
              /\ dropped'[s] = dropped[s] \cup {Head(q)}
          BY <1>5, <1>6, <2>2, <3>1, <4>1
        <5>2. h.id \in Nat
          BY <1>3, EventId
        <5> HIDE DEF q, r
        <5>3. QED BY <5>1, <5>2
      <4>2. CASE ~Full(q)
        BY <1>3, <1>5, <1>6, <2>2, <3>1, <4>2, EventId
      <4>3. QED BY <4>1, <4>2
    <3> HIDE DEF q, r
    <3>4. PipeInv(s)'
      BY <1>1, <1>2, <1>3, <1>5, <2>2, <3>1, <3>2, <3>3, ZenonT(60) DEF PipeInv, Later, Below, q, r
    <3>5. SeenInv(s)'
      <4>1. /\ Increasing(seen'[s]) /\ Range(seen'[s]) \subseteq Owed(s)'
        BY <1>5, <3>1, <3>2, ZenonT(60) DEF SeenInv
      <4>2. ASSUME NEW d \in dropped[s]
            PROVE  /\ d \in Range(store) /\ d \notin Range(seen[s])
                   /\ d \notin Range(sub'[s].chunk) /\ d \notin Range(r) /\ d \notin Range(outbox')
                   /\ \A i \in Replay(s) : d # store[i]
        BY <1>3, <1>5, <2>2, <3>1, <3>3, ZenonT(60) DEF SeenInv, q
      <4>3. ASSUME NEW d \in Range(q), d \notin Range(r)
            PROVE  /\ d \in Range(store) /\ d \notin Range(seen[s])
                   /\ d \notin Range(sub'[s].chunk) /\ d \notin Range(outbox')
                   /\ \A i \in Replay(s) : d # store[i]
        <5>1. /\ d \in Range(store) /\ d.id \in Nat /\ LastId(seen[s]) < d.id /\ SnapMax(s) < d.id
              /\ \A x \in Range(sub[s].chunk) : x.id < d.id
              /\ \A x \in Range(outbox) : d.id < x.id
          BY <1>2, <1>5, <2>2, <4>3 DEF PipeInv, Later, Below, q
        <5>2. d \notin Range(seen[s])
          <6>1. seen[s] \in Seq(Event) /\ Increasing(seen[s]) /\ LastId(seen[s]) \in Nat
            BY <1>5, LastIdNat DEF SeenInv, IInv, TypeOK
          <6>2. QED BY <5>1, <6>1, LastIdMax
        <5>3. \A i \in Replay(s) : d # store[i]
          <6>1. ASSUME NEW i \in Replay(s) PROVE store[i].id <= SnapMax(s) /\ store[i].id \in Nat
            BY <1>5, <2>2, ReplayBounds, EventId DEF IInv
          <6>2. SnapMax(s) \in Nat
            BY <1>1, <1>5, <2>2, EventId DEF SnapMax, PipeInv, IInv, TypeOK
          <6>3. QED BY <5>1, <6>1, <6>2
        <5>4. QED BY <5>1, <5>2, <5>3, <1>2, <1>3, <3>1
      <4>4. QED BY <4>1, <4>2, <4>3, <3>1, <3>2, <3>3, <1>1 DEF SeenInv, r
    <3>6. AccountInv(s)'
      BY <1>1, <1>3, <1>5, <2>2, <3>1, <3>2, <3>3 DEF AccountInv, Coming, q, r
    <3>7. QED BY <3>4, <3>5, <3>6
  <2>3. QED BY <2>1, <2>2, <1>5
<1>9. QED BY <1>4, <1>7, <1>8 DEF IInv

\* What opening a stream does, whether it starts afresh or resumes.
LEMMA OpenStep ==
    ASSUME IInv, NEW s \in Subs, NEW c \in Cursor, NEW f \in Filter, Open(s, c, f),
           seen'[s] \in Seq(Event), Increasing(seen'[s]), floor'[s] \in Nat,
           \A t \in Subs \ {s} : UNCHANGED <<seen[t], floor[t], dropped[t]>>,
           Range(seen'[s]) \subseteq
               {e \in Range(store) : e.id > floor'[s] /\ Matches(f, e)},
           \A d \in dropped'[s] : /\ d \in Range(store) /\ d \notin Range(seen'[s])
                                  /\ d.id < LastId(seen'[s]),
           \A e \in Range(store) : LastId(seen'[s]) < e.id /\ e.id > floor'[s]
                                     => c # Latest /\ AfterCursor(c, e),
           \A e \in Range(store) : c # Latest /\ AfterCursor(c, e)
                                     => LastId(seen'[s]) < e.id /\ floor'[s] < e.id,
           floor'[s] <= LastId(store),
           \A e \in Range(store) :
               e.id <= LastId(seen'[s]) /\ e.id > floor'[s] /\ Matches(f, e)
                   => e \in Range(seen'[s]) \/ e \in dropped'[s]
    PROVE  \A t \in Subs : (PipeInv(t) /\ SeenInv(t) /\ AccountInv(t))'
<1>1. /\ store \in Seq(Event) /\ draft = <<>> /\ outbox = <<>>
      /\ UNCHANGED <<store, outbox>>
      /\ \A x \in Range(store) : x \in Event /\ x.id \in Nat
  BY EventId DEF IInv, TypeOK, Open, LockFree, Range
<1>2. ASSUME NEW t \in Subs \ {s} PROVE (PipeInv(t) /\ SeenInv(t) /\ AccountInv(t))'
  <2>1. sub'[t] = sub[t]
    BY DEF IInv, TypeOK, Open
  <2>2. QED BY <1>1, <2>1, SubscriberFrame DEF IInv
<1>3. sub'[s] = [on |-> TRUE, cursor |-> c, filter |-> f, snap |-> Len(store),
                 pos |-> IF c = Latest THEN Len(store) ELSE 0, queue |-> <<>>, chunk |-> <<>>]
  BY DEF IInv, TypeOK, Open
<1>4. /\ sub'[s].on /\ sub'[s].cursor = c /\ sub'[s].filter = f /\ sub'[s].snap = Len(store)
      /\ sub'[s].pos = (IF c = Latest THEN Len(store) ELSE 0)
      /\ sub'[s].queue = <<>> /\ sub'[s].chunk = <<>>
  BY <1>3
<1>5. Range(<<>>) = {} /\ Increasing(<<>>) /\ Len(store) \in Nat /\ DOMAIN store = 1 .. Len(store)
  BY <1>1 DEF Range, Increasing
<1>6. \A i : i \in Replay(s)' <=> /\ i \in DOMAIN store /\ c # Latest
                                  /\ AfterCursor(c, store[i]) /\ Matches(f, store[i])
  BY <1>1, <1>4, <1>5 DEF Replay
<1>7. \A i \in DOMAIN store : store[i] \in Range(store)
  BY DEF Range
<1>8. PipeInv(s)'
  <2>1. SnapMax(s)' = LastId(store)
    BY <1>1, <1>4, <1>5 DEF SnapMax, LastId
  <2>2. QED BY <1>1, <1>4, <1>5, <1>6, <1>7, <2>1 DEF PipeInv, Later, Below
<1>9. Owed(s)' = {e \in Range(store) : e.id > floor'[s] /\ Matches(f, e)}
  BY <1>1, <1>4 DEF Owed
<1>10. LastId(seen'[s]) \in Nat
  BY LastIdNat
<1>11. SeenInv(s)'
  BY <1>1, <1>4, <1>5, <1>6, <1>7, <1>9, <1>10 DEF SeenInv
<1>12. ASSUME NEW e \in Owed(s)'
       PROVE  e \in Range(seen'[s]) \/ e \in dropped'[s] \/ \E i \in Replay(s)' : e = store[i]
  <2>1. PICK i \in DOMAIN store : e = store[i]
    BY <1>9 DEF Range
  <2>2. CASE e.id <= LastId(seen'[s])  BY <1>9, <2>2
  <2>3. CASE e.id > LastId(seen'[s])   BY <1>9, <1>6, <2>1, <2>3, <1>1, <1>10
  <2>4. QED BY <2>2, <2>3, <1>1, <1>9, <1>10
<1>13. AccountInv(s)'
  BY <1>1, <1>4, <1>12 DEF AccountInv, Coming
<1>14. QED BY <1>2, <1>8, <1>11, <1>13

\* A fresh stream starts with nothing seen and nothing dropped.
LEMMA SubscribeStep ==
    ASSUME IInv, NEW s \in Subs, NEW c \in Cursor, NEW f \in Filter, Subscribe(s, c, f)
    PROVE  IInv'
<1>1. /\ store \in Seq(Event) /\ Increasing(store) /\ LastId(store) \in Nat
      /\ \A x \in Range(store) : x.id \in Nat /\ x.id > 0 /\ x.id <= LastId(store)
  <2>1. store \in Seq(Event) /\ Increasing(store)
    BY DEF IInv, TypeOK, StoreInv
  <2>2. \A x \in Range(store) : x \in Event
    BY <2>1 DEF Range
  <2>3. QED BY <2>1, <2>2, LastIdNat, LastIdMax, EventId
<1>2. c \in Nat => c # Earliest /\ c # Latest
  BY CursorAssumption
<1>3. StartOf(c) \in Nat
  BY <1>1, <1>2, CursorAssumption DEF StartOf, Cursor
<1>4. \A e \in Range(store) : e.id > StartOf(c) <=> c # Latest /\ AfterCursor(c, e)
  <2>1. CASE c = Earliest  BY <2>1, <1>1, CursorAssumption DEF StartOf, AfterCursor
  <2>2. CASE c = Latest    BY <2>2, <1>1, CursorAssumption DEF StartOf, AfterCursor
  <2>3. CASE c \in Nat     BY <2>3, <1>1, <1>2 DEF StartOf, AfterCursor
  <2>4. QED BY <2>1, <2>2, <2>3 DEF Cursor
<1>5. /\ seen'[s] = <<>> /\ floor'[s] = StartOf(c) /\ dropped'[s] = {}
      /\ \A t \in Subs \ {s} : UNCHANGED <<seen[t], floor[t], dropped[t]>>
      /\ Open(s, c, f) /\ UNCHANGED <<store, last, draft, outbox>>
  BY DEF IInv, TypeOK, Subscribe, Open
<1>6. LastId(<<>>) = 0 /\ Range(<<>>) = {} /\ Increasing(<<>>)
  BY DEF LastId, Range, Increasing
<1>7. \A t \in Subs : (PipeInv(t) /\ SeenInv(t) /\ AccountInv(t))'
  <2>1. /\ seen'[s] \in Seq(Event) /\ Increasing(seen'[s]) /\ floor'[s] \in Nat
        /\ Range(seen'[s]) = {} /\ LastId(seen'[s]) = 0
    BY <1>3, <1>5, <1>6
  <2>2. /\ \A e \in Range(store) : LastId(seen'[s]) < e.id /\ e.id > floor'[s]
                                     => c # Latest /\ AfterCursor(c, e)
        /\ \A e \in Range(store) : c # Latest /\ AfterCursor(c, e)
                                     => LastId(seen'[s]) < e.id /\ floor'[s] < e.id
        /\ \A e \in Range(store) : ~(e.id <= LastId(seen'[s]))
        /\ floor'[s] <= LastId(store)
    BY <1>1, <1>3, <1>4, <1>5, <2>1, <1>2, CursorAssumption DEF StartOf, Cursor
  <2>3. QED BY <1>5, <2>1, <2>2, OpenStep
<1>8. TypeOK'
  BY <1>3, <1>5 DEF IInv, TypeOK, Subscribe, Open
<1>9. StoreInv' /\ OutboxInv'
  BY <1>5 DEF IInv, StoreInv, OutboxInv, Below
<1>10. QED BY <1>7, <1>8, <1>9 DEF IInv

\* Ids identify the events of the store.
LEMMA IdsUnique ==
    ASSUME store \in Seq(Event), Increasing(store),
           NEW x \in Range(store), NEW y \in Range(store), x.id = y.id
    PROVE  x = y
<1>1. PICK i \in DOMAIN store : x = store[i]  BY DEF Range
<1>2. PICK j \in DOMAIN store : y = store[j]  BY DEF Range
<1>3. i \in Nat /\ j \in Nat /\ x.id \in Nat /\ y.id \in Nat
  BY <1>1, <1>2, EventId
<1>4. i = j
  BY <1>1, <1>2, <1>3 DEF Increasing
<1>5. QED BY <1>1, <1>2, <1>4

\* A resumed stream keeps what it has seen: what was dropped above its last id is in the
\* new snapshot again.
LEMMA ResumeStep ==
    ASSUME IInv, NEW s \in Subs, Resume(s)
    PROVE  IInv'
<1> DEFINE c == LastId(seen[s])
           f == sub[s].filter
<1>1. /\ store \in Seq(Event) /\ Increasing(store) /\ seen[s] \in Seq(Event) /\ seen[s] # <<>>
      /\ floor[s] \in Nat /\ dropped[s] \subseteq Event /\ f \in Filter /\ c \in Nat
      /\ \A x \in Range(store) : x.id \in Nat
      /\ ~sub[s].on /\ SeenInv(s) /\ AccountInv(s)
  <2>1. /\ store \in Seq(Event) /\ Increasing(store) /\ seen[s] \in Seq(Event) /\ seen[s] # <<>>
        /\ floor[s] \in Nat /\ dropped[s] \subseteq Event /\ f \in Filter
        /\ ~sub[s].on /\ SeenInv(s) /\ AccountInv(s)
    BY DEF IInv, TypeOK, StoreInv, Resume, Open
  <2>2. \A x \in Range(store) : x \in Event
    BY <2>1 DEF Range
  <2>3. QED BY <2>1, <2>2, LastIdNat, EventId
<1>2. /\ seen' = seen /\ floor' = floor /\ Open(s, c, f)
      /\ dropped'[s] = {e \in dropped[s] : e.id < c}
      /\ \A t \in Subs \ {s} : UNCHANGED <<seen[t], floor[t], dropped[t]>>
      /\ UNCHANGED <<store, last, draft, outbox>>
  BY DEF IInv, TypeOK, Resume, Open
<1>3. c \in Cursor /\ c # Latest /\ \A e \in Range(store) : AfterCursor(c, e) <=> e.id > c
  BY <1>1, CursorAssumption DEF Cursor, AfterCursor
<1>4. /\ Increasing(seen[s]) /\ Range(seen[s]) \subseteq Owed(s)
      /\ \A x \in Range(seen[s]) : x.id <= c
      /\ \E x \in Range(seen[s]) : x.id = c
  BY <1>1, LastIdMax DEF SeenInv
<1>5. Owed(s) = {e \in Range(store) : e.id > floor[s] /\ Matches(f, e)}
  BY DEF Owed
<1>6. ASSUME NEW d \in dropped[s] PROVE d.id # c
  <2>1. PICK x \in Range(seen[s]) : x.id = c
    BY <1>4
  <2>2. d \in Range(store) /\ d \notin Range(seen[s]) /\ x \in Range(store)
    BY <1>1, <1>4, <1>5 DEF SeenInv
  <2>3. QED BY <1>1, <2>1, <2>2, IdsUnique
<1>7. ASSUME NEW e \in Owed(s), e.id <= c
      PROVE  e \in Range(seen[s]) \/ e \in dropped'[s]
  <2>1. e.id \in Nat /\ ~(c < e.id)
    BY <1>1, <1>5, <1>7
  <2>2. e \in Range(seen[s]) \/ e \in dropped[s]
    BY <1>1, <2>1 DEF AccountInv, Coming
  <2>3. QED BY <1>1, <1>2, <1>6, <1>7, <2>1, <2>2
<1>8. /\ \A d \in dropped'[s] : d \in Range(store) /\ d \notin Range(seen'[s]) /\ d.id < c
      /\ Range(seen'[s]) \subseteq {e \in Range(store) : e.id > floor'[s] /\ Matches(f, e)}
      /\ \A e \in Range(store) : e.id <= c /\ e.id > floor'[s] /\ Matches(f, e)
                                   => e \in Range(seen'[s]) \/ e \in dropped'[s]
  BY <1>1, <1>2, <1>4, <1>5, <1>7 DEF SeenInv
<1> HIDE DEF f
<1>9. floor[s] < c /\ c <= LastId(store)
  <2>1. PICK x \in Range(seen[s]) : x.id = c
    BY <1>4
  <2>2. x \in Range(store) /\ x.id > floor[s]
    BY <1>4, <1>5, <2>1
  <2>3. QED BY <1>1, <2>1, <2>2, LastIdMax
<1> HIDE DEF c
<1>10. /\ \A e \in Range(store) : e.id > c => floor[s] < e.id
       /\ \A e \in Range(store) : AfterCursor(c, e) => c < e.id /\ floor[s] < e.id
       /\ floor[s] <= LastId(store)
  BY <1>1, <1>3, <1>9, LastIdNat
<1>11. \A t \in Subs : (PipeInv(t) /\ SeenInv(t) /\ AccountInv(t))'
  BY <1>1, <1>2, <1>3, <1>4, <1>8, <1>10, OpenStep DEF c
<1>12. TypeOK'
  BY <1>1, <1>2, <1>3 DEF IInv, TypeOK, Resume, Open
<1>13. StoreInv' /\ OutboxInv'
  BY <1>2 DEF IInv, StoreInv, OutboxInv, Below
<1>14. QED BY <1>11, <1>12, <1>13 DEF IInv

\* Closing a stream loses its queue, and all that was in it is above what it has seen.
LEMMA UnsubscribeStep ==
    ASSUME IInv, NEW s \in Subs, Unsubscribe(s)
    PROVE  IInv'
<1>1. /\ sub[s].on /\ sub'[s] = [Closed EXCEPT !.filter = sub[s].filter]
      /\ \A t \in Subs \ {s} : sub'[t] = sub[t]
      /\ UNCHANGED <<store, last, draft, outbox, seen, floor, dropped>>
  BY DEF IInv, TypeOK, Unsubscribe
<1>2. ~sub'[s].on /\ sub'[s].filter = sub[s].filter
  BY <1>1 DEF Closed
<1>3. TypeOK'
  <2>1. sub'[s] \in [on : BOOLEAN, cursor : Cursor, filter : Filter, snap : Nat,
                     pos : Nat, queue : Seq(Event), chunk : Seq(Event)]
    <3> DEFINE f == sub[s].filter
    <3>1. sub'[s] = [on |-> FALSE, cursor |-> Earliest, filter |-> f, snap |-> 0,
                     pos |-> 0, queue |-> <<>>, chunk |-> <<>>]
      <4>1. sub'[s] = [Closed EXCEPT !.filter = f]  BY <1>1
      <4> HIDE DEF f
      <4>2. QED BY <4>1 DEF Closed
    <3>2. sub[s].filter \in Filter /\ Earliest \in Cursor /\ <<>> \in Seq(Event)
      BY DEF IInv, TypeOK, Cursor
    <3>3. QED BY <3>1, <3>2
  <2>2. QED BY <1>1, <2>1 DEF IInv, TypeOK, Unsubscribe
<1>4. StoreInv' /\ OutboxInv'
  BY <1>1 DEF IInv, StoreInv, OutboxInv, Below
<1>5. PipeInv(s) /\ SeenInv(s) /\ AccountInv(s)
  BY DEF IInv
<1>6. Owed(s)' = Owed(s)
  BY <1>1, <1>2 DEF Owed
<1>7. ASSUME NEW e, Coming(s, e) PROVE LastId(seen[s]) < e.id
  BY <1>1, <1>5, <1>7 DEF Coming, PipeInv, Later
<1>8. (PipeInv(s) /\ SeenInv(s) /\ AccountInv(s))'
  BY <1>1, <1>2, <1>5, <1>6, <1>7 DEF PipeInv, SeenInv, AccountInv, Coming
<1>9. \A t \in Subs \ {s} : (PipeInv(t) /\ SeenInv(t) /\ AccountInv(t))'
  BY <1>1, SubscriberFrame DEF IInv
<1>10. QED BY <1>3, <1>4, <1>8, <1>9 DEF IInv

\* Replay emits the earliest snapshot event that is left: all the others follow it.
LEMMA EmitReplayStep ==
    ASSUME IInv, NEW s \in Subs, EmitReplay(s)
    PROVE  IInv'
<1>1. PICK i \in Replay(s) : /\ \A j \in Replay(s) : i <= j
                             /\ seen' = [seen EXCEPT ![s] = Append(@, store[i])]
                             /\ sub' = [sub EXCEPT ![s].pos = i]
  BY DEF EmitReplay
<1> DEFINE e == store[i]
<1>2. /\ sub[s].on /\ UNCHANGED <<store, last, draft, outbox, floor, dropped>>
      /\ TypeOK /\ StoreInv /\ PipeInv(s) /\ SeenInv(s) /\ AccountInv(s)
      /\ store \in Seq(Event) /\ seen[s] \in Seq(Event)
  BY DEF EmitReplay, IInv, TypeOK
<1>3. /\ i \in DOMAIN store /\ e \in Range(store) /\ e \in Event /\ e.id \in Nat
      /\ i \in Nat /\ sub[s].pos < i /\ i <= sub[s].snap /\ e.id <= SnapMax(s)
      /\ LastId(seen[s]) < e.id /\ floor[s] < e.id /\ Matches(sub[s].filter, e)
  <2>1. LastId(seen[s]) < e.id /\ floor[s] < e.id /\ Matches(sub[s].filter, e)
    BY <1>2 DEF PipeInv, Replay
  <2>2. QED BY <1>2, <2>1, ReplayBounds, EventId
<1>4. /\ sub'[s] = [sub[s] EXCEPT !.pos = i] /\ seen'[s] = Append(seen[s], e)
      /\ \A t \in Subs \ {s} : sub'[t] = sub[t] /\ seen'[t] = seen[t]
  BY <1>1, <1>2 DEF TypeOK
<1>5. /\ sub'[s].on /\ sub'[s].cursor = sub[s].cursor /\ sub'[s].filter = sub[s].filter
      /\ sub'[s].snap = sub[s].snap /\ sub'[s].pos = i
      /\ sub'[s].queue = sub[s].queue /\ sub'[s].chunk = sub[s].chunk
  BY <1>2, <1>4 DEF TypeOK
<1>6. TypeOK'
  <2>1. seen' = [seen EXCEPT ![s] = Append(seen[s], e)] /\ Append(seen[s], e) \in Seq(Event)
    BY <1>1, <1>2, <1>3
  <2>2. seen' \in [Subs -> Seq(Event)]
    BY <1>2, <2>1 DEF TypeOK
  <2>3. sub' \in [Subs -> [on : BOOLEAN, cursor : Cursor, filter : Filter, snap : Nat,
                          pos : Nat, queue : Seq(Event), chunk : Seq(Event)]]
    BY <1>1, <1>2, <1>3 DEF TypeOK
  <2>4. QED BY <1>2, <2>2, <2>3 DEF TypeOK
<1>7. StoreInv' /\ OutboxInv'
  BY <1>2 DEF IInv, StoreInv, OutboxInv, Below
<1>8. \A t \in Subs \ {s} : (PipeInv(t) /\ SeenInv(t) /\ AccountInv(t))'
  BY <1>2, <1>4, SubscriberFrame DEF IInv
<1>9. /\ SnapMax(s)' = SnapMax(s) /\ Owed(s)' = Owed(s)
      /\ sub[s].pos \in Nat /\ sub[s].snap \in Nat /\ SnapMax(s) \in Nat
  BY <1>2, <1>5, EventId DEF SnapMax, Owed, TypeOK, PipeInv
<1>10. Replay(s)' = Replay(s) \ {i}
  BY <1>1, <1>2, <1>3, <1>5, <1>9 DEF Replay
<1>11. ASSUME NEW j \in Replay(s), j # i
       PROVE  e.id < store[j].id /\ store[j] # e /\ floor[s] < store[j].id
  <2>1. i < j /\ j \in DOMAIN store /\ store[j] \in Event
    BY <1>1, <1>2, <1>3, <1>11, ReplayBounds
  <2>2. QED BY <1>2, <1>3, <1>11, <2>1, EventId DEF StoreInv, Increasing, PipeInv
<1>12. /\ LastId(seen'[s]) = e.id /\ Range(seen'[s]) = Range(seen[s]) \cup {e}
  BY <1>2, <1>3, <1>4, LastIdAppend, AppendRange
<1>13. \A x \in Range(seen[s]) : x.id < e.id
  <2>1. LastId(seen[s]) \in Nat /\ \A x \in Range(seen[s]) : x.id <= LastId(seen[s]) /\ x \in Event
    BY <1>2, LastIdNat, LastIdMax DEF SeenInv, Range
  <2>2. QED BY <1>3, <2>1, EventId
<1>14. Increasing(seen'[s])
  BY <1>2, <1>3, <1>4, <1>13, AppendIncreasing DEF SeenInv
<1> HIDE DEF e
<1>15. \A x \in Range(sub[s].queue) \cup Range(outbox) : e.id < x.id /\ x \in Range(store)
  <2>1. \A x \in Range(store) : x.id \in Nat
    BY <1>2, EventId DEF Range
  <2>2. QED BY <1>2, <1>3, <1>9, <2>1 DEF PipeInv, Later
<1>16. PipeInv(s)'
  <2>1. Replay(s) # {} /\ sub[s].chunk = <<>> /\ Range(<<>>) = {}
    BY <1>1, <1>2 DEF PipeInv, Range
  <2>2. QED BY <1>2, <1>3, <1>5, <1>9, <1>10, <1>11, <1>12, <1>15, <2>1
        DEF PipeInv, Later, Below
<1>17. SeenInv(s)'
  BY <1>1, <1>2, <1>3, <1>5, <1>9, <1>10, <1>12, <1>14 DEF SeenInv, Owed, e
<1>18. AccountInv(s)'
  BY <1>2, <1>5, <1>9, <1>10, <1>12 DEF AccountInv, Coming, e
<1>19. QED BY <1>6, <1>7, <1>8, <1>16, <1>17, <1>18 DEF IInv

\* The queue becomes the chunk: no event changes its place in the order.
LEMMA TakeChunkStep ==
    ASSUME IInv, NEW s \in Subs, TakeChunk(s)
    PROVE  IInv'
<1>1. /\ sub[s].on /\ Replay(s) = {} /\ sub[s].chunk = <<>>
      /\ sub'[s] = [sub[s] EXCEPT !.chunk = sub[s].queue, !.queue = <<>>]
      /\ \A t \in Subs \ {s} : sub'[t] = sub[t]
      /\ UNCHANGED <<store, last, draft, outbox, seen, floor, dropped>>
      /\ TypeOK /\ PipeInv(s) /\ SeenInv(s) /\ AccountInv(s)
  BY DEF IInv, TypeOK, TakeChunk
<1>2. /\ sub'[s].on /\ sub'[s].cursor = sub[s].cursor /\ sub'[s].filter = sub[s].filter
      /\ sub'[s].snap = sub[s].snap /\ sub'[s].pos = sub[s].pos
      /\ sub'[s].queue = <<>> /\ sub'[s].chunk = sub[s].queue
  BY <1>1 DEF TypeOK
<1>3. TypeOK'
  BY <1>1 DEF TypeOK, TakeChunk
<1>4. StoreInv' /\ OutboxInv'
  BY <1>1 DEF IInv, StoreInv, OutboxInv, Below
<1>5. \A t \in Subs \ {s} : (PipeInv(t) /\ SeenInv(t) /\ AccountInv(t))'
  BY <1>1, SubscriberFrame DEF IInv
<1>6. SnapMax(s)' = SnapMax(s) /\ Owed(s)' = Owed(s) /\ Replay(s)' = {}
  BY <1>1, <1>2 DEF SnapMax, Owed, Replay
<1>7. Range(<<>>) = {} /\ Increasing(<<>>)
  BY DEF Range, Increasing
<1>8. PipeInv(s)'
  BY <1>1, <1>2, <1>6, <1>7 DEF PipeInv, Later, Below
<1>9. SeenInv(s)'
  BY <1>1, <1>2, <1>6, <1>7 DEF SeenInv
<1>10. AccountInv(s)'
  BY <1>1, <1>2, <1>6, <1>7 DEF AccountInv, Coming
<1>11. QED BY <1>3, <1>4, <1>5, <1>8, <1>9, <1>10 DEF IInv

\* The head of the chunk is emitted exactly when the subscriber asked for it.
LEMMA EmitLiveStep ==
    ASSUME IInv, NEW s \in Subs, EmitLive(s)
    PROVE  IInv'
<1> DEFINE e == Head(sub[s].chunk)
           r == Tail(sub[s].chunk)
<1>1. /\ sub[s].on /\ sub[s].chunk # <<>> /\ sub'[s] = [sub[s] EXCEPT !.chunk = r]
      /\ \A t \in Subs \ {s} : sub'[t] = sub[t] /\ seen'[t] = seen[t]
      /\ seen'[s] = IF PassesLive(s, e) THEN Append(seen[s], e) ELSE seen[s]
      /\ UNCHANGED <<store, last, draft, outbox, floor, dropped>>
      /\ TypeOK /\ PipeInv(s) /\ SeenInv(s) /\ AccountInv(s)
      /\ sub[s].chunk \in Seq(Event) /\ seen[s] \in Seq(Event) /\ store \in Seq(Event)
  BY DEF IInv, TypeOK, EmitLive
<1>2. /\ e \in Event /\ e.id \in Nat /\ r \in Seq(Event) /\ Increasing(r)
      /\ Range(sub[s].chunk) = {e} \cup Range(r) /\ e \notin Range(r)
      /\ \A x \in Range(r) : e.id < x.id
  BY <1>1, TailRange, TailIncreasing, EventId DEF PipeInv
<1>3. /\ Replay(s) = {} /\ e \in Range(store) /\ LastId(seen[s]) < e.id /\ SnapMax(s) < e.id
      /\ floor[s] <= SnapMax(s) /\ floor[s] \in Nat /\ LastId(seen[s]) \in Nat /\ SnapMax(s) \in Nat
      /\ \A x \in Range(sub[s].queue) \cup Range(outbox) : e.id < x.id
  <2>1. Replay(s) = {} /\ e \in Range(store) /\ LastId(seen[s]) < e.id /\ SnapMax(s) < e.id
        /\ floor[s] <= SnapMax(s)
        /\ \A x \in Range(sub[s].queue) \cup Range(outbox) : e.id < x.id
    BY <1>1, <1>2 DEF PipeInv, Later, Below
  <2>2. SnapMax(s) \in Nat
    BY <1>1, EventId DEF SnapMax, PipeInv, TypeOK
  <2>3. QED BY <1>1, <2>1, <2>2, LastIdNat DEF TypeOK
<1>4. /\ sub'[s].on /\ sub'[s].cursor = sub[s].cursor /\ sub'[s].filter = sub[s].filter
      /\ sub'[s].snap = sub[s].snap /\ sub'[s].pos = sub[s].pos
      /\ sub'[s].queue = sub[s].queue /\ sub'[s].chunk = r
  BY <1>1 DEF TypeOK
<1> HIDE DEF e, r
<1>5. TypeOK'
  <2>1. Append(seen[s], e) \in Seq(Event)
    BY <1>1, <1>2
  <2>2. seen' \in [Subs -> Seq(Event)]
    <3>1. CASE PassesLive(s, e)
      BY <1>1, <2>1, <3>1 DEF EmitLive, TypeOK, e
    <3>2. CASE ~PassesLive(s, e)
      BY <1>1, <3>2 DEF EmitLive, TypeOK, e
    <3>3. QED BY <3>1, <3>2
  <2>3. sub' = [sub EXCEPT ![s].chunk = r]
    BY DEF EmitLive, r
  <2>4. sub' \in [Subs -> [on : BOOLEAN, cursor : Cursor, filter : Filter, snap : Nat,
                          pos : Nat, queue : Seq(Event), chunk : Seq(Event)]]
    <3>1. sub[s] \in [on : BOOLEAN, cursor : Cursor, filter : Filter, snap : Nat,
                     pos : Nat, queue : Seq(Event), chunk : Seq(Event)]
      BY <1>1 DEF TypeOK
    <3>2. [sub[s] EXCEPT !.chunk = r] \in [on : BOOLEAN, cursor : Cursor, filter : Filter,
              snap : Nat, pos : Nat, queue : Seq(Event), chunk : Seq(Event)]
      BY <1>2, <3>1
    <3>3. sub' = [sub EXCEPT ![s] = [sub[s] EXCEPT !.chunk = r]]
      BY <2>3
    <3>4. QED BY <1>1, <3>2, <3>3 DEF TypeOK
  <2>5. QED BY <1>1, <2>2, <2>4 DEF TypeOK
<1>6. StoreInv' /\ OutboxInv'
  BY <1>1 DEF IInv, StoreInv, OutboxInv, Below
<1>7. \A t \in Subs \ {s} : (PipeInv(t) /\ SeenInv(t) /\ AccountInv(t))'
  BY <1>1, SubscriberFrame DEF IInv
<1>8. SnapMax(s)' = SnapMax(s) /\ Owed(s)' = Owed(s) /\ Replay(s)' = {}
  BY <1>1, <1>3, <1>4 DEF SnapMax, Owed, Replay
<1>9. \A x \in Range(seen[s]) : x.id < e.id
  <2>1. \A x \in Range(seen[s]) : x.id <= LastId(seen[s]) /\ x \in Event
    BY <1>1, LastIdMax DEF SeenInv, Range
  <2>2. QED BY <1>2, <1>3, <2>1, EventId
<1>10. /\ PassesLive(s, e) <=> e \in Owed(s)
       /\ PassesLive(s, e) => /\ LastId(seen'[s]) = e.id /\ Increasing(seen'[s])
                              /\ Range(seen'[s]) = Range(seen[s]) \cup {e}
       /\ ~PassesLive(s, e) => seen'[s] = seen[s]
  <2>1. PassesLive(s, e) <=> e \in Owed(s)
    BY <1>2, <1>3 DEF PassesLive, Owed
  <2>2. QED BY <1>1, <1>2, <1>9, <2>1, LastIdAppend, AppendRange, AppendIncreasing DEF SeenInv
<1>11. PipeInv(s)'
  <2>1. /\ LastId(seen'[s]) \in {e.id, LastId(seen[s])}
        /\ \A x \in Range(r) \cup Range(sub[s].queue) \cup Range(outbox) : LastId(seen'[s]) < x.id
    BY <1>1, <1>2, <1>3, <1>10 DEF PipeInv, Later
  <2>2. QED BY <1>1, <1>2, <1>4, <1>8, <2>1 DEF PipeInv, Later, Below
<1>12. SeenInv(s)'
  BY <1>1, <1>2, <1>4, <1>8, <1>10 DEF SeenInv
<1>13. AccountInv(s)'
  BY <1>1, <1>2, <1>3, <1>4, <1>8, <1>10 DEF AccountInv, Coming
<1>14. QED BY <1>5, <1>6, <1>7, <1>11, <1>12, <1>13 DEF IInv
----------------------------------------------------------------------------
(* The invariant holds in every state, and with it the properties the runs check. *)

\* The store starts empty, with no stream open.
LEMMA InitStep ==
    ASSUME Init
    PROVE  IInv
<1>1. /\ Range(<<>>) = {} /\ Increasing(<<>>) /\ <<>> \in Seq(Event)
      /\ \A s \in Subs : sub[s] = Closed
  BY DEF Init, Range, Increasing
<1>2. Closed \in [on : BOOLEAN, cursor : Cursor, filter : Filter, snap : Nat,
                 pos : Nat, queue : Seq(Event), chunk : Seq(Event)]
  BY <1>1 DEF Closed, Cursor, Filter
<1>3. TypeOK
  BY <1>1, <1>2 DEF Init, TypeOK
<1>4. StoreInv /\ OutboxInv
  BY <1>1 DEF Init, StoreInv, OutboxInv, Below
<1>5. ASSUME NEW s \in Subs PROVE PipeInv(s) /\ SeenInv(s) /\ AccountInv(s)
  <2>1. ~sub[s].on /\ seen[s] = <<>> /\ dropped[s] = {} /\ Owed(s) = {}
    BY <1>1 DEF Init, Closed, Owed
  <2>2. QED BY <1>1, <2>1 DEF PipeInv, SeenInv, AccountInv
<1>6. QED BY <1>3, <1>4, <1>5 DEF IInv

\* Every action preserves the invariant, and so does a step that changes nothing.
LEMMA NextStep ==
    ASSUME IInv, [Next]_vars
    PROVE  IInv'
<1>1. ASSUME NEW kind \in Kind, NEW now \in Clock, MakeEnvelope(kind, now) PROVE IInv'
  BY <1>1, MakeEnvelopeStep
<1>2. CASE Commit
  BY <1>2, CommitStep
<1>3. CASE Publish
  BY <1>3, PublishStep
<1>4. ASSUME NEW s \in Subs, NEW c \in Cursors, NEW f \in Filter \ {{}}, Subscribe(s, c, f)
      PROVE  IInv'
  <2>1. c \in Cursor /\ f \in Filter
    BY MemoryAssumption DEF Cursors, Cursor
  <2>2. QED BY <1>4, <2>1, SubscribeStep
<1>5. ASSUME NEW s \in Subs, Resume(s) PROVE IInv'
  BY <1>5, ResumeStep
<1>6. ASSUME NEW s \in Subs, Unsubscribe(s) PROVE IInv'
  BY <1>6, UnsubscribeStep
<1>7. ASSUME NEW s \in Subs, EmitReplay(s) PROVE IInv'
  BY <1>7, EmitReplayStep
<1>8. ASSUME NEW s \in Subs, TakeChunk(s) PROVE IInv'
  BY <1>8, TakeChunkStep
<1>9. ASSUME NEW s \in Subs, EmitLive(s) PROVE IInv'
  BY <1>9, EmitLiveStep
<1>10. CASE UNCHANGED vars
  <2>1. TypeOK' /\ StoreInv' /\ OutboxInv'
    BY <1>10 DEF IInv, vars, TypeOK, StoreInv, OutboxInv, Below
  <2>2. \A s \in Subs : (PipeInv(s) /\ SeenInv(s) /\ AccountInv(s))'
    BY <1>10, SubscriberFrame DEF IInv, vars
  <2>3. QED BY <2>1, <2>2 DEF IInv
<1>11. QED BY <1>1, <1>2, <1>3, <1>4, <1>5, <1>6, <1>7, <1>8, <1>9, <1>10 DEF Next

\* The inductive invariant: the stages of a stream follow one another in id order and
\* every event a subscriber asked for is emitted, dropped or in one of them.
THEOREM Invariance == Spec => []IInv
<1>1. Init => IInv
  BY InitStep
<1>2. IInv /\ [Next]_vars => IInv'
  BY NextStep
<1>3. QED BY <1>1, <1>2, PTL DEF Spec

\* Type correctness of MemoryStore.ts: queues, chunks and arrays hold envelopes only.
THEOREM TypeCorrect == Spec => []TypeOK
<1>1. IInv => TypeOK
  BY DEF IInv
<1>2. QED BY <1>1, Invariance, PTL

\* A stream, resumed any number of times from the last id it saw, never emits an event
\* twice or out of order, however subscribe interleaves with append.
THEOREM DeliveryOrder == Spec => []DeliveredInOrder
<1>1. IInv => DeliveredInOrder
  BY DEF IInv, SeenInv, DeliveredInOrder
<1>2. QED BY <1>1, Invariance, PTL

\* Up to the last event emitted, every owed event was emitted or dropped.
LEMMA Accounted ==
    ASSUME IInv
    PROVE  NoGapBehind
<1>1. ASSUME NEW s \in Subs
      PROVE  Range(seen[s]) = {e \in Owed(s) : e.id <= LastId(seen[s])} \ dropped[s]
  <2>1. /\ TypeOK /\ StoreInv /\ PipeInv(s) /\ SeenInv(s) /\ AccountInv(s)
        /\ seen[s] \in Seq(Event) /\ store \in Seq(Event)
    BY <1>1 DEF IInv, TypeOK
  <2>2. LastId(seen[s]) \in Nat /\ \A x \in Range(seen[s]) : x.id <= LastId(seen[s])
    BY <2>1, LastIdNat, LastIdMax DEF SeenInv
  <2>3. \A e \in Owed(s) : e.id \in Nat
    BY <2>1, EventId DEF Owed, Range
  <2>4. ASSUME NEW e \in Owed(s), Coming(s, e) PROVE LastId(seen[s]) < e.id
    BY <2>1, <2>4 DEF Coming, PipeInv, Later
  <2>5. \A e \in Owed(s) : e.id <= LastId(seen[s]) => e \in Range(seen[s]) \/ e \in dropped[s]
    BY <2>1, <2>2, <2>3, <2>4 DEF AccountInv
  <2>6. QED BY <2>1, <2>2, <2>5 DEF SeenInv
<1>2. QED BY <1>1 DEF NoGapBehind

\* The hand-off from snapshot to PubSub leaves no gap and no intruder: up to the last
\* event emitted a stream has emitted what it owed, but for what the buffer slid past.
THEOREM NoGap == Spec => []NoGapBehind
<1>1. IInv => NoGapBehind
  BY Accounted
<1>2. QED BY <1>1, Invariance, PTL
----------------------------------------------------------------------------
(* What the sliding buffer may lose.                                       *)

\* Event d has its place in the array, and at least Capacity events after it.
FarBehind(d) == \E k \in DOMAIN store : store[k] = d /\ k + Capacity <= Len(store)

\* The buffer slides only past events that are a whole capacity behind.
KeepInv == \A s \in Subs : \A d \in dropped[s] : FarBehind(d)

\* A run of stored events in id order takes up at least its own length of the array.
LEMMA RunLength ==
    ASSUME store \in Seq(Event), Increasing(store), NEW r \in Seq(Event), r # <<>>,
           Increasing(r), Range(r) \subseteq Range(store)
    PROVE  \E k \in DOMAIN store : store[k] = r[1] /\ k + Len(r) <= Len(store) + 1
<1>1. /\ DOMAIN r = 1 .. Len(r) /\ DOMAIN store = 1 .. Len(store) /\ Len(r) \in Nat /\ Len(r) > 0
      /\ Len(store) \in Nat /\ 1 \in DOMAIN r
      /\ \A i \in DOMAIN r : r[i] \in Event /\ r[i].id \in Nat
      /\ \A i \in DOMAIN store : store[i] \in Event /\ store[i].id \in Nat
  BY EventId
<1>2. \A i \in DOMAIN r : \E k \in DOMAIN store : store[k] = r[i]
  BY DEF Range
<1> DEFINE at == [i \in DOMAIN r |-> CHOOSE k \in DOMAIN store : store[k] = r[i]]
           k1 == at[1]
           f == [i \in 2 .. Len(r) |-> at[i]]
<1>3. \A i \in DOMAIN r : at[i] \in DOMAIN store /\ store[at[i]] = r[i]
  BY <1>2
<1> HIDE DEF at
<1>4. ASSUME NEW i \in DOMAIN r, NEW j \in DOMAIN r, i < j PROVE at[i] < at[j]
  <2>1. store[at[i]].id < store[at[j]].id
    BY <1>3, <1>4 DEF Increasing
  <2>2. ~(at[j] < at[i]) /\ at[i] # at[j]
    BY <1>1, <1>3, <2>1 DEF Increasing
  <2>3. QED BY <1>1, <1>3, <2>2
<1>5. k1 \in DOMAIN store /\ store[k1] = r[1]
  BY <1>1, <1>3
<1>6. f \in Injection(2 .. Len(r), k1 + 1 .. Len(store))
  <2>1. \A i \in 2 .. Len(r) : i \in DOMAIN r /\ 1 < i
    BY <1>1
  <2>2. \A i \in 2 .. Len(r) : at[i] \in k1 + 1 .. Len(store)
    BY <1>1, <1>3, <1>4, <2>1
  <2>3. \A i, j \in 2 .. Len(r) : f[i] = f[j] => i = j
    <3>1. SUFFICES ASSUME NEW i \in 2 .. Len(r), NEW j \in 2 .. Len(r), i # j
                   PROVE  at[i] # at[j]
      OBVIOUS
    <3>2. at[i] \in Nat /\ at[j] \in Nat
      BY <1>1, <1>3, <2>1
    <3>3. CASE i < j  BY <1>4, <2>1, <3>2, <3>3
    <3>4. CASE j < i  BY <1>4, <2>1, <3>2, <3>4
    <3>5. QED BY <3>1, <3>3, <3>4
  <2>4. f \in [2 .. Len(r) -> k1 + 1 .. Len(store)]
    BY <2>2
  <2>5. QED BY <2>3, <2>4 DEF Injection, IsInjective
<1> HIDE DEF k1, f
<1>7. k1 \in Nat /\ 1 <= k1 /\ k1 <= Len(store)
  BY <1>1, <1>5
<1>8. /\ IsFiniteSet(k1 + 1 .. Len(store))
      /\ Cardinality(k1 + 1 .. Len(store)) = Len(store) - k1
      /\ Cardinality(2 .. Len(r)) = Len(r) - 1
  <2>1. k1 + 1 \in Int /\ Len(store) \in Int /\ 2 \in Int /\ Len(r) \in Int
    BY <1>1, <1>7
  <2>2. /\ IsFiniteSet(k1 + 1 .. Len(store))
        /\ Cardinality(k1 + 1 .. Len(store)) =
               IF k1 + 1 > Len(store) THEN 0 ELSE Len(store) - (k1 + 1) + 1
    BY <2>1, FS_Interval
  <2>3. Cardinality(2 .. Len(r)) = IF 2 > Len(r) THEN 0 ELSE Len(r) - 2 + 1
    BY <2>1, FS_Interval
  <2>4. QED BY <1>1, <1>7, <2>2, <2>3
<1>9. Cardinality(2 .. Len(r)) <= Cardinality(k1 + 1 .. Len(store))
  BY <1>6, <1>8, FS_Injection
<1>10. QED BY <1>1, <1>5, <1>7, <1>8, <1>9

\* A place in the array keeps its event and gains followers when the array grows.
LEMMA FarBehindGrows ==
    ASSUME store \in Seq(Event), NEW b \in Seq(Event), store' = store \o b,
           NEW d, FarBehind(d)
    PROVE  FarBehind(d)'
<1>1. PICK k \in DOMAIN store : store[k] = d /\ k + Capacity <= Len(store)
  BY DEF FarBehind
<1>2. /\ k \in DOMAIN store' /\ store'[k] = d /\ k \in Nat /\ Len(store) \in Nat
      /\ Len(store') = Len(store) + Len(b) /\ Len(b) \in Nat /\ Capacity \in Nat
  BY <1>1, MemoryAssumption
<1>3. k + Capacity <= Len(store')
  BY <1>1, <1>2
<1>4. QED BY <1>2, <1>3 DEF FarBehind

\* Only a publication into a full queue drops an event, and the rest of that queue and
\* the published envelope stand after it in the array.
LEMMA KeepPublish ==
    ASSUME IInv, KeepInv, Publish
    PROVE  KeepInv'
<1> DEFINE h == Head(outbox)
<1>1. /\ store \in Seq(Event) /\ Increasing(store) /\ store' = store
      /\ outbox \in Seq(Event) /\ outbox # <<>> /\ Range(outbox) \subseteq Range(store)
  BY DEF IInv, TypeOK, StoreInv, OutboxInv, Publish
<1>2. h \in Event /\ h \in Range(outbox)
  BY <1>1, TailRange
<1> HIDE DEF h
<1>3. ASSUME NEW s \in Subs, sub[s].on, Full(sub[s].queue)
      PROVE  FarBehind(Head(sub[s].queue))
  <2> DEFINE q == sub[s].queue
             r == Append(q, h)
  <2>1. /\ q \in Seq(Event) /\ Increasing(q) /\ Range(q) \subseteq Range(store)
        /\ \A x \in Range(q) : x.id < h.id
    BY <1>2, <1>3 DEF IInv, TypeOK, PipeInv, Later, Below
  <2>2. q # <<>> /\ Len(q) >= Capacity /\ Len(q) \in Nat /\ Capacity \in Nat
    BY <1>3, <2>1, MemoryAssumption DEF Full
  <2> HIDE DEF q
  <2>3. /\ r \in Seq(Event) /\ r # <<>> /\ Len(r) = Len(q) + 1 /\ r[1] = Head(q)
    BY <1>2, <2>1, <2>2
  <2>4. Increasing(r) /\ Range(r) = Range(q) \cup {h}
    BY <1>2, <2>1, AppendIncreasing, AppendRange
  <2>5. \E k \in DOMAIN store : store[k] = r[1] /\ k + Len(r) <= Len(store) + 1
    <3> HIDE DEF r
    <3>1. Range(r) \subseteq Range(store)
      BY <1>1, <1>2, <2>1, <2>4
    <3>2. QED BY <1>1, <2>3, <2>4, <3>1, RunLength
  <2> HIDE DEF r
  <2>6. PICK k \in DOMAIN store : store[k] = Head(q) /\ k + (Len(q) + 1) <= Len(store) + 1
    BY <2>3, <2>5
  <2>7. k + Capacity <= Len(store)
    BY <1>1, <2>2, <2>6
  <2>8. QED BY <2>6, <2>7 DEF FarBehind, q
<1>4. ASSUME NEW s \in Subs, NEW d \in dropped'[s] PROVE FarBehind(d)
  <2>1. d \in dropped[s] \/ (sub[s].on /\ Full(sub[s].queue) /\ d = Head(sub[s].queue))
    BY <1>4 DEF Publish
  <2>2. QED BY <1>3, <2>1 DEF KeepInv
<1>5. QED BY <1>1, <1>4 DEF KeepInv, FarBehind

\* What is dropped stays far behind: the array only grows at its end, and a subscriber
\* that subscribes or resumes only forgets what it had lost.
LEMMA KeepStep ==
    ASSUME IInv, KeepInv, [Next]_vars
    PROVE  KeepInv'
<1>1. CASE Commit
  <2>1. /\ store \in Seq(Event) /\ draft \in Seq(Event) /\ store' = store \o draft
        /\ dropped' = dropped
    BY <1>1 DEF IInv, TypeOK, Commit
  <2>2. ASSUME NEW s \in Subs, NEW d \in dropped[s] PROVE FarBehind(d)'
    BY <2>1, <2>2, FarBehindGrows DEF KeepInv
  <2>3. QED BY <2>1, <2>2 DEF KeepInv
<1>2. CASE Publish
  BY <1>2, KeepPublish
<1>3. CASE store' = store /\ \A s \in Subs : dropped'[s] \subseteq dropped[s]
  BY <1>3 DEF KeepInv, FarBehind
<1>4. dropped \in [Subs -> SUBSET Event]
  BY DEF IInv, TypeOK
<1>5. ASSUME NEW s \in Subs, NEW c, NEW f, Subscribe(s, c, f)
      PROVE  store' = store /\ \A t \in Subs : dropped'[t] \subseteq dropped[t]
  BY <1>4, <1>5 DEF Subscribe, Open
<1>6. ASSUME NEW s \in Subs, Resume(s)
      PROVE  store' = store /\ \A t \in Subs : dropped'[t] \subseteq dropped[t]
  BY <1>4, <1>6 DEF Resume, Open
<1>7. QED
  BY <1>1, <1>2, <1>3, <1>5, <1>6
     DEF Next, vars, MakeEnvelope, Unsubscribe, EmitReplay, TakeChunk, EmitLive

\* Together with the pipeline's invariant, what is dropped is far behind in every state.
THEOREM LossInvariance == Spec => [](IInv /\ KeepInv)
<1>1. Init => KeepInv
  BY DEF Init, KeepInv
<1>2. IInv /\ KeepInv /\ [Next]_vars => KeepInv'
  BY KeepStep
<1>3. QED BY <1>1, <1>2, Invariance, PTL DEF Spec

\* The sliding PubSub only costs a subscriber that has fallen behind by its capacity:
\* an event lost to it is followed in the store by at least Capacity others.
THEOREM BoundedLoss == Spec => []KeepingUpLosesNothing
<1>1. ASSUME IInv, KeepInv, NEW s \in Subs, NEW e \in dropped[s]
      PROVE  Cardinality({x \in Range(store) : x.id > e.id}) >= Capacity
  <2> DEFINE T == {x \in Range(store) : x.id > e.id}
  <2>1. PICK k \in DOMAIN store : store[k] = e /\ k + Capacity <= Len(store)
    BY <1>1 DEF KeepInv, FarBehind
  <2>2. /\ store \in Seq(Event) /\ Increasing(store) /\ DOMAIN store = 1 .. Len(store)
        /\ Len(store) \in Nat /\ k \in Nat /\ 1 <= k /\ Capacity \in Nat /\ Capacity > 0
        /\ \A i \in DOMAIN store : store[i].id \in Nat /\ store[i] \in Range(store)
    BY <1>1, EventId, MemoryAssumption DEF IInv, TypeOK, StoreInv, Range
  <2>3. IsFiniteSet(Range(store))
    <3>1. IsFiniteSet(1 .. Len(store))
      BY <2>2, FS_Interval
    <3>2. store \in Surjection(1 .. Len(store), Range(store))
      BY <2>2 DEF Surjection, Range
    <3>3. QED BY <3>1, <3>2, FS_Surjection
  <2>4. IsFiniteSet(T)
    BY <2>3, FS_Subset
  <2> DEFINE f == [i \in k + 1 .. Len(store) |-> store[i]]
  <2>5. f \in Injection(k + 1 .. Len(store), T)
    <3>1. \A i \in k + 1 .. Len(store) : i \in DOMAIN store /\ k < i
      BY <2>2
    <3>2. \A i \in k + 1 .. Len(store) : store[i] \in T
      BY <2>1, <2>2, <3>1 DEF Increasing
    <3>3. \A i, j \in k + 1 .. Len(store) : store[i] = store[j] => i = j
      <4>1. SUFFICES ASSUME NEW i \in k + 1 .. Len(store), NEW j \in k + 1 .. Len(store), i < j
                     PROVE  store[i] # store[j]
        BY <2>2
      <4>2. store[i].id < store[j].id /\ store[i].id \in Nat
        BY <2>2, <3>1, <4>1 DEF Increasing
      <4>3. QED BY <4>2
    <3>4. QED BY <3>2, <3>3 DEF Injection, IsInjective
  <2> HIDE DEF T, f
  <2>6. Cardinality(k + 1 .. Len(store)) <= Cardinality(T)
    BY <2>4, <2>5, FS_Injection
  <2>7. Cardinality(k + 1 .. Len(store)) = Len(store) - k
    <3>1. k + 1 \in Int /\ Len(store) \in Int
      BY <2>2
    <3>2. Cardinality(k + 1 .. Len(store)) =
              IF k + 1 > Len(store) THEN 0 ELSE Len(store) - (k + 1) + 1
      BY <3>1, FS_Interval
    <3>3. ~(k + 1 > Len(store))
      BY <2>1, <2>2
    <3>4. QED BY <2>2, <3>2, <3>3
  <2>8. Cardinality(T) \in Nat
    BY <2>4, FS_CardinalityType
  <2>9. QED BY <2>1, <2>2, <2>6, <2>7, <2>8 DEF T
<1>2. IInv /\ KeepInv => KeepingUpLosesNothing
  BY <1>1 DEF KeepingUpLosesNothing
<1>3. QED BY <1>2, LossInvariance, PTL
----------------------------------------------------------------------------
(* MemoryStore implements EventStream: the array is the log, what the      *)
(* streams emitted is what the subscribers got.                            *)

Filters == [s \in Subs |-> sub[s].filter]

\* Emitting a stored event that is owed and later than everything seen is a delivery of
\* the abstract stream: an owed event before it that is skipped was dropped, hence is far
\* behind.
LEMMA DeliveryRefines ==
    ASSUME IInv, IInv', KeepInv, NEW s \in Subs, NEW e \in Owed(s), LastId(seen[s]) < e.id,
           seen' = [seen EXCEPT ![s] = Append(@, e)],
           UNCHANGED <<store, floor, dropped, Filters>>
    PROVE  Stream!Deliver(s)
<1>1. /\ store \in Seq(Event) /\ Increasing(store) /\ seen \in [Subs -> Seq(Event)]
      /\ DOMAIN store = 1 .. Len(store) /\ Len(store) \in Nat
      /\ \A j \in DOMAIN store : store[j] \in Range(store) /\ store[j].id \in Nat
  <2>1. TypeOK /\ StoreInv
    BY DEF IInv
  <2>2. store \in Seq(Event) /\ Increasing(store) /\ seen \in [Subs -> Seq(Event)]
    BY <2>1 DEF TypeOK, StoreInv
  <2>3. \A j \in DOMAIN store : store[j] \in Event /\ store[j].id \in Nat
    BY <2>2, EventId
  <2>4. QED BY <2>2, <2>3 DEF Range
<1>2. PICK i \in DOMAIN store : store[i] = e
  BY DEF Owed, Range
<1>3. /\ e \in Event /\ e.id \in Nat /\ e.id > floor[s] /\ Matches(sub[s].filter, e)
      /\ i \in Nat
  BY <1>1, <1>2 DEF Owed
<1>4. /\ LastId(seen'[s]) = e.id /\ Range(seen'[s]) = Range(seen[s]) \cup {e}
  <2>1. seen'[s] = Append(seen[s], e) /\ seen[s] \in Seq(Event)
    BY <1>1
  <2>2. QED BY <1>3, <2>1, LastIdAppend, AppendRange
<1>5. \A x \in Range(seen[s]) : x.id <= LastId(seen[s])
  BY <1>1, LastIdMax DEF IInv, SeenInv
<1>6. Owed(s)' = Owed(s)
  <2>1. sub'[s].filter = sub[s].filter
    BY DEF Filters
  <2>2. QED BY <2>1 DEF Owed
<1>7. ASSUME NEW j \in 1 .. i - 1, store[j].id > floor[s], store[j].id > LastId(seen[s]),
             Matches(sub[s].filter, store[j])
      PROVE  j + Capacity <= Len(store)
  <2>1. j \in DOMAIN store /\ j < i /\ j \in Nat
    BY <1>1, <1>2, <1>3
  <2>2. store[j].id < e.id /\ store[j] \in Owed(s) /\ store[j].id \in Nat
    BY <1>1, <1>2, <1>7, <2>1 DEF Increasing, Owed
  <2>3. IInv' => NoGapBehind'
    BY Accounted, PTL
  <2>4. Range(seen'[s]) = {x \in Owed(s)' : x.id <= LastId(seen'[s])} \ dropped'[s]
    BY <2>3 DEF NoGapBehind
  <2>5. store[j] \notin Range(seen'[s])
    <3>1. LastId(seen[s]) \in Nat
      BY <1>1, LastIdNat
    <3>2. store[j] # e
      BY <1>3, <2>2
    <3>3. store[j] \notin Range(seen[s])
      BY <1>5, <1>7, <2>2, <3>1
    <3>4. QED BY <1>4, <3>2, <3>3
  <2>6. store[j] \in dropped[s]
    BY <1>3, <1>4, <1>6, <2>2, <2>4, <2>5
  <2>7. PICK k \in DOMAIN store : store[k] = store[j] /\ k + Capacity <= Len(store)
    BY <2>6 DEF KeepInv, FarBehind
  <2>8. k = j
    <3>1. ~(k < j) /\ ~(j < k)
      BY <1>1, <2>1, <2>2, <2>7 DEF Increasing
    <3>2. QED BY <1>1, <2>1, <3>1
  <2>9. QED BY <2>7, <2>8
<1>8. LastId(seen[s]) = Stream!LastId(seen[s])
  BY DEF LastId, Stream!LastId
<1>9. Filters[s] = sub[s].filter
  BY DEF Filters
<1>10. QED
  BY <1>2, <1>3, <1>7, <1>8, <1>9
     DEF Stream!Deliver, Stream!Matches, Matches, Filters

\* Opening a stream anew is a new abstract subscription.
LEMMA SubscribeRefines ==
    ASSUME IInv, NEW s \in Subs, NEW c \in Cursor, NEW f \in Filter, Subscribe(s, c, f)
    PROVE  Stream!Begin(s)
<1>1. store \in Seq(Event) /\ LastId(store) \in Nat
  BY LastIdNat DEF IInv, TypeOK
<1>2. StartOf(c) \in 0 .. LastId(store)
  <2>1. CASE c = Earliest  BY <1>1, <2>1 DEF StartOf
  <2>2. CASE c = Latest    BY <1>1, <2>2, CursorAssumption DEF StartOf
  <2>3. CASE c \in Nat     BY <1>1, <2>3, CursorAssumption DEF StartOf
  <2>4. QED BY <2>1, <2>2, <2>3 DEF Cursor
<1>3. LastId(store) = Stream!LastId(store)
  BY DEF LastId, Stream!LastId
<1>4. Filters' = [Filters EXCEPT ![s] = f]
  BY DEF Subscribe, Open, Filters, IInv, TypeOK
<1>5. QED
  BY <1>2, <1>3, <1>4 DEF Subscribe, Open, Stream!Begin, Stream!Filter, Filter, Filters

\* Ref.update extends the abstract log at its end.
LEMMA CommitRefines ==
    ASSUME IInv, IInv', Commit
    PROVE  Stream!Extend
<1>1. store \in Seq(Event) /\ draft \in Seq(Event) /\ store' = store \o draft
  BY DEF IInv, TypeOK, Commit
<1>2. Len(store') >= Len(store) /\ SubSeq(store', 1, Len(store)) = store
  BY <1>1
<1>3. Stream!Increasing(store')
  BY DEF IInv, StoreInv, Increasing, Stream!Increasing
<1>4. QED BY <1>2, <1>3 DEF Commit, Stream!Extend

\* Every step of the store is a step of the abstract stream, or none.
LEMMA StepRefines ==
    ASSUME IInv, IInv', KeepInv, [Next]_vars
    PROVE  [Stream!Next]_Stream!svars
<1>1. CASE Commit
  BY <1>1, CommitRefines DEF Stream!Next
<1>2. ASSUME NEW s \in Subs, NEW c \in Cursors, NEW f \in Filter \ {{}}, Subscribe(s, c, f)
      PROVE  Stream!Next
  <2>1. c \in Cursor /\ f \in Filter
    BY MemoryAssumption DEF Cursors, Cursor
  <2>2. QED BY <1>2, <2>1, SubscribeRefines DEF Stream!Next
<1>3. ASSUME NEW s \in Subs, EmitReplay(s) PROVE Stream!Next
  <2>1. /\ TypeOK /\ StoreInv /\ PipeInv(s) /\ sub[s].on
        /\ sub \in [Subs -> [on : BOOLEAN, cursor : Cursor, filter : Filter, snap : Nat,
                             pos : Nat, queue : Seq(Event), chunk : Seq(Event)]]
    BY <1>3 DEF IInv, TypeOK, EmitReplay
  <2>2. PICK i \in Replay(s) : /\ seen' = [seen EXCEPT ![s] = Append(@, store[i])]
                               /\ sub' = [sub EXCEPT ![s].pos = i]
    BY <1>3 DEF EmitReplay
  <2>3. /\ store[i] \in Range(store) /\ LastId(seen[s]) < store[i].id
        /\ floor[s] < store[i].id /\ store[i].id \in Nat /\ floor[s] \in Nat
    BY <2>1, <2>2, ReplayBounds, EventId DEF PipeInv, TypeOK
  <2>4. store[i] \in Owed(s)
    BY <2>2, <2>3 DEF Owed, Replay
  <2>5. UNCHANGED <<store, floor, dropped, Filters>>
    BY <1>3, <2>1, <2>2 DEF EmitReplay, Filters
  <2>6. QED BY <2>2, <2>3, <2>4, <2>5, DeliveryRefines DEF Stream!Next
<1>4. ASSUME NEW s \in Subs, EmitLive(s) PROVE [Stream!Next]_Stream!svars
  <2> DEFINE e == Head(sub[s].chunk)
  <2>1. /\ TypeOK /\ PipeInv(s) /\ sub[s].on /\ sub[s].chunk # <<>>
        /\ sub \in [Subs -> [on : BOOLEAN, cursor : Cursor, filter : Filter, snap : Nat,
                             pos : Nat, queue : Seq(Event), chunk : Seq(Event)]]
        /\ sub' = [sub EXCEPT ![s].chunk = Tail(@)]
        /\ seen' = IF PassesLive(s, e) THEN [seen EXCEPT ![s] = Append(@, e)] ELSE seen
        /\ UNCHANGED <<store, floor, dropped>>
    BY <1>4 DEF IInv, TypeOK, EmitLive
  <2>2. UNCHANGED <<store, floor, dropped, Filters>>
    BY <2>1 DEF Filters
  <2>3. /\ e \in Range(store) /\ LastId(seen[s]) < e.id /\ SnapMax(s) < e.id
        /\ floor[s] <= SnapMax(s) /\ e.id \in Nat /\ floor[s] \in Nat /\ SnapMax(s) \in Nat
    <3>1. e \in Range(sub[s].chunk) /\ e \in Event
      BY <2>1, TailRange
    <3>2. SnapMax(s) \in Nat
      BY <2>1, EventId DEF SnapMax, PipeInv, TypeOK
    <3>3. QED BY <2>1, <3>1, <3>2, EventId DEF PipeInv, Later, TypeOK
  <2> HIDE DEF e
  <2>4. CASE PassesLive(s, e)
    <3>1. e \in Owed(s)
      BY <2>3, <2>4 DEF Owed, PassesLive
    <3>2. QED BY <2>1, <2>2, <2>3, <2>4, <3>1, DeliveryRefines DEF Stream!Next
  <2>5. CASE ~PassesLive(s, e)
    BY <2>1, <2>2, <2>5 DEF Stream!svars, Filters
  <2>6. QED BY <2>4, <2>5
<1>5. CASE UNCHANGED <<store, seen, floor, Filters>>
  BY <1>5 DEF Stream!svars, Filters
<1>6. ASSUME NEW s \in Subs, Resume(s) PROVE UNCHANGED <<store, seen, floor, Filters>>
  BY <1>6 DEF Resume, Open, Filters, IInv, TypeOK
<1>7. ASSUME NEW s \in Subs, Unsubscribe(s) PROVE UNCHANGED <<store, seen, floor, Filters>>
  BY <1>7 DEF Unsubscribe, Filters, IInv, TypeOK, Closed
<1>8. ASSUME NEW s \in Subs, TakeChunk(s) PROVE UNCHANGED <<store, seen, floor, Filters>>
  BY <1>8 DEF TakeChunk, Filters, IInv, TypeOK
<1>9. ASSUME Publish PROVE UNCHANGED <<store, seen, floor, Filters>>
  BY <1>9 DEF Publish, Filters, IInv, TypeOK
<1>10. QED
  BY <1>1, <1>2, <1>3, <1>4, <1>5, <1>6, <1>7, <1>8, <1>9 DEF Next, vars, MakeEnvelope, Filters

\* MemoryStore.ts keeps the promise of the EventStore interface: whatever the interleaving
\* of append, subscribe and the subscribers' fibers, each stream delivers, in log order,
\* the matching events after its start, and skips only what is a capacity behind.
THEOREM Refinement == Spec => StreamSpec
<1>1. Init => Stream!Init
  BY DEF Init, Closed, Stream!Init
<1>2. IInv /\ IInv' /\ KeepInv /\ [Next]_vars => [Stream!Next]_Stream!svars
  BY StepRefines
<1>3. QED BY <1>1, <1>2, LossInvariance, PTL DEF Spec, StreamSpec, Stream!Spec
----------------------------------------------------------------------------
(* Reads.                                                                  *)

\* The bound of the model on the events of one behaviour, which a read of everything uses.
LengthInv == Len(store) + Len(draft) <= MaxEvents

\* Every step keeps to the bound.
LEMMA LengthStep ==
    ASSUME TypeOK, LengthInv, [Next]_vars
    PROVE  LengthInv'
<1>1. store \in Seq(Event) /\ draft \in Seq(Event) /\ MaxEvents \in Nat
  BY MemoryAssumption DEF TypeOK
<1>2. ASSUME NEW kind \in Kind, NEW now \in Clock, MakeEnvelope(kind, now) PROVE LengthInv'
  <2>1. /\ \E e : draft' = Append(draft, e)
        /\ UNCHANGED store /\ Len(store) + Len(draft) < MaxEvents
    BY <1>2 DEF MakeEnvelope
  <2>2. Len(draft') = Len(draft) + 1
    BY <1>1, <2>1
  <2> DEFINE l == Len(store)
             d == Len(draft)
  <2>3. l \in Nat /\ d \in Nat /\ Len(draft') = d + 1 /\ l + d < MaxEvents
    BY <1>1, <2>1, <2>2
  <2> HIDE DEF l, d
  <2>4. l + (d + 1) <= MaxEvents
    BY <1>1, <2>3
  <2>5. QED BY <2>1, <2>3, <2>4 DEF LengthInv, l
<1>3. CASE Commit
  <2>1. store' = store \o draft /\ draft' = <<>>
    BY <1>3 DEF Commit
  <2>2. Len(store') = Len(store) + Len(draft) /\ Len(draft') = 0
    BY <1>1, <2>1
  <2>3. QED BY <1>1, <2>2 DEF LengthInv
<1>4. CASE UNCHANGED <<store, draft>>
  BY <1>4 DEF LengthInv
<1>5. QED
  BY <1>2, <1>3, <1>4
  DEF Next, vars, Publish, Subscribe, Resume, Open, Unsubscribe, EmitReplay, TakeChunk, EmitLive

\* A page and the read after it are what one read of up to n envelopes returns.
Paged(log, n, c, f, limit) ==
    LET page == QueryAfter(log, c, f, limit)
    IN  QueryAfter(log, c, f, n) =
            page \o QueryAfter(log, IF page = <<>> THEN c ELSE LastId(page), f,
                               IF page = <<>> THEN 0 ELSE n)

\* So it is wherever the read starts, of any array in id order.
LEMMA Pages ==
    ASSUME NEW log \in Seq(Event), Increasing(log), NEW n \in Nat, Len(log) <= n,
           NEW c \in Nat \cup {Earliest}, NEW f, NEW limit \in Nat \ {0}
    PROVE  Paged(log, n, c, f, limit)
<1> DEFINE P == Hits(log, c, f)
           all == Select(log, P)
           page == Take(all, limit)
           Q == Hits(log, LastId(page), f)
           rest == Select(log, Q)
<1>1. P \in SUBSET DOMAIN log /\ Q \in SUBSET DOMAIN log
  BY DEF Hits
<1>2. all \in Seq(Event) /\ rest \in Seq(Event) /\ Len(all) <= n /\ Len(rest) <= n
  <2> HIDE DEF P, Q
  <2>1. all \in Seq(Event) /\ rest \in Seq(Event)
    BY <1>1, HitsAre
  <2>2. /\ Len(all) = Cardinality(P) /\ Cardinality(P) \in Nat /\ Cardinality(P) <= Len(log)
        /\ Len(rest) = Cardinality(Q) /\ Cardinality(Q) \in Nat /\ Cardinality(Q) <= Len(log)
    BY <1>1, HitsAre, HitsFinite
  <2>3. Len(log) \in Nat
    OBVIOUS
  <2> HIDE DEF all, rest
  <2>4. QED BY <2>1, <2>2, <2>3
<1>3. /\ QueryAfter(log, c, f, n) = Take(all, n) /\ QueryAfter(log, c, f, limit) = page
      /\ QueryAfter(log, c, f, 0) = Take(all, 0)
      /\ QueryAfter(log, LastId(page), f, n) = Take(rest, n)
  BY DEF QueryAfter, Hits
<1>4. all # <<>> => page # <<>> /\ all = page \o rest
  BY PageThenRest
<1> HIDE DEF P, Q, all, rest, page
<1>5. Take(all, n) = all /\ Take(rest, n) = rest /\ Take(all, 0) = <<>>
  BY <1>2, TakeIs
<1>6. CASE all # <<>>
  BY <1>3, <1>4, <1>5, <1>6 DEF Paged
<1>7. CASE all = <<>>
  <2>1. page = <<>>
    <3>1. Len(all) <= limit
      BY <1>2, <1>7
    <3>2. QED BY <1>2, <1>7, <3>1, TakeIs DEF page
  <2>2. QED BY <1>3, <1>5, <1>7, <2>1 DEF Paged
<1>8. QED BY <1>6, <1>7

\* The paged read of MemoryStore.ts and FileStore.ts: a client that asks for a page, then
\* for what follows the last id of it, reads what one query of everything returns, for any
\* filter, cursor and page size, and is at the end when it starts from latestCursor.
THEOREM Paging == Spec => []PagingLosesNothing
<1>1. Init => LengthInv
  BY MemoryAssumption DEF Init, LengthInv
<1>2. IInv /\ LengthInv /\ [Next]_vars => LengthInv'
  BY LengthStep DEF IInv
<1>3. ASSUME IInv, LengthInv PROVE PagingLosesNothing
  <2>1. /\ store \in Seq(Event) /\ Increasing(store) /\ Len(store) <= MaxEvents
        /\ MaxEvents \in Nat /\ MaxCursor \in Nat /\ MaxBatch \in Nat
    <3>1. store \in Seq(Event) /\ draft \in Seq(Event) /\ Increasing(store)
      BY <1>3 DEF IInv, TypeOK, StoreInv
    <3>2. Len(store) \in Nat /\ Len(draft) \in Nat
      BY <3>1
    <3>3. Len(store) + Len(draft) <= MaxEvents /\ MaxEvents \in Nat
      BY <1>3, MemoryAssumption DEF LengthInv
    <3>4. Len(store) <= MaxEvents
      BY <3>2, <3>3
    <3>5. QED BY <3>1, <3>4, MemoryAssumption
  <2>2. ASSUME NEW f \in Filter
        PROVE  QueryAfter(store, Earliest, f, MaxEvents) = Query(store, f, MaxEvents)
    <3>1. \A i \in DOMAIN store : AfterCursor(Earliest, store[i])
      BY DEF AfterCursor
    <3>2. {i \in DOMAIN store : AfterCursor(Earliest, store[i]) /\ Matches(f, store[i])}
            = {i \in DOMAIN store : Matches(f, store[i])}
      BY <3>1
    <3>3. QED BY <3>2 DEF QueryAfter, Query
  <2>3. ASSUME NEW f \in Filter
        PROVE  QueryAfter(store, LatestCursor(store), f, MaxEvents) = <<>>
    <3> DEFINE P == {i \in DOMAIN store :
                        AfterCursor(LatestCursor(store), store[i]) /\ Matches(f, store[i])}
    <3>1. P = {}
      <4>1. CASE store = <<>>
        BY <4>1
      <4>2. CASE store # <<>>
        <5>1. LatestCursor(store) = LastId(store) /\ LastId(store) \in Nat
          BY <2>1, <4>2, LastIdNat DEF LatestCursor
        <5>2. LastId(store) \notin {Earliest, Latest}
          BY <5>1, CursorAssumption
        <5>3. \A i \in DOMAIN store : store[i].id \in Nat /\ store[i].id <= LastId(store)
          BY <2>1, LastIdMax, EventId DEF Range
        <5>4. \A i \in DOMAIN store : ~(store[i].id > LastId(store))
          BY <5>1, <5>3
        <5>5. QED BY <5>1, <5>2, <5>4 DEF AfterCursor
      <4>3. QED BY <4>1, <4>2
    <3>2. QueryAfter(store, LatestCursor(store), f, MaxEvents) = Take(Select(store, P), MaxEvents)
      BY DEF QueryAfter
    <3> HIDE DEF P
    <3>3. Select(store, P) = <<>>
      BY <3>1, SelectNone
    <3>4. <<>> \in Seq(Event) /\ Len(<<>>) <= MaxEvents
      BY <2>1
    <3>5. QED BY <2>1, <3>2, <3>3, <3>4, TakeIs
  <2>4. ASSUME NEW f \in Filter, NEW c \in {Earliest} \cup 0 .. MaxCursor,
               NEW limit \in 1 .. MaxBatch
        PROVE  Paged(store, MaxEvents, c, f, limit)
    <3>1. c \in Nat \cup {Earliest} /\ limit \in Nat \ {0}
      BY <2>1
    <3>2. QED BY <2>1, <3>1, Pages
  <2>5. QED BY <2>2, <2>3, <2>4 DEF PagingLosesNothing, Paged
<1>4. IInv /\ LengthInv => PagingLosesNothing
  BY <1>3
<1>5. QED BY <1>1, <1>2, <1>4, Invariance, PTL DEF Spec
=============================================================================
