------------------------- MODULE Supervisor_proofs --------------------------
(***************************************************************************)
(* Proofs about Supervisor: for any number of agents in any chain of kinds *)
(* and filters, any number of events, and any number of faults.            *)
(***************************************************************************)
EXTENDS Supervisor, FiniteSetTheorems, TLAPS

\* What agent a has to do for event i is done, or was lost to a failure under withIdempotence.
Settled(a, i) ==
    i \in Excused(a) \/ (i \in handled[a] /\ (a \in Emitters => Emissions(a, i) # {}))

\* Every event up to position c that agent a wants is settled.
UpTo(a, c) ==
    c \in Nat => c <= Len(log) /\ \A i \in 1 .. c : Wanted(a, i) => Settled(a, i)

\* No cursor runs ahead of the work, and none falls back to "latest" while the process runs.
CursorsInv ==
    ~torn => \A a \in Agents :
        /\ UpTo(a, pending[a]) /\ UpTo(a, cur[a]) /\ UpTo(a, start[a])
        /\ start[a] # Latest /\ (up => cur[a] # Latest)
        /\ disk # Empty => UpTo(a, disk[a]) /\ disk[a] # Latest
        /\ \A x \in Fibers : flush[x].pc = "write" =>
                UpTo(a, flush[x].map[a]) /\ flush[x].map[a] # Latest

\* Only a flush under way leaves the file empty, and it knows what to write.
FlushInv ==
    /\ \A x \in Fibers : flush[x].pc # "idle" =>
            up /\ flush[x].agent \in Agents /\ pending[flush[x].agent] # 0
    /\ \A x \in Fibers : flush[x].pc = "write" => flush[x].map \in [Agents -> Cursor]
    /\ ~torn /\ disk = Empty => \E x \in Fibers : flush[x].pc = "write"

\* An agent's fiber runs in a process, and waits for its own flush; between its handler and
\* its mark the agent is at an event of the log.
FiberInv ==
    \A a \in Agents :
        /\ pc[a] # "off" => up
        /\ flush[a].pc # "idle" => pc[a] = "flush"
        /\ pc[a] \in {"emit", "mark"} =>
                pos[a] \in DOMAIN log /\ (kind[a] = "once" => pos[a] \in keys[a])

\* Where an agent stands, all is settled; what it returned may still have to be appended.
PlaceInv ==
    ~torn => \A a \in Agents :
        /\ pc[a] \in {"wait", "mark", "flush"} => UpTo(a, pos[a])
        /\ pc[a] = "emit" => UpTo(a, pos[a] - 1) /\ pos[a] \in handled[a]

\* A key stands for an event that failed or is settled, but for the one being emitted.
KeysInv ==
    \A a \in Agents : kind[a] = "once" =>
        \A i \in keys[a] : Settled(a, i) \/ (pc[a] = "emit" /\ pos[a] = i /\ i \in handled[a])

\* What this process appended under withIdempotence has its key, and was appended once.
OnceInv ==
    \A a \in Agents : kind[a] = "once" =>
        \A k \in DOMAIN log : log[k].by = a /\ k > born =>
            /\ log[k].cause \in keys[a]
            /\ pc[a] = "emit" => log[k].cause # pos[a]
            /\ \A n \in DOMAIN log :
                  log[n].by = a /\ n > born /\ log[n].cause = log[k].cause => n = k

\* One fiber writes at a time, and what it writes is current unless another one waits.
WriteInv ==
    /\ \A x, y \in Fibers : flush[x].pc = "write" /\ flush[y].pc = "write" => x = y
    /\ up /\ (\A x \in Fibers : flush[x].pc # "persist") =>
            \/ \E x \in Fibers : flush[x].pc = "write" /\ flush[x].map = cur
            \/ (\A x \in Fibers : flush[x].pc = "idle") /\ (disk = cur \/ cur = Unknown)

KindOK == kind \in Kinds

\* What holds whatever cursors the file held before the first start.
Always == TypeOK /\ KindOK /\ FlushInv /\ FiberInv /\ KeysInv /\ OnceInv /\ WriteInv

\* And what holds besides when every agent was given "earliest".
IInv == Always /\ CursorsInv /\ PlaceInv
----------------------------------------------------------------------------
\* What a failure of the handler or of the append changes.
LEMMA FailsType ==
    ASSUME SupervisorAssumption, TypeOK, KindOK, NEW a \in Agents, Retry(a)
    PROVE  /\ keys' \in [Agents -> SUBSET Nat] /\ failed' \in [Agents -> SUBSET Nat]
           /\ faults' \in 0 .. MaxFaults[kind]
<1>1. faults' \in 0 .. MaxFaults[kind]
  BY DEF SupervisorAssumption, TypeOK, KindOK, Retry, Fails, Strikes
<1>2. CASE \E i \in Ahead(a) :
            /\ Failing(a, i)
            /\ keys' = [keys EXCEPT ![a] = IF kind[a] = "once" THEN keys[a] \cup {i} ELSE keys[a]]
  <2>1. PICK i \in Ahead(a) :
            /\ Failing(a, i)
            /\ keys' = [keys EXCEPT ![a] = IF kind[a] = "once" THEN keys[a] \cup {i} ELSE keys[a]]
    BY <1>2
  <2>2. i \in Nat
    BY DEF Ahead, TypeOK
  <2>3. QED BY <1>1, <2>1, <2>2 DEF TypeOK, Failing
<1>3. CASE Failing(a, pos[a]) /\ keys' = [keys EXCEPT ![a] = keys[a]]
  BY <1>1, <1>3 DEF TypeOK, Failing
<1>4. QED BY <1>2, <1>3 DEF Retry, Fails

\* The end of a scope leaves an agent without keys, or with those it had and those of the
\* events at which it was interrupted, which count as failed.
LEMMA KeysAtTheEnd ==
    ASSUME TypeOK, Forgotten \/ Remembered, NEW a \in Agents
    PROVE  \/ keys'[a] = {} /\ failed'[a] = failed[a] /\ (kind[a] = "once" => born' = Len(log))
           \/ /\ keys[a] \subseteq keys'[a] /\ failed[a] \subseteq failed'[a] /\ born' = born
              /\ \A i \in keys'[a] : i \in keys[a] \/ i \in failed'[a]
              /\ kind[a] = "once" /\ pc[a] = "emit" => pos[a] \in failed'[a]
<1>1. CASE Forgotten
  BY <1>1 DEF Forgotten
<1>2. CASE Remembered
  <2>1. PICK running \in SUBSET Agents :
            /\ keys' = [b \in Agents |-> keys[b] \cup Cut(b, running)]
            /\ failed' = [b \in Agents |-> failed[b] \cup Cut(b, running)]
    BY <1>2 DEF Remembered
  <2>2. keys'[a] = keys[a] \cup Cut(a, running) /\ failed'[a] = failed[a] \cup Cut(a, running)
    BY <2>1
  <2>3. kind[a] = "once" /\ pc[a] = "emit" => pos[a] \in Cut(a, running)
    BY DEF Cut
  <2>4. born' = born
    BY <1>2 DEF Remembered
  <2>5. QED BY <2>2, <2>3, <2>4
<1>3. QED BY <1>1, <1>2

\* The end of a scope: what its agents have in keys and in failures keeps its type.
LEMMA KeysAtTheEndType ==
    ASSUME TypeOK, Forgotten \/ Remembered
    PROVE  /\ keys' \in [Agents -> SUBSET Nat] /\ failed' \in [Agents -> SUBSET Nat]
           /\ born' \in Nat
<1>1. CASE Forgotten
  <2>1. Len(log) \in Nat
    BY DEF TypeOK
  <2>2. QED BY <1>1, <2>1 DEF Forgotten, TypeOK
<1>2. CASE Remembered
  <2>1. PICK running \in SUBSET Agents :
            /\ keys' = [a \in Agents |-> keys[a] \cup Cut(a, running)]
            /\ failed' = [a \in Agents |-> failed[a] \cup Cut(a, running)]
    BY <1>2 DEF Remembered
  <2>2. \A a \in Agents : Cut(a, running) \in SUBSET Nat
    <3>1. \A a \in Agents : pos[a] \in Nat /\ Ahead(a) \subseteq Nat
      BY DEF TypeOK, Ahead
    <3>2. QED BY <3>1 DEF Cut
  <2>3. QED BY <1>2, <2>1, <2>2 DEF TypeOK, Remembered
<1>3. QED BY <1>1, <1>2

\* The end of a scope: every cell that it held is reset.
LEMMA GoneType ==
    ASSUME TypeOK, Gone
    PROVE  /\ up' \in BOOLEAN
           /\ pc' \in [Agents -> {"off", "subscribe", "wait", "emit", "mark", "flush"}]
           /\ pos' \in [Agents -> Nat] /\ pending' \in [Agents -> Nat] /\ count' \in [Agents -> Nat]
           /\ flush' \in [Fibers -> [pc : {"idle", "persist", "write"},
                                     agent : Agents \cup {Nobody},
                                     map : [Agents -> Cursor] \cup {Empty}]]
           /\ emitted' \in [Agents -> Nat \cup {-1}] /\ beat' \in [Agents -> Nat \cup {-1}]
           /\ kind' \in [Agents -> Behaviour] /\ state' \in [Agents -> Seq(Nat)]
<1>1. NoFlush \in [pc : {"idle", "persist", "write"}, agent : Agents \cup {Nobody},
                   map : [Agents -> Cursor] \cup {Empty}]
  BY DEF NoFlush
<1>2. <<>> \in Seq(Nat)
  OBVIOUS
<1>3. QED BY <1>1, <1>2 DEF Gone, TypeOK

\* A step keeps the type invariant.
LEMMA TypeStep ==
    ASSUME SupervisorAssumption, TypeOK, KindOK, [Next]_vars
    PROVE  TypeOK' /\ KindOK'
<1> DEFINE F == [pc : {"idle", "persist", "write"}, agent : Agents \cup {Nobody},
                 map : [Agents -> Cursor] \cup {Empty}]
<1>1. CASE UNCHANGED vars
  BY <1>1 DEF TypeOK, KindOK, vars, own
<1>2. CASE Arrive
  <2>1. [kind |-> External, by |-> Nobody, cause |-> 0] \in Origin
    BY DEF Origin
  <2>2. log' \in Seq(Origin)
    BY <1>2, <2>1 DEF Arrive, TypeOK
  <2>3. QED BY <1>2, <2>2 DEF Arrive, TypeOK, KindOK, own
<1>3. CASE Start
  <2>1. Unknown \in [Agents -> Cursor]
    BY DEF Unknown, Cursor
  <2>2. cur' \in [Agents -> Cursor] /\ start' = cur'
    BY <1>3, <2>1 DEF Start, TypeOK
  <2>3. QED BY <1>3, <2>2 DEF Start, TypeOK, KindOK, own
<1>4. CASE Stop
  <2>1. /\ Gone /\ (Forgotten \/ Remembered) /\ Strikes("kill")
        /\ UNCHANGED <<log, start, floor, handled, torn>>
    BY <1>4 DEF Stop
  <2>2. cur' \in [Agents -> Cursor]
    BY <1>4 DEF Stop, TypeOK, Cursor
  <2>3. disk' \in [Agents -> Cursor] \cup {Empty}
    BY <1>4, <2>2 DEF Stop, TypeOK
  <2>4. faults' \in 0 .. MaxFaults[kind]
    BY <2>1 DEF Strikes, SupervisorAssumption, TypeOK, KindOK
  <2>5. kind' = kind
    BY <2>1 DEF Gone
  <2>6. QED BY <2>1, <2>2, <2>3, <2>4, <2>5, GoneType, KeysAtTheEndType DEF TypeOK, KindOK
<1>5. CASE Kill
  <2>1. Gone /\ Forgotten /\ UNCHANGED <<log, disk, start, floor, handled>> /\ Strikes("kill")
    BY <1>5 DEF Kill
  <2>2. cur' \in [Agents -> Cursor] /\ torn' \in BOOLEAN
    BY <1>5 DEF Kill, TypeOK, Cursor, Unknown
  <2>4. faults' \in 0 .. MaxFaults[kind]
    BY <2>1 DEF Strikes, SupervisorAssumption, TypeOK, KindOK
  <2>5. kind' = kind
    BY <2>1 DEF Gone
  <2>6. QED BY <2>1, <2>2, <2>4, <2>5, GoneType, KeysAtTheEndType DEF TypeOK, KindOK
<1>6. CASE Heartbeat
  BY <1>6 DEF Heartbeat, TypeOK, KindOK, own
<1>7. CASE HeartbeatFails
  BY <1>7 DEF HeartbeatFails, Strikes, TypeOK, KindOK, own, SupervisorAssumption
<1>8. CASE \E a \in Agents : Subscribe(a)
  <2>1. PICK a \in Agents : SubscribeAt(a, StartAt(a))
    BY <1>8 DEF Subscribe
  <2>2. StartAt(a) \in Nat
    BY SupervisorAssumption DEF StartAt, TypeOK, Cursor
  <2>3. QED BY <2>1, <2>2 DEF SubscribeAt, TypeOK, KindOK, own
<1>9. CASE \E a \in Agents : Handle(a)
  <2>0. PICK a \in Agents : Handle(a)
    BY <1>9
  <2>1. PICK i \in Ahead(a) : HandleThen(a, i) /\ UNCHANGED pending
    BY <2>0 DEF Handle
  <2>2. i \in Nat
    BY DEF Ahead, TypeOK
  <2>3. pos' \in [Agents -> Nat] /\ handled' \in [Agents -> SUBSET Nat]
    BY <2>1, <2>2 DEF HandleThen, TypeOK
  <2>4. keys' \in [Agents -> SUBSET Nat]
    BY <2>1, <2>2 DEF HandleThen, TypeOK
  <2>5. state' \in [Agents -> Seq(Nat)]
    <3>1. state[a] \in Seq(Nat)
      BY DEF TypeOK
    <3>2. Append(state[a], i) \in Seq(Nat)
      BY <3>1, <2>2
    <3>3. state' = IF kind[a] = "reduce" THEN [state EXCEPT ![a] = Append(state[a], i)] ELSE state
      BY <2>1 DEF HandleThen
    <3>4. state \in [Agents -> Seq(Nat)]
      BY DEF TypeOK
    <3>5. QED BY <3>2, <3>3, <3>4
  <2>6. pc' \in [Agents -> {"off", "subscribe", "wait", "emit", "mark", "flush"}]
    BY <2>1 DEF HandleThen, TypeOK
  <2>7. QED BY <2>1, <2>3, <2>4, <2>5, <2>6 DEF HandleThen, TypeOK, KindOK
<1>10. CASE \E a \in Agents : Retry(a)
  <2>1. PICK a \in Agents : Retry(a)
    BY <1>10
  <2>2. /\ keys' \in [Agents -> SUBSET Nat] /\ failed' \in [Agents -> SUBSET Nat]
        /\ faults' \in 0 .. MaxFaults[kind]
    BY <2>1, FailsType
  <2>3. pc' \in [Agents -> {"off", "subscribe", "wait", "emit", "mark", "flush"}]
    BY <2>1 DEF Retry, TypeOK
  <2>4. UNCHANGED <<log, up, cur, disk, start, pos, pending, count, flush, emitted, beat, floor,
                    handled, torn, kind, state, born>>
    BY <2>1 DEF Retry, Fails
  <2>5. QED BY <2>2, <2>3, <2>4 DEF TypeOK, KindOK
<1>11. CASE \E a \in Agents : Emit(a)
  <2>1. PICK a \in Agents : Emit(a)
    BY <1>11
  <2>2. [kind |-> Out, by |-> a, cause |-> pos[a]] \in Origin
    BY DEF Origin, TypeOK
  <2>3. log' \in Seq(Origin)
    BY <2>1, <2>2 DEF Emit, TypeOK
  <2>4. QED BY <2>1, <2>3 DEF Emit, TypeOK, KindOK, own
<1>12. CASE \E a \in Agents : Mark(a)
  <2>1. PICK a \in Agents : Mark(a)
    BY <1>12
  <2>2. pending' \in [Agents -> Nat] /\ count' \in [Agents -> Nat]
    BY <2>1 DEF Mark, TypeOK
  <2>3. pc' \in [Agents -> {"off", "subscribe", "wait", "emit", "mark", "flush"}]
    BY <2>1 DEF Mark, TypeOK
  <2>4. QED BY <2>1, <2>2, <2>3 DEF Mark, TypeOK, KindOK, own
<1>13. CASE \E x \in Fibers, a \in Agents : Flush(x, a)
  <2>1. PICK x \in Fibers, a \in Agents : Flush(x, a)
    BY <1>13
  <2>2. [NoFlush EXCEPT !.pc = "persist", !.agent = a] \in F
    BY DEF NoFlush
  <2>3. flush' \in [Fibers -> F]
    BY <2>1, <2>2 DEF Flush, TypeOK
  <2>4. cur' \in [Agents -> Cursor]
    BY <2>1 DEF Flush, TypeOK, Cursor
  <2>5. QED BY <2>1, <2>3, <2>4 DEF Flush, TypeOK, KindOK, own
<1>14. CASE \E x \in Fibers : PersistOpen(x)
  <2>1. PICK x \in Fibers : PersistOpen(x)
    BY <1>14
  <2>2. [flush[x] EXCEPT !.pc = "write", !.map = cur] \in F
    <3>1. flush[x] \in F /\ cur \in [Agents -> Cursor]
      BY DEF TypeOK
    <3>2. QED BY <3>1
  <2>3. flush' = [flush EXCEPT ![x] = [flush[x] EXCEPT !.pc = "write", !.map = cur]]
    BY <2>1 DEF PersistOpen
  <2>4. flush' \in [Fibers -> F]
    BY <2>2, <2>3 DEF TypeOK
  <2>5. QED BY <2>1, <2>4 DEF PersistOpen, TypeOK, KindOK, own
<1>15. CASE \E x \in Fibers : PersistWrite(x)
  <2>1. PICK x \in Fibers : PersistWrite(x)
    BY <1>15
  <2>2. NoFlush \in F
    BY DEF NoFlush
  <2>3. flush' \in [Fibers -> F]
    BY <2>1, <2>2 DEF PersistWrite, TypeOK
  <2>4. flush[x].map \in [Agents -> Cursor] \cup {Empty}
    BY DEF TypeOK
  <2>5. disk' \in [Agents -> Cursor] \cup {Empty}
    BY <2>1, <2>4 DEF PersistWrite
  <2>6. count' \in [Agents -> Nat]
    BY <2>1 DEF PersistWrite, TypeOK
  <2>7. pc' \in [Agents -> {"off", "subscribe", "wait", "emit", "mark", "flush"}]
    BY <2>1 DEF PersistWrite, TypeOK
  <2>8. QED BY <2>1, <2>3, <2>5, <2>6, <2>7 DEF PersistWrite, TypeOK, KindOK, own
<1>16. QED
  BY <1>1, <1>2, <1>3, <1>4, <1>5, <1>6, <1>7, <1>8, <1>9, <1>10, <1>11, <1>12, <1>13,
     <1>14, <1>15 DEF Next

\* The type invariant holds of the first state.
LEMMA TypeInit ==
    ASSUME SupervisorAssumption, Init
    PROVE  TypeOK /\ KindOK
<1>1. NoFlush \in [pc : {"idle", "persist", "write"}, agent : Agents \cup {Nobody},
                   map : [Agents -> Cursor] \cup {Empty}]
  BY DEF NoFlush
<1>2. flush \in [Fibers -> [pc : {"idle", "persist", "write"}, agent : Agents \cup {Nobody},
                            map : [Agents -> Cursor] \cup {Empty}]]
  BY <1>1 DEF Init
<1>3. kind \in [Agents -> Behaviour] /\ kind \in Kinds /\ faults \in 0 .. MaxFaults[kind]
  BY DEF Init, SupervisorAssumption
<1>4. log \in Seq(Origin) /\ state \in [Agents -> Seq(Nat)]
  BY DEF Init
<1>5. cur \in [Agents -> Cursor] /\ disk \in [Agents -> Cursor] \cup {Empty}
      /\ start \in [Agents -> Cursor]
  BY DEF Init, SupervisorAssumption, Cursor
<1>6. QED BY <1>2, <1>3, <1>4, <1>5 DEF Init, TypeOK, KindOK
----------------------------------------------------------------------------
\* Settled and UpTo of the next state.
SettledNext(a, i) ==
    \/ kind'[a] = "once" /\ i \in failed'[a]
    \/ /\ i \in handled'[a]
       /\ a \in Emitters => \E k \in DOMAIN log' : log'[k].by = a /\ log'[k].cause = i

UpToNext(a, c) ==
    c \in Nat =>
        c <= Len(log') /\ \A i \in 1 .. c : log'[i].kind \in On[a] => SettledNext(a, i)

\* What a sequence holds after an append.
LEMMA AppendedAt ==
    ASSUME NEW S, NEW s \in Seq(S), NEW e \in S
    PROVE  LET t == Append(s, e)
           IN  /\ Len(s) + 1 \in DOMAIN t /\ t[Len(s) + 1] = e
               /\ \A n \in DOMAIN t : \/ n \in DOMAIN s /\ t[n] = s[n]
                                      \/ n = Len(s) + 1 /\ t[n] = e
<1>1. Len(s) \in Nat /\ DOMAIN s = 1 .. Len(s) /\ Len(Append(s, e)) = Len(s) + 1
  OBVIOUS
<1>2. DOMAIN Append(s, e) = 1 .. Len(s) + 1
  BY <1>1
<1>3. \A n \in 1 .. Len(s) : Append(s, e)[n] = s[n]
  BY <1>1
<1>4. Append(s, e)[Len(s) + 1] = e
  BY <1>1
<1>5. QED BY <1>1, <1>2, <1>3, <1>4

\* The log and the histories only grow.
Grows ==
    /\ kind' = kind /\ Len(log) <= Len(log')
    /\ \A i \in DOMAIN log : i \in DOMAIN log' /\ log'[i] = log[i]
    /\ \A a \in Agents : handled[a] \subseteq handled'[a] /\ failed[a] \subseteq failed'[a]

\* Nothing a step does takes an event, a completion or a failure back.
LEMMA StepGrows ==
    ASSUME TypeOK, [Next]_vars
    PROVE  Grows
<1>1. CASE Arrive \/ \E a \in Agents : Emit(a)
  <2>1. PICK e \in Origin : log' = Append(log, e)
    <3>1. [kind |-> External, by |-> Nobody, cause |-> 0] \in Origin
      BY DEF Origin
    <3>2. \A a \in Agents : [kind |-> Out, by |-> a, cause |-> pos[a]] \in Origin
      BY DEF Origin, TypeOK
    <3>3. QED BY <1>1, <3>1, <3>2 DEF Arrive, Emit
  <2>2. UNCHANGED <<kind, handled, failed>>
    BY <1>1 DEF Arrive, Emit, own
  <2>3. QED BY <2>1, <2>2 DEF Grows, TypeOK
<1>2. CASE \E a \in Agents : Handle(a)
  <2>1. PICK a \in Agents : Handle(a)
    BY <1>2
  <2>2. PICK i \in Ahead(a) : HandleThen(a, i)
    BY <2>1 DEF Handle
  <2>3. UNCHANGED <<kind, log, failed>>
    BY <2>2 DEF HandleThen
  <2>4. handled' = handled \/ handled' = [handled EXCEPT ![a] = @ \cup {i}]
    BY <2>2 DEF HandleThen
  <2>5. \A b \in Agents : handled'[b] = handled[b] \/ handled'[b] = handled[b] \cup {i}
    BY <2>4 DEF TypeOK
  <2>6. \A b \in Agents : handled[b] \subseteq handled'[b]
    BY <2>5
  <2>7. QED BY <2>3, <2>6 DEF Grows, TypeOK
<1>3. CASE \E a \in Agents : Retry(a)
  <2>1. PICK a \in Agents : Retry(a)
    BY <1>3
  <2>2. UNCHANGED <<kind, log, handled>>
    BY <2>1 DEF Retry, Fails
  <2>3. \E i : Failing(a, i)
    BY <2>1 DEF Retry, Fails
  <2>4. QED BY <2>2, <2>3 DEF Grows, TypeOK, Failing
<1>4. CASE UNCHANGED <<kind, log, handled, failed>>
  BY <1>4 DEF Grows, TypeOK
<1>5. CASE Stop \/ Kill
  <2>1. UNCHANGED <<kind, log, handled>> /\ (Forgotten \/ Remembered)
    BY <1>5 DEF Stop, Kill, Gone
  <2>2. \A a \in Agents : failed[a] \subseteq failed'[a]
    BY <2>1, KeysAtTheEnd
  <2>3. QED BY <2>1, <2>2 DEF Grows, TypeOK
<1>6. QED
  BY <1>1, <1>2, <1>3, <1>4, <1>5 DEF Next, vars, own, Start, Heartbeat, HeartbeatFails,
     Subscribe, SubscribeAt, Mark, Flush, PersistOpen, PersistWrite

\* What is settled stays settled.
LEMMA SettledStays ==
    ASSUME TypeOK, Grows, NEW a \in Agents
    PROVE  \A i : Settled(a, i) => SettledNext(a, i)
<1> SUFFICES ASSUME NEW i, Settled(a, i)
             PROVE  SettledNext(a, i)
  OBVIOUS
<1>1. CASE i \in Excused(a)
  BY <1>1 DEF Excused, Grows, SettledNext
<1>2. CASE i \in handled[a] /\ (a \in Emitters => Emissions(a, i) # {})
  <2>1. i \in handled'[a]
    BY <1>2 DEF Grows
  <2>2. ASSUME a \in Emitters
        PROVE  \E k \in DOMAIN log' : log'[k].by = a /\ log'[k].cause = i
    <3>1. PICK k \in DOMAIN log : log[k].by = a /\ log[k].cause = i
      BY <1>2, <2>2 DEF Emissions
    <3>2. QED BY <3>1 DEF Grows
  <2>3. QED BY <2>1, <2>2 DEF SettledNext
<1>3. QED BY <1>1, <1>2 DEF Settled

\* A position up to which all is settled stays one.
LEMMA UpToStays ==
    ASSUME TypeOK, TypeOK', Grows, NEW a \in Agents
    PROVE  \A c : UpTo(a, c) => UpToNext(a, c)
<1> SUFFICES ASSUME NEW c, UpTo(a, c), c \in Nat
             PROVE  UpToNext(a, c)
  BY DEF UpToNext
<1>1. c <= Len(log) /\ Len(log) \in Nat /\ Len(log') \in Nat
  BY DEF UpTo, TypeOK
<1>2. c <= Len(log')
  BY <1>1 DEF Grows
<1>3. ASSUME NEW i \in 1 .. c, log'[i].kind \in On[a]
      PROVE  SettledNext(a, i)
  <2>1. i \in DOMAIN log
    BY <1>1 DEF TypeOK
  <2>2. Wanted(a, i)
    BY <1>3, <2>1 DEF Wanted, Grows
  <2>3. Settled(a, i)
    BY <2>2 DEF UpTo
  <2>4. QED BY <2>3, SettledStays
<1>4. QED BY <1>2, <1>3 DEF UpToNext

\* A flush under way knows its agent, and what it writes.
LEMMA FlushStep ==
    ASSUME SupervisorAssumption, TypeOK, TypeOK', FlushInv, FiberInv, [Next]_vars
    PROVE  FlushInv'
<1>1. CASE UNCHANGED <<flush, up, pending, torn, disk>>
  BY <1>1 DEF FlushInv
<1>2. CASE Start
  BY <1>2 DEF Start, FlushInv, TypeOK
<1>3. CASE Stop
  <2>1. \A x \in Fibers : flush'[x].pc = "idle"
    BY <1>3 DEF Stop, Gone, NoFlush
  <2>2. ASSUME ~torn', disk' = Empty
        PROVE  FALSE
    <3>1. cur' \in [Agents -> Cursor] /\ torn' = torn
      BY <1>3 DEF TypeOK, Stop
    <3>2. cur' # Empty
      BY <3>1 DEF SupervisorAssumption, Cursor
    <3>3. \A a \in Agents : pending[a] = 0
      BY <1>3, <2>2, <3>2 DEF Stop
    <3>4. disk = Empty
      BY <1>3, <2>2, <3>3 DEF Stop
    <3>5. PICK x \in Fibers : flush[x].pc = "write"
      BY <2>2, <3>1, <3>4 DEF FlushInv
    <3>6. QED BY <3>3, <3>5 DEF FlushInv
  <2>3. QED BY <2>1, <2>2 DEF FlushInv
<1>4. CASE Kill
  <2>1. \A x \in Fibers : flush'[x].pc = "idle"
    BY <1>4 DEF Kill, Gone, NoFlush
  <2>2. torn' \/ disk' # Empty
    BY <1>4 DEF Kill
  <2>3. QED BY <2>1, <2>2 DEF FlushInv
<1>5. CASE \E a \in Agents : Mark(a)
  <2>1. PICK a \in Agents : Mark(a)
    BY <1>5
  <2>2. pos[a] # 0
    BY <2>1 DEF Mark, FiberInv, TypeOK
  <2>3. \A b \in Agents : pending[b] # 0 => pending'[b] # 0
    BY <2>1, <2>2 DEF Mark, TypeOK
  <2>4. UNCHANGED <<flush, up, torn, disk>>
    BY <2>1 DEF Mark
  <2>5. QED BY <2>3, <2>4 DEF FlushInv
<1>6. CASE \E x \in Fibers, a \in Agents : Flush(x, a)
  <2>1. PICK x \in Fibers, a \in Agents : Flush(x, a)
    BY <1>6
  <2>2. flush'[x].pc = "persist" /\ flush'[x].agent = a
    BY <2>1 DEF Flush, TypeOK, NoFlush
  <2>3. \A y \in Fibers \ {x} : flush'[y] = flush[y]
    BY <2>1 DEF Flush, TypeOK
  <2>4. UNCHANGED <<up, pending, torn, disk>> /\ up /\ pending[a] # 0 /\ flush[x].pc = "idle"
    BY <2>1 DEF Flush
  <2>5. QED BY <2>2, <2>3, <2>4 DEF FlushInv
<1>7. CASE \E x \in Fibers : PersistOpen(x)
  <2>1. PICK x \in Fibers : PersistOpen(x)
    BY <1>7
  <2>2. flush[x] \in [pc : {"idle", "persist", "write"}, agent : Agents \cup {Nobody},
                      map : [Agents -> Cursor] \cup {Empty}]
    BY DEF TypeOK
  <2>3. flush'[x].pc = "write" /\ flush'[x].agent = flush[x].agent /\ flush'[x].map = cur
    BY <2>1, <2>2 DEF PersistOpen, TypeOK
  <2>4. \A y \in Fibers \ {x} : flush'[y] = flush[y]
    BY <2>1 DEF PersistOpen, TypeOK
  <2>5. UNCHANGED <<up, pending, torn>> /\ flush[x].pc = "persist"
    BY <2>1 DEF PersistOpen
  <2>6. cur \in [Agents -> Cursor]
    BY DEF TypeOK
  <2>7. QED BY <2>3, <2>4, <2>5, <2>6 DEF FlushInv
<1>8. CASE \E x \in Fibers : PersistWrite(x)
  <2>1. PICK x \in Fibers : PersistWrite(x)
    BY <1>8
  <2>2. flush'[x].pc = "idle"
    BY <2>1 DEF PersistWrite, TypeOK, NoFlush
  <2>3. \A y \in Fibers \ {x} : flush'[y] = flush[y]
    BY <2>1 DEF PersistWrite, TypeOK
  <2>4. disk' \in [Agents -> Cursor] /\ UNCHANGED <<up, pending, torn>>
    BY <2>1 DEF PersistWrite, FlushInv
  <2>5. disk' # Empty
    BY <2>4 DEF SupervisorAssumption, Cursor
  <2>6. QED BY <2>2, <2>3, <2>4, <2>5 DEF FlushInv
<1>9. QED
  BY <1>1, <1>2, <1>3, <1>4, <1>5, <1>6, <1>7, <1>8 DEF Next, vars, own, Arrive, Heartbeat,
     HeartbeatFails, Subscribe, SubscribeAt, Handle, HandleThen, Retry, Fails, Emit

\* A fiber stays where its flush needs it, and between handler and mark at its event.
LEMMA FiberStep ==
    ASSUME SupervisorAssumption, TypeOK, TypeOK', FlushInv, FiberInv, [Next]_vars
    PROVE  FiberInv'
<1> SUFFICES ASSUME NEW b \in Agents
             PROVE  /\ pc'[b] # "off" => up'
                    /\ flush'[b].pc # "idle" => pc'[b] = "flush"
                    /\ pc'[b] \in {"emit", "mark"} =>
                         pos'[b] \in DOMAIN log' /\ (kind'[b] = "once" => pos'[b] \in keys'[b])
  BY DEF FiberInv
<1>0. kind' = kind /\ \A i \in DOMAIN log : i \in DOMAIN log'
  BY StepGrows DEF Grows
<1>f. b \in Fibers
  BY DEF Fibers
<1>1. ASSUME up' = up, flush'[b] = flush[b], pc'[b] = pc[b], pos'[b] = pos[b], keys'[b] = keys[b]
      PROVE  /\ pc'[b] # "off" => up'
             /\ flush'[b].pc # "idle" => pc'[b] = "flush"
             /\ pc'[b] \in {"emit", "mark"} =>
                  pos'[b] \in DOMAIN log' /\ (kind'[b] = "once" => pos'[b] \in keys'[b])
  BY <1>0, <1>1 DEF FiberInv
<1>2. CASE Start
  <2>1. flush[b].pc = "idle" /\ flush' = flush /\ up'
    BY <1>2, <1>f DEF Start, FlushInv
  <2>2. pc'[b] \in {"off", "subscribe"}
    BY <1>2 DEF Start
  <2>3. QED BY <2>1, <2>2
<1>3. CASE Stop \/ Kill
  BY <1>3, <1>f DEF Stop, Kill, Gone, NoFlush
<1>4. CASE \E a \in Agents : Subscribe(a)
  <2>1. PICK a \in Agents : SubscribeAt(a, StartAt(a))
    BY <1>4 DEF Subscribe
  <2>2. UNCHANGED <<up, flush, keys>> /\ pc[a] = "subscribe" /\ pc'[a] = "wait"
    BY <2>1 DEF SubscribeAt, TypeOK, own
  <2>3. b # a => pc'[b] = pc[b] /\ pos'[b] = pos[b]
    BY <2>1 DEF SubscribeAt, TypeOK
  <2>4. QED BY <1>1, <2>2, <2>3 DEF FiberInv
<1>5. CASE \E a \in Agents : Handle(a)
  <2>1. PICK a \in Agents : Handle(a)
    BY <1>5
  <2>2. PICK i \in Ahead(a) : HandleThen(a, i)
    BY <2>1 DEF Handle
  <2>3. i \in DOMAIN log
    <3>1. pos[a] \in Nat /\ Len(log) \in Nat /\ DOMAIN log = 1 .. Len(log)
      BY DEF TypeOK
    <3>2. i \in pos[a] + 1 .. Len(log)
      BY DEF Ahead
    <3>3. QED BY <3>1, <3>2
  <2>4. b # a => pos'[b] = pos[b] /\ pc'[b] = pc[b] /\ keys'[b] = keys[b]
    BY <2>2 DEF HandleThen, TypeOK
  <2>5. kind[a] = "once" => i \in keys'[a]
    BY <2>2 DEF HandleThen, TypeOK
  <2>6. UNCHANGED <<up, flush, log>> /\ pc[a] = "wait" /\ pos'[a] = i
    BY <2>2 DEF HandleThen, TypeOK
  <2>7. QED BY <1>0, <1>1, <2>3, <2>4, <2>5, <2>6 DEF FiberInv
<1>6. CASE \E a \in Agents : Retry(a)
  <2>1. PICK a \in Agents : Retry(a)
    BY <1>6
  <2>2. pc'[a] = "subscribe" /\ (b # a => pc'[b] = pc[b])
    BY <2>1 DEF Retry, TypeOK
  <2>3. b # a => keys'[b] = keys[b]
    BY <2>1 DEF Retry, Fails, TypeOK
  <2>4. UNCHANGED <<up, flush, pos>> /\ pc[a] \in {"wait", "emit"}
    BY <2>1 DEF Retry, Fails
  <2>5. QED BY <1>1, <2>2, <2>3, <2>4 DEF FiberInv
<1>7. CASE \E a \in Agents : Emit(a) \/ Mark(a)
  <2>1. PICK a \in Agents : Emit(a) \/ Mark(a)
    BY <1>7
  <2>2. UNCHANGED <<up, flush, pos, keys>> /\ pc[a] \in {"emit", "mark"}
    BY <2>1 DEF Emit, Mark, own
  <2>3. b # a => pc'[b] = pc[b]
    BY <2>1 DEF Emit, Mark, TypeOK
  <2>4. CASE b = a
    BY <1>0, <2>2, <2>4 DEF FiberInv
  <2>5. QED BY <1>1, <2>2, <2>3, <2>4
<1>8. CASE \E x \in Fibers : (\E a \in Agents : Flush(x, a)) \/ PersistOpen(x)
  <2>1. PICK x \in Fibers : (\E a \in Agents : Flush(x, a)) \/ PersistOpen(x)
    BY <1>8
  <2>2. UNCHANGED <<up, pc, pos, keys>>
    BY <2>1 DEF Flush, PersistOpen, own
  <2>3. b # x => flush'[b] = flush[b]
    BY <2>1, <1>f DEF Flush, PersistOpen, TypeOK
  <2>4. CASE b = x
    <3>1. pc[b] = "flush"
      BY <2>1, <2>4 DEF Flush, PersistOpen, FiberInv, SupervisorAssumption
    <3>2. QED BY <2>2, <3>1 DEF FiberInv
  <2>5. QED BY <1>1, <2>2, <2>3, <2>4
<1>9. CASE \E x \in Fibers : PersistWrite(x)
  <2>1. PICK x \in Fibers : PersistWrite(x)
    BY <1>9
  <2>2. UNCHANGED <<up, pos, keys>> /\ flush[x].pc = "write"
    BY <2>1 DEF PersistWrite, own
  <2>3. b # x => flush'[b] = flush[b] /\ pc'[b] = pc[b]
    BY <2>1, <1>f DEF PersistWrite, TypeOK
  <2>4. CASE b = x
    <3>1. flush'[b].pc = "idle" /\ pc'[b] = "wait"
      BY <1>f, <2>1, <2>4 DEF PersistWrite, TypeOK, NoFlush, SupervisorAssumption
    <3>2. pc[b] = "flush"
      BY <2>2, <2>4 DEF FiberInv
    <3>3. QED BY <2>2, <3>1, <3>2 DEF FiberInv
  <2>5. QED BY <1>1, <2>2, <2>3, <2>4
<1>10. CASE UNCHANGED <<up, flush, pc, pos, keys>>
  BY <1>1, <1>10
<1>11. QED
  BY <1>2, <1>3, <1>4, <1>5, <1>6, <1>7, <1>8, <1>9, <1>10 DEF Next, vars, own, Arrive,
     Heartbeat, HeartbeatFails

\* Keys and settled events stay in step.
LEMMA KeysStep ==
    ASSUME SupervisorAssumption, TypeOK, TypeOK', FiberInv, KeysInv, [Next]_vars
    PROVE  KeysInv'
<1> SUFFICES ASSUME NEW b \in Agents, kind'[b] = "once", NEW n \in keys'[b]
             PROVE  SettledNext(b, n) \/ (pc'[b] = "emit" /\ pos'[b] = n /\ n \in handled'[b])
  BY DEF KeysInv, Settled, SettledNext, Excused, Emissions
<1>1. Grows
  BY StepGrows
<1>2. kind[b] = "once"
  BY <1>1 DEF Grows
<1>3. ASSUME n \in keys[b], pc'[b] = pc[b], pos'[b] = pos[b]
      PROVE  SettledNext(b, n) \/ (pc'[b] = "emit" /\ pos'[b] = n /\ n \in handled'[b])
  <2>1. CASE Settled(b, n)
    BY <1>1, <2>1, SettledStays
  <2>2. CASE pc[b] = "emit" /\ pos[b] = n /\ n \in handled[b]
    BY <1>1, <1>3, <2>2 DEF Grows
  <2>3. QED BY <1>2, <1>3, <2>1, <2>2 DEF KeysInv
<1>4. ASSUME n \in keys[b], pc[b] # "emit"
      PROVE  SettledNext(b, n)
  BY <1>1, <1>2, <1>4, SettledStays DEF KeysInv
<1>5. CASE UNCHANGED <<pc, pos, keys>>
  BY <1>3, <1>5
<1>6. CASE Start
  <2>1. keys' = keys /\ pos' = pos
    BY <1>6 DEF Start, own
  <2>2. CASE Settled(b, n)
    BY <1>1, <2>2, SettledStays
  <2>3. CASE ~Settled(b, n)
    <3>1. pc[b] = "emit"
      BY <1>2, <2>1, <2>3 DEF KeysInv
    <3>2. QED BY <1>6, <3>1 DEF Start, FiberInv
  <2>4. QED BY <2>2, <2>3
<1>7. CASE Stop \/ Kill
  <2>1. Forgotten \/ Remembered
    BY <1>7 DEF Stop, Kill
  <2>2. /\ n \in keys[b] \/ n \in failed'[b]
        /\ n \in keys[b] /\ kind[b] = "once" /\ pc[b] = "emit" => pos[b] \in failed'[b]
    BY <2>1, KeysAtTheEnd
  <2>3. n \in failed'[b] => SettledNext(b, n)
    BY <1>2, <1>1 DEF SettledNext, Grows
  <2>4. CASE n \in keys[b] /\ Settled(b, n)
    BY <1>1, <2>4, SettledStays
  <2>5. CASE n \in keys[b] /\ pc[b] = "emit" /\ pos[b] = n
    BY <1>2, <2>2, <2>3, <2>5
  <2>6. QED BY <1>2, <2>2, <2>3, <2>4, <2>5 DEF KeysInv
<1>8. CASE \E a \in Agents : Subscribe(a)
  <2>1. PICK a \in Agents : SubscribeAt(a, StartAt(a))
    BY <1>8 DEF Subscribe
  <2>2. keys' = keys /\ pc[a] = "subscribe"
    BY <2>1 DEF SubscribeAt, own
  <2>3. b # a => pc'[b] = pc[b] /\ pos'[b] = pos[b]
    BY <2>1 DEF SubscribeAt, TypeOK
  <2>4. QED BY <1>3, <1>4, <2>2, <2>3
<1>9. CASE \E a \in Agents : Handle(a)
  <2>1. PICK a \in Agents : Handle(a)
    BY <1>9
  <2>2. PICK i \in Ahead(a) : HandleThen(a, i)
    BY <2>1 DEF Handle
  <2>3. b # a => pc'[b] = pc[b] /\ pos'[b] = pos[b] /\ keys'[b] = keys[b]
    BY <2>2 DEF HandleThen, TypeOK
  <2>4. CASE b = a /\ n \in keys[b]
    BY <1>4, <2>2, <2>4 DEF HandleThen
  <2>5. CASE b = a /\ n \notin keys[b]
    <3>1. n = i
      BY <1>2, <2>2, <2>5 DEF HandleThen, TypeOK
    <3>2. Runs(a, i)
      BY <2>5, <3>1 DEF Runs
    <3>3. n \in handled'[b] /\ pos'[b] = n
      BY <2>2, <2>5, <3>1, <3>2 DEF HandleThen, TypeOK
    <3>4. a \in Emitters => pc'[b] = "emit"
      BY <2>2, <2>5, <3>2 DEF HandleThen, TypeOK
    <3>5. QED BY <2>5, <3>3, <3>4 DEF SettledNext
  <2>6. QED BY <1>3, <2>3, <2>4, <2>5
<1>10. CASE \E a \in Agents : Retry(a)
  <2>1. PICK a \in Agents : Retry(a)
    BY <1>10
  <2>2. b # a => pc'[b] = pc[b] /\ keys'[b] = keys[b]
    BY <2>1 DEF Retry, Fails, TypeOK
  <2>3. pos' = pos
    BY <2>1 DEF Retry, Fails
  <2>4. CASE b = a /\ pc[a] = "wait"
    <3>1. PICK i \in Ahead(a) : /\ Failing(a, i)
                               /\ keys' = [keys EXCEPT ![a] = keys[a] \cup {i}]
      BY <1>2, <2>1, <2>4 DEF Retry, Fails
    <3>2. i \in failed'[b]
      BY <1>2, <2>4, <3>1 DEF Failing, TypeOK
    <3>3. n = i \/ n \in keys[b]
      BY <2>4, <3>1 DEF TypeOK
    <3>4. QED BY <1>4, <2>4, <3>2, <3>3 DEF SettledNext
  <2>5. CASE b = a /\ pc[a] = "emit"
    <3>1. Failing(a, pos[a]) /\ keys' = keys
      BY <2>1, <2>5 DEF Retry, Fails, TypeOK
    <3>2. pos[b] \in failed'[b]
      BY <1>2, <2>5, <3>1 DEF Failing, TypeOK
    <3>3. CASE n = pos[b]
      BY <3>2, <3>3 DEF SettledNext
    <3>4. CASE n # pos[b]
      <4>1. Settled(b, n)
        BY <1>2, <3>1, <3>4 DEF KeysInv
      <4>2. QED BY <1>1, <4>1, SettledStays
    <3>5. QED BY <3>3, <3>4
  <2>6. QED BY <1>3, <2>1, <2>2, <2>3, <2>4, <2>5 DEF Retry, Fails
<1>11. CASE \E a \in Agents : Emit(a)
  <2>1. PICK a \in Agents : Emit(a)
    BY <1>11
  <2>2. keys' = keys /\ pos' = pos /\ (b # a => pc'[b] = pc[b])
    BY <2>1 DEF Emit, TypeOK, own
  <2>3. CASE b = a /\ n = pos[a]
    <3>1. n \in handled'[b] \/ Settled(b, n)
      BY <1>1, <1>2, <2>2, <2>3 DEF KeysInv, Grows
    <3>2. log' = Append(log, [kind |-> Out, by |-> a, cause |-> pos[a]])
      BY <2>1 DEF Emit
    <3>3. \E k \in DOMAIN log' : log'[k].by = a /\ log'[k].cause = n
      <4>1. [kind |-> Out, by |-> a, cause |-> pos[a]] \in Origin
        BY DEF Origin, TypeOK
      <4>2. PICK e \in Origin : e = [kind |-> Out, by |-> a, cause |-> pos[a]]
        BY <4>1
      <4>3. Len(log) + 1 \in DOMAIN log' /\ log'[Len(log) + 1] = e
        <5>1. log' = Append(log, e) /\ log \in Seq(Origin)
          BY <3>2, <4>2 DEF TypeOK
        <5>2. QED BY <5>1, AppendedAt
      <4>4. e.by = a /\ e.cause = pos[a]
        BY <4>2
      <4>5. QED BY <2>3, <4>3, <4>4
    <3>4. CASE Settled(b, n)
      BY <1>1, <3>4, SettledStays
    <3>5. QED BY <2>3, <3>1, <3>3, <3>4 DEF SettledNext
  <2>4. CASE b = a /\ n # pos[a]
    <3>1. Settled(b, n)
      BY <1>2, <2>2, <2>4 DEF KeysInv
    <3>2. QED BY <1>1, <3>1, SettledStays
  <2>5. QED BY <1>3, <2>2, <2>3, <2>4
<1>12. CASE \E a \in Agents : Mark(a)
  <2>1. PICK a \in Agents : Mark(a)
    BY <1>12
  <2>2. keys' = keys /\ pos' = pos /\ pc[a] = "mark" /\ (b # a => pc'[b] = pc[b])
    BY <2>1 DEF Mark, TypeOK, own
  <2>3. QED BY <1>3, <1>4, <2>2
<1>13. CASE \E x \in Fibers : PersistWrite(x)
  <2>1. PICK x \in Fibers : PersistWrite(x)
    BY <1>13
  <2>2. keys' = keys /\ pos' = pos
    BY <2>1 DEF PersistWrite, own
  <2>3. b # x => pc'[b] = pc[b]
    BY <2>1 DEF PersistWrite, TypeOK
  <2>4. b = x => pc[b] = "flush"
    BY <2>1 DEF PersistWrite, FiberInv
  <2>5. QED BY <1>3, <1>4, <2>2, <2>3, <2>4
<1>14. QED
  BY <1>5, <1>6, <1>7, <1>8, <1>9, <1>10, <1>11, <1>12, <1>13 DEF Next, vars, own, Arrive,
     Heartbeat, HeartbeatFails, Flush, PersistOpen

\* A step appends at most once what an event made a handler under withIdempotence return.
LEMMA OnceStep ==
    ASSUME SupervisorAssumption, TypeOK, TypeOK', FiberInv, OnceInv, [Next]_vars
    PROVE  OnceInv'
<1> SUFFICES ASSUME NEW b \in Agents, kind'[b] = "once", NEW k \in DOMAIN log',
                    log'[k].by = b, k > born'
             PROVE  /\ log'[k].cause \in keys'[b]
                    /\ pc'[b] = "emit" => log'[k].cause # pos'[b]
                    /\ \A n \in DOMAIN log' :
                          log'[n].by = b /\ n > born' /\ log'[n].cause = log'[k].cause => n = k
  BY DEF OnceInv
<1>1. kind[b] = "once"
  BY StepGrows DEF Grows
<1>2. ASSUME log' = log, born' = born, keys[b] \subseteq keys'[b],
             pc'[b] = "emit" => pc[b] = "emit" /\ pos'[b] = pos[b]
      PROVE  /\ log'[k].cause \in keys'[b]
             /\ pc'[b] = "emit" => log'[k].cause # pos'[b]
             /\ \A n \in DOMAIN log' :
                   log'[n].by = b /\ n > born' /\ log'[n].cause = log'[k].cause => n = k
  BY <1>1, <1>2 DEF OnceInv
<1>3. CASE UNCHANGED <<log, born, keys, pc, pos>>
  BY <1>2, <1>3
<1>4. CASE Stop \/ Kill
  <2>1. log' = log /\ pc'[b] = "off" /\ (Forgotten \/ Remembered)
    BY <1>4 DEF Stop, Kill, Gone
  <2>2. born' = Len(log) \/ (born' = born /\ keys[b] \subseteq keys'[b])
    BY <1>1, <2>1, KeysAtTheEnd
  <2>3. k <= Len(log) /\ k \in Int
    <3>1. log \in Seq(Origin) /\ k \in DOMAIN log
      BY <2>1 DEF TypeOK
    <3>2. QED BY <3>1
  <2>4. CASE born' = Len(log)
    <3>1. k <= born' /\ born' \in Int
      BY <2>1, <2>3, <2>4 DEF TypeOK
    <3>2. QED BY <2>3, <3>1
  <2>5. CASE born' = born /\ keys[b] \subseteq keys'[b]
    BY <1>2, <2>1, <2>5
  <2>6. QED BY <2>2, <2>4, <2>5
<1>5. CASE Start \/ (\E a \in Agents : Subscribe(a) \/ Retry(a) \/ Mark(a))
          \/ \E x \in Fibers : PersistWrite(x)
  <2>1. log' = log /\ born' = born
    BY <1>5 DEF Start, Subscribe, SubscribeAt, Retry, Fails, Mark, PersistWrite, own
  <2>2. keys[b] \subseteq keys'[b]
    <3>1. CASE keys' = keys
      BY <3>1
    <3>2. CASE \E a \in Agents : Retry(a)
      <4>1. PICK a \in Agents : Retry(a)
        BY <3>2
      <4>2. keys' = [keys EXCEPT ![a] = keys[a]] \/
            \E i \in Ahead(a) : keys' = [keys EXCEPT ![a] = IF kind[a] = "once"
                                                            THEN keys[a] \cup {i} ELSE keys[a]]
        BY <4>1 DEF Retry, Fails
      <4>3. CASE keys' = [keys EXCEPT ![a] = keys[a]]
        BY <4>3 DEF TypeOK
      <4>4. ASSUME NEW i, keys' = [keys EXCEPT ![a] = IF kind[a] = "once"
                                                      THEN keys[a] \cup {i} ELSE keys[a]]
            PROVE  keys[b] \subseteq keys'[b]
        <5>1. keys'[b] = keys[b] \/ keys'[b] = keys[b] \cup {i}
          BY <4>4 DEF TypeOK
        <5>2. QED BY <5>1
      <4>5. QED BY <4>2, <4>3, <4>4
    <3>3. QED
      BY <1>5, <3>1, <3>2 DEF Start, Subscribe, SubscribeAt, Mark, PersistWrite, own
  <2>3. pc'[b] = "emit" => pc[b] = "emit" /\ pos'[b] = pos[b]
    <3>1. CASE Start
      BY <3>1 DEF Start
    <3>2. CASE \E a \in Agents : Subscribe(a)
      BY <3>2 DEF Subscribe, SubscribeAt, TypeOK
    <3>3. CASE \E a \in Agents : Retry(a)
      BY <3>3 DEF Retry, Fails, TypeOK
    <3>4. CASE \E a \in Agents : Mark(a)
      BY <3>4 DEF Mark, TypeOK
    <3>5. CASE \E x \in Fibers : PersistWrite(x)
      BY <3>5 DEF PersistWrite, TypeOK
    <3>6. QED BY <1>5, <3>1, <3>2, <3>3, <3>4, <3>5
  <2>4. QED BY <1>2, <2>1, <2>2, <2>3
<1>6. CASE \E a \in Agents : Handle(a)
  <2>1. PICK a \in Agents : Handle(a)
    BY <1>6
  <2>2. PICK i \in Ahead(a) : HandleThen(a, i)
    BY <2>1 DEF Handle
  <2>3. log' = log /\ born' = born
    BY <2>2 DEF HandleThen
  <2>4. keys[b] \subseteq keys'[b]
    <3>1. keys' = keys \/ keys' = [keys EXCEPT ![a] = keys[a] \cup {i}]
      BY <2>2 DEF HandleThen
    <3>2. keys'[b] = keys[b] \/ keys'[b] = keys[b] \cup {i}
      BY <3>1 DEF TypeOK
    <3>3. QED BY <3>2
  <2>5. CASE b # a
    <3>1. pc'[b] = pc[b] /\ pos'[b] = pos[b]
      BY <2>2, <2>5 DEF HandleThen, TypeOK
    <3>2. QED BY <1>2, <2>3, <2>4, <3>1
  <2>6. CASE b = a
    <3>1. pos'[b] = i /\ (pc'[b] = "emit" => i \notin keys[b])
      BY <1>1, <2>2, <2>6 DEF HandleThen, Runs, TypeOK
    <3>2. log[k].cause \in keys[b]
      BY <1>1, <2>3 DEF OnceInv
    <3>3. QED BY <1>1, <2>3, <2>4, <3>1, <3>2 DEF OnceInv
  <2>7. QED BY <2>5, <2>6
<1>7. CASE Arrive
  <2>1. [kind |-> External, by |-> Nobody, cause |-> 0] \in Origin
    BY DEF Origin
  <2>2. PICK e \in Origin : e = [kind |-> External, by |-> Nobody, cause |-> 0]
    BY <2>1
  <2>3. e.by = Nobody /\ log' = Append(log, e) /\ UNCHANGED <<born, keys, pc, pos>>
    BY <1>7, <2>2 DEF Arrive, own
  <2>4. Nobody # b
    BY DEF SupervisorAssumption
  <2>5. \A n \in DOMAIN log' : log'[n].by = b => n \in DOMAIN log /\ log'[n] = log[n]
    BY <2>3, <2>4 DEF TypeOK
  <2>6. QED BY <1>1, <2>3, <2>5 DEF OnceInv
<1>8. CASE \E a \in Agents : Emit(a)
  <2>1. PICK a \in Agents : Emit(a)
    BY <1>8
  <2>2. [kind |-> Out, by |-> a, cause |-> pos[a]] \in Origin
    BY DEF Origin, TypeOK
  <2>3. PICK e \in Origin : e = [kind |-> Out, by |-> a, cause |-> pos[a]]
    BY <2>2
  <2>4. e.by = a /\ e.cause = pos[a] /\ log' = Append(log, e)
        /\ UNCHANGED <<born, keys, pos>> /\ pc[a] = "emit"
    BY <2>1, <2>3 DEF Emit, own
  <2>5. \A n \in DOMAIN log' : (n \in DOMAIN log /\ log'[n] = log[n])
                              \/ (n = Len(log) + 1 /\ log'[n] = e)
    <3>1. log \in Seq(Origin)
      BY DEF TypeOK
    <3>2. QED BY <2>4, <3>1, AppendedAt
  <2>6. CASE b # a
    <3>1. \A n \in DOMAIN log' : log'[n].by = b => n \in DOMAIN log /\ log'[n] = log[n]
      BY <2>4, <2>5, <2>6
    <3>2. pc'[b] = pc[b]
      BY <2>1, <2>6 DEF Emit, TypeOK
    <3>3. QED BY <1>1, <2>4, <3>1, <3>2 DEF OnceInv
  <2>7. CASE b = a
    <3>1. pc'[b] = "mark"
      BY <2>1, <2>7 DEF Emit, TypeOK
    <3>2. pos[a] \in keys[a]
      BY <1>1, <2>4, <2>7 DEF FiberInv
    <3>3. \A n \in DOMAIN log : log[n].by = a /\ n > born => log[n].cause # pos[a]
      BY <1>1, <2>4, <2>7 DEF OnceInv
    <3>4. log'[k].cause \in keys'[b]
      BY <1>1, <2>4, <2>5, <2>7, <3>2 DEF OnceInv
    <3>5. ASSUME NEW n \in DOMAIN log', log'[n].by = b, n > born', log'[n].cause = log'[k].cause
          PROVE  n = k
      <4>1. CASE log'[k] = e /\ k = Len(log) + 1
        BY <2>4, <2>5, <2>7, <3>3, <3>5, <4>1
      <4>2. CASE k \in DOMAIN log /\ log'[k] = log[k]
        <5>1. CASE n = Len(log) + 1 /\ log'[n] = e
          BY <2>4, <2>7, <3>3, <3>5, <4>2, <5>1
        <5>2. CASE n \in DOMAIN log /\ log'[n] = log[n]
          BY <1>1, <2>4, <3>5, <4>2, <5>2 DEF OnceInv
        <5>3. QED BY <2>5, <5>1, <5>2
      <4>3. QED BY <2>5, <4>1, <4>2
    <3>6. QED BY <3>1, <3>4, <3>5
  <2>8. QED BY <2>6, <2>7
<1>9. QED
  BY <1>3, <1>4, <1>5, <1>6, <1>7, <1>8 DEF Next, vars, own, Heartbeat, HeartbeatFails, Flush,
     PersistOpen

\* Only the fiber with the permit writes, and it writes what every earlier flush has set.
LEMMA WriteStep ==
    ASSUME TypeOK, TypeOK', FlushInv, WriteInv, [Next]_vars
    PROVE  WriteInv'
<1>1. CASE UNCHANGED <<flush, up, cur, disk>>
  BY <1>1 DEF WriteInv
<1>2. CASE Start
  <2>1. \A x \in Fibers : flush[x].pc = "idle" /\ flush'[x].pc = "idle"
    BY <1>2 DEF Start, FlushInv
  <2>2. disk' = cur' \/ cur' = Unknown
    BY <1>2 DEF Start
  <2>3. QED BY <2>1, <2>2 DEF WriteInv
<1>3. CASE Stop \/ Kill
  <2>1. up' = FALSE /\ \A x \in Fibers : flush'[x].pc = "idle"
    BY <1>3 DEF Stop, Kill, Gone, NoFlush
  <2>2. QED BY <2>1 DEF WriteInv
<1>4. CASE \E x \in Fibers, a \in Agents : Flush(x, a)
  <2>1. PICK x \in Fibers, a \in Agents : Flush(x, a)
    BY <1>4
  <2>2. flush'[x].pc = "persist"
    BY <2>1 DEF Flush, TypeOK, NoFlush
  <2>3. \A y \in Fibers \ {x} : flush'[y] = flush[y]
    BY <2>1 DEF Flush, TypeOK
  <2>4. QED BY <2>2, <2>3 DEF WriteInv
<1>5. CASE \E x \in Fibers : PersistOpen(x)
  <2>1. PICK x \in Fibers : PersistOpen(x)
    BY <1>5
  <2>2. flush[x] \in [pc : {"idle", "persist", "write"}, agent : Agents \cup {Nobody},
                      map : [Agents -> Cursor] \cup {Empty}]
    BY DEF TypeOK
  <2>3. flush'[x].pc = "write" /\ flush'[x].map = cur /\ cur' = cur
    BY <2>1, <2>2 DEF PersistOpen, TypeOK
  <2>4. \A y \in Fibers \ {x} : flush'[y] = flush[y] /\ flush[y].pc # "write"
    BY <2>1 DEF PersistOpen, TypeOK
  <2>5. QED BY <2>3, <2>4 DEF WriteInv
<1>6. CASE \E x \in Fibers : PersistWrite(x)
  <2>1. PICK x \in Fibers : PersistWrite(x)
    BY <1>6
  <2>2. flush[x].pc = "write" /\ disk' = flush[x].map /\ cur' = cur /\ up' = up
    BY <2>1 DEF PersistWrite
  <2>3. flush'[x].pc = "idle"
    BY <2>1 DEF PersistWrite, TypeOK, NoFlush
  <2>4. \A y \in Fibers \ {x} : flush'[y] = flush[y]
    BY <2>1 DEF PersistWrite, TypeOK
  <2>5. \A y \in Fibers \ {x} : flush[y].pc # "write"
    BY <2>2 DEF WriteInv
  <2>6. ASSUME up', \A y \in Fibers : flush'[y].pc # "persist"
        PROVE  (\A y \in Fibers : flush'[y].pc = "idle") /\ disk' = cur'
    <3>1. \A y \in Fibers : flush[y].pc # "persist"
      BY <2>2, <2>4, <2>6
    <3>2. flush[x].map = cur
      BY <2>2, <2>5, <2>6, <3>1 DEF WriteInv
    <3>3. \A y \in Fibers : flush[y].pc \in {"idle", "persist", "write"}
      BY DEF TypeOK
    <3>4. QED BY <2>2, <2>3, <2>4, <2>5, <3>1, <3>2, <3>3
  <2>7. QED BY <2>3, <2>4, <2>5, <2>6 DEF WriteInv
<1>7. QED
  BY <1>1, <1>2, <1>3, <1>4, <1>5, <1>6 DEF Next, vars, own, Arrive, Heartbeat,
     HeartbeatFails, Subscribe, SubscribeAt, Handle, HandleThen, Retry, Fails, Emit, Mark

\* Every cursor an agent has, in memory, in the file or on its way there, stays behind its work.
LEMMA CursorsStep ==
    ASSUME SupervisorAssumption, TypeOK, TypeOK', FlushInv, PlaceInv, CursorsInv, [Next]_vars
    PROVE  CursorsInv'
<1> SUFFICES ASSUME ~torn', NEW b \in Agents
             PROVE  /\ UpToNext(b, pending'[b]) /\ UpToNext(b, cur'[b]) /\ UpToNext(b, start'[b])
                    /\ start'[b] # Latest /\ (up' => cur'[b] # Latest)
                    /\ disk' # Empty => UpToNext(b, disk'[b]) /\ disk'[b] # Latest
                    /\ \A x \in Fibers : flush'[x].pc = "write" =>
                          UpToNext(b, flush'[x].map[b]) /\ flush'[x].map[b] # Latest
  BY DEF CursorsInv, UpTo, UpToNext, Wanted, Settled, SettledNext, Excused, Emissions
<1>1. ~torn
  BY DEF Next, vars, own, Arrive, Start, Stop, Kill, Heartbeat, HeartbeatFails, Subscribe,
     SubscribeAt, Handle, HandleThen, Retry, Fails, Emit, Mark, Flush, PersistOpen, PersistWrite
<1>2. \A c : UpTo(b, c) => UpToNext(b, c)
  BY StepGrows, UpToStays
<1>3. CASE UNCHANGED <<pending, cur, disk, start, flush, up>>
  BY <1>1, <1>2, <1>3 DEF CursorsInv
<1>4. CASE Start
  <2>1. disk # Empty
    BY <1>1, <1>4 DEF Start, FlushInv
  <2>2. cur' = disk /\ start' = disk /\ UNCHANGED <<pending, disk, flush>>
    BY <1>4, <2>1 DEF Start
  <2>3. QED BY <1>1, <1>2, <2>1, <2>2 DEF CursorsInv
<1>5. CASE Stop \/ Kill
  <2>1. pending'[b] = 0 /\ up' = FALSE /\ start' = start
        /\ \A x \in Fibers : flush'[x].pc = "idle"
    BY <1>5 DEF Stop, Kill, Gone, NoFlush
  <2>2. UpToNext(b, 0)
    BY DEF UpToNext, TypeOK
  <2>3. UpToNext(b, start'[b]) /\ start'[b] # Latest
    BY <1>1, <1>2, <2>1 DEF CursorsInv
  <2>4. CASE Stop
    <3>1. cur'[b] = pending[b] \/ cur'[b] = cur[b]
      BY <2>4 DEF Stop
    <3>2. UpToNext(b, cur'[b])
      BY <1>1, <1>2, <3>1 DEF CursorsInv
    <3>3. cur'[b] # Latest
      <4>1. pending[b] # Latest
        BY DEF TypeOK, SupervisorAssumption
      <4>2. cur[b] # Latest
        BY <1>1, <2>4 DEF Stop, CursorsInv
      <4>3. QED BY <3>1, <4>1, <4>2
    <3>4. disk' = cur' \/ disk' = disk
      BY <2>4 DEF Stop
    <3>5. QED BY <1>1, <1>2, <2>1, <2>2, <2>3, <3>2, <3>3, <3>4 DEF CursorsInv
  <2>5. CASE Kill
    <3>1. cur'[b] = Latest /\ disk' = disk
      BY <2>5 DEF Kill, Unknown
    <3>2. UpToNext(b, cur'[b])
      BY <3>1 DEF UpToNext, SupervisorAssumption
    <3>3. QED BY <1>1, <1>2, <2>1, <2>2, <2>3, <3>1, <3>2 DEF CursorsInv
  <2>6. QED BY <1>5, <2>4, <2>5
<1>6. CASE \E a \in Agents : Mark(a)
  <2>1. PICK a \in Agents : Mark(a)
    BY <1>6
  <2>2. UNCHANGED <<cur, disk, start, flush, up>> /\ pc[a] = "mark"
    BY <2>1 DEF Mark
  <2>3. pending'[b] = IF b = a THEN pos[a] ELSE pending[b]
    BY <2>1 DEF Mark, TypeOK
  <2>4. UpTo(a, pos[a])
    BY <1>1, <2>2 DEF PlaceInv
  <2>5. UpToNext(b, pending'[b])
    BY <1>1, <1>2, <2>3, <2>4 DEF CursorsInv
  <2>6. QED BY <1>1, <1>2, <2>2, <2>5 DEF CursorsInv
<1>7. CASE \E x \in Fibers, a \in Agents : Flush(x, a)
  <2>1. PICK x \in Fibers, a \in Agents : Flush(x, a)
    BY <1>7
  <2>2. UNCHANGED <<pending, disk, start, up>>
    BY <2>1 DEF Flush
  <2>3. cur'[b] = IF b = a THEN pending[a] ELSE cur[b]
    BY <2>1 DEF Flush, TypeOK
  <2>4. pending[b] # Latest
    BY DEF TypeOK, SupervisorAssumption
  <2>5. UpToNext(b, cur'[b]) /\ (up' => cur'[b] # Latest)
    BY <1>1, <1>2, <2>2, <2>3, <2>4 DEF CursorsInv
  <2>6. flush'[x].pc = "persist"
    BY <2>1 DEF Flush, TypeOK, NoFlush
  <2>7. \A y \in Fibers \ {x} : flush'[y] = flush[y]
    BY <2>1 DEF Flush, TypeOK
  <2>8. QED BY <1>1, <1>2, <2>2, <2>5, <2>6, <2>7 DEF CursorsInv
<1>8. CASE \E x \in Fibers : PersistOpen(x)
  <2>1. PICK x \in Fibers : PersistOpen(x)
    BY <1>8
  <2>2. flush[x] \in [pc : {"idle", "persist", "write"}, agent : Agents \cup {Nobody},
                      map : [Agents -> Cursor] \cup {Empty}]
    BY DEF TypeOK
  <2>3. flush'[x].map = cur
    BY <2>1, <2>2 DEF PersistOpen, TypeOK
  <2>4. \A y \in Fibers \ {x} : flush'[y] = flush[y]
    BY <2>1 DEF PersistOpen, TypeOK
  <2>5. UNCHANGED <<pending, cur, start, up>> /\ disk' = Empty /\ up
    BY <2>1 DEF PersistOpen, FlushInv
  <2>6. QED BY <1>1, <1>2, <2>3, <2>4, <2>5 DEF CursorsInv
<1>9. CASE \E x \in Fibers : PersistWrite(x)
  <2>1. PICK x \in Fibers : PersistWrite(x)
    BY <1>9
  <2>2. UNCHANGED <<pending, cur, start, up>> /\ disk' = flush[x].map /\ flush[x].pc = "write"
    BY <2>1 DEF PersistWrite
  <2>3. flush'[x].pc = "idle"
    BY <2>1 DEF PersistWrite, TypeOK, NoFlush
  <2>4. \A y \in Fibers \ {x} : flush'[y] = flush[y]
    BY <2>1 DEF PersistWrite, TypeOK
  <2>5. QED BY <1>1, <1>2, <2>2, <2>3, <2>4 DEF CursorsInv
<1>10. QED
  BY <1>3, <1>4, <1>5, <1>6, <1>7, <1>8, <1>9 DEF Next, vars, own, Arrive, Heartbeat,
     HeartbeatFails, Subscribe, SubscribeAt, Handle, HandleThen, Retry, Fails, Emit

\* Where an agent stands, everything before it is settled.
LEMMA PlaceStep ==
    ASSUME SupervisorAssumption, TypeOK, TypeOK', FiberInv, KeysInv, CursorsInv, PlaceInv,
           [Next]_vars
    PROVE  PlaceInv'
<1> SUFFICES ASSUME ~torn', NEW b \in Agents
             PROVE  /\ pc'[b] \in {"wait", "mark", "flush"} => UpToNext(b, pos'[b])
                    /\ pc'[b] = "emit" => UpToNext(b, pos'[b] - 1) /\ pos'[b] \in handled'[b]
  BY DEF PlaceInv, UpTo, UpToNext, Wanted, Settled, SettledNext, Excused, Emissions
<1>1. ~torn
  BY DEF Next, vars, own, Arrive, Start, Stop, Kill, Heartbeat, HeartbeatFails, Subscribe,
     SubscribeAt, Handle, HandleThen, Retry, Fails, Emit, Mark, Flush, PersistOpen, PersistWrite
<1>2. \A c : UpTo(b, c) => UpToNext(b, c)
  BY StepGrows, UpToStays
<1>3. Grows
  BY StepGrows
<1>4. ASSUME pc'[b] = pc[b], pos'[b] = pos[b]
      PROVE  /\ pc'[b] \in {"wait", "mark", "flush"} => UpToNext(b, pos'[b])
             /\ pc'[b] = "emit" => UpToNext(b, pos'[b] - 1) /\ pos'[b] \in handled'[b]
  BY <1>1, <1>2, <1>3, <1>4 DEF PlaceInv, Grows
<1>5. CASE UNCHANGED <<pc, pos>>
  BY <1>4, <1>5
<1>6. CASE Start \/ Stop \/ Kill
  BY <1>6 DEF Start, Stop, Kill, Gone
<1>7. CASE \E a \in Agents : Subscribe(a)
  <2>1. PICK a \in Agents : SubscribeAt(a, StartAt(a))
    BY <1>7 DEF Subscribe
  <2>2. CASE b # a
    BY <1>4, <2>1, <2>2 DEF SubscribeAt, TypeOK
  <2>3. CASE b = a
    <3>1. pos'[b] = StartAt(b) /\ pc'[b] = "wait"
      BY <2>1, <2>3 DEF SubscribeAt, TypeOK
    <3>2. start[b] # Latest /\ UpTo(b, start[b])
      BY <1>1 DEF CursorsInv
    <3>3. CASE start[b] = Earliest
      <4>1. StartAt(b) = 0
        BY <3>3 DEF StartAt
      <4>2. UpToNext(b, 0)
        BY DEF UpToNext, TypeOK
      <4>3. QED BY <3>1, <4>1, <4>2
    <3>4. CASE start[b] # Earliest
      <4>1. StartAt(b) = start[b]
        BY <3>2, <3>4 DEF StartAt
      <4>2. QED BY <1>2, <3>1, <3>2, <4>1
    <3>5. QED BY <3>3, <3>4
  <2>4. QED BY <2>2, <2>3
<1>8. CASE \E a \in Agents : Handle(a)
  <2>1. PICK a \in Agents : Handle(a)
    BY <1>8
  <2>2. PICK i \in Ahead(a) : HandleThen(a, i)
    BY <2>1 DEF Handle
  <2>3. CASE b # a
    BY <1>4, <2>2, <2>3 DEF HandleThen, TypeOK
  <2>4. CASE b = a
    <3>1. pos[b] \in Nat /\ Len(log) \in Nat /\ log' = log
      BY <2>2 DEF HandleThen, TypeOK
    <3>2. i \in pos[b] + 1 .. Len(log) /\ Wanted(b, i)
      BY <2>4 DEF Ahead
    <3>3. pos'[b] = i /\ pc[b] = "wait" /\ UpTo(b, pos[b])
      BY <1>1, <2>2, <2>4 DEF HandleThen, TypeOK, PlaceInv
    <3>4. \A j \in 1 .. i - 1 : Wanted(b, j) => SettledNext(b, j)
      <4>1. SUFFICES ASSUME NEW j \in 1 .. i - 1, Wanted(b, j)
                     PROVE  SettledNext(b, j)
        OBVIOUS
      <4>2. CASE j <= pos[b]
        <5>1. Settled(b, j)
          BY <3>1, <3>3, <4>1, <4>2 DEF UpTo
        <5>2. QED BY <1>3, <5>1, SettledStays
      <4>3. CASE ~(j <= pos[b])
        <5>1. j \in pos[b] + 1 .. Len(log) /\ ~(i <= j)
          BY <3>1, <3>2, <4>3
        <5>2. j \in Ahead(a)
          BY <2>4, <4>1, <5>1 DEF Ahead
        <5>3. QED BY <2>2, <5>1, <5>2 DEF HandleThen
      <4>4. QED BY <4>2, <4>3
    <3>5. UpToNext(b, i - 1)
      BY <3>1, <3>2, <3>4 DEF UpToNext, Wanted
    <3>6. CASE Runs(b, i)
      <4>1. i \in handled'[b]
        BY <2>2, <2>4, <3>6 DEF HandleThen, TypeOK
      <4>2. b \in Emitters => pc'[b] = "emit"
        BY <2>2, <2>4, <3>6 DEF HandleThen, TypeOK
      <4>3. b \notin Emitters => SettledNext(b, i)
        BY <4>1 DEF SettledNext
      <4>4. b \notin Emitters => UpToNext(b, i)
        BY <3>1, <3>2, <3>4, <4>3 DEF UpToNext, Wanted
      <4>5. QED BY <3>3, <3>5, <4>1, <4>2, <4>4, <2>2, <2>4 DEF HandleThen, TypeOK
    <3>7. CASE ~Runs(b, i)
      <4>1. Settled(b, i)
        BY <3>3, <3>7 DEF Runs, KeysInv
      <4>2. SettledNext(b, i)
        BY <1>3, <4>1, SettledStays
      <4>3. UpToNext(b, i)
        BY <3>1, <3>2, <3>4, <4>2 DEF UpToNext, Wanted
      <4>4. pc'[b] = "mark"
        BY <2>2, <2>4, <3>7 DEF HandleThen, TypeOK
      <4>5. QED BY <3>3, <4>3, <4>4
    <3>8. QED BY <3>6, <3>7
  <2>5. QED BY <2>3, <2>4
<1>9. CASE \E a \in Agents : Retry(a)
  <2>1. PICK a \in Agents : Retry(a)
    BY <1>9
  <2>2. pos' = pos /\ pc'[a] = "subscribe" /\ (b # a => pc'[b] = pc[b])
    BY <2>1 DEF Retry, Fails, TypeOK
  <2>3. QED BY <1>4, <2>2
<1>10. CASE \E a \in Agents : Emit(a)
  <2>1. PICK a \in Agents : Emit(a)
    BY <1>10
  <2>2. CASE b # a
    BY <1>4, <2>1, <2>2 DEF Emit, TypeOK
  <2>3. CASE b = a
    <3>1. pc[b] = "emit" /\ pc'[b] = "mark" /\ pos' = pos
      BY <2>1, <2>3 DEF Emit, TypeOK
    <3>2. UpTo(b, pos[b] - 1) /\ pos[b] \in handled[b]
      BY <1>1, <3>1 DEF PlaceInv
    <3>3. UpToNext(b, pos[b] - 1) /\ pos[b] \in handled'[b]
      BY <1>2, <1>3, <3>2 DEF Grows
    <3>4. [kind |-> Out, by |-> a, cause |-> pos[a]] \in Origin
      BY DEF Origin, TypeOK
    <3>5. PICK e \in Origin : e = [kind |-> Out, by |-> a, cause |-> pos[a]]
      BY <3>4
    <3>6. log' = Append(log, e) /\ log \in Seq(Origin) /\ e.by = b /\ e.cause = pos[b]
      BY <2>1, <2>3, <3>5 DEF Emit, TypeOK
    <3>7. \E k \in DOMAIN log' : log'[k].by = b /\ log'[k].cause = pos[b]
      <4>1. Len(log) + 1 \in DOMAIN log' /\ log'[Len(log) + 1] = e
        BY <3>6, AppendedAt
      <4>2. QED BY <3>6, <4>1
    <3>8. SettledNext(b, pos[b])
      BY <3>3, <3>7 DEF SettledNext
    <3>9. pos[b] \in 1 .. Len(log') /\ Len(log') \in Nat
      <4>1. pos[b] \in DOMAIN log
        BY <3>1 DEF FiberInv
      <4>2. pos[b] \in DOMAIN log'
        BY <1>3, <4>1 DEF Grows
      <4>3. log' \in Seq(Origin)
        BY DEF TypeOK
      <4>4. QED BY <4>2, <4>3
    <3>10. UpToNext(b, pos[b])
      <4>1. ASSUME NEW j \in 1 .. pos[b], log'[j].kind \in On[b]
            PROVE  SettledNext(b, j)
        <5>1. j = pos[b] \/ j \in 1 .. pos[b] - 1
          BY <3>9
        <5>2. pos[b] - 1 \in Nat
          BY <3>9
        <5>3. QED BY <3>3, <3>8, <4>1, <5>1, <5>2 DEF UpToNext
      <4>2. QED BY <3>9, <4>1 DEF UpToNext
    <3>11. QED BY <3>1, <3>10
  <2>4. QED BY <2>2, <2>3
<1>11. CASE \E a \in Agents : Mark(a)
  <2>1. PICK a \in Agents : Mark(a)
    BY <1>11
  <2>2. pos' = pos /\ pc[a] = "mark" /\ pc'[a] \in {"flush", "wait"} /\ (b # a => pc'[b] = pc[b])
    BY <2>1 DEF Mark, TypeOK
  <2>3. b = a => UpToNext(b, pos'[b])
    BY <1>1, <1>2, <2>2 DEF PlaceInv
  <2>4. QED BY <1>4, <2>2, <2>3
<1>12. CASE \E x \in Fibers : PersistWrite(x)
  <2>1. PICK x \in Fibers : PersistWrite(x)
    BY <1>12
  <2>2. pos' = pos /\ (b # x => pc'[b] = pc[b])
    BY <2>1 DEF PersistWrite, TypeOK
  <2>3. CASE b = x
    <3>1. pc[b] = "flush"
      BY <2>1, <2>3 DEF PersistWrite, FiberInv
    <3>2. pc'[b] = "wait"
      BY <2>1, <2>3 DEF PersistWrite, TypeOK, SupervisorAssumption
    <3>3. QED BY <1>1, <1>2, <2>2, <3>1, <3>2 DEF PlaceInv
  <2>4. QED BY <1>4, <2>2, <2>3
<1>13. QED
  BY <1>5, <1>6, <1>7, <1>8, <1>9, <1>10, <1>11, <1>12 DEF Next, vars, own, Arrive,
     Heartbeat, HeartbeatFails, Flush, PersistOpen

----------------------------------------------------------------------------
\* The invariants hold of the first state.
LEMMA AlwaysInit ==
    ASSUME SupervisorAssumption, Init
    PROVE  Always
<1>1. TypeOK /\ KindOK
  BY TypeInit
<1>2. \A x \in Fibers : flush[x].pc = "idle"
  BY DEF Init, NoFlush
<1>3. disk # Empty
  BY DEF Init, SupervisorAssumption
<1>4. FlushInv
  BY <1>2, <1>3 DEF FlushInv
<1>5. FiberInv
  <2>1. Agents \subseteq Fibers
    BY DEF Fibers
  <2>2. QED BY <1>2, <2>1 DEF FiberInv, Init
<1>6. KeysInv
  BY DEF KeysInv, Init
<1>7. OnceInv
  BY DEF OnceInv, Init
<1>8. WriteInv
  BY <1>2 DEF WriteInv, Init
<1>9. QED BY <1>1, <1>4, <1>5, <1>6, <1>7, <1>8 DEF Always

\* A step keeps them.
LEMMA AlwaysStep ==
    ASSUME SupervisorAssumption, Always, [Next]_vars
    PROVE  Always'
<1>1. TypeOK' /\ KindOK'
  BY TypeStep DEF Always
<1>2. FlushInv'
  BY <1>1, FlushStep DEF Always
<1>3. FiberInv'
  BY <1>1, FiberStep DEF Always
<1>4. KeysInv'
  BY <1>1, KeysStep DEF Always
<1>5. OnceInv'
  BY <1>1, OnceStep DEF Always
<1>6. WriteInv'
  BY <1>1, WriteStep DEF Always
<1>7. QED BY <1>1, <1>2, <1>3, <1>4, <1>5, <1>6 DEF Always

\* Whatever the cursor file held before the first start.
LEMMA AlwaysHolds == Spec => []Always
<1>1. Init => Always
  BY AlwaysInit, SupervisorAssumption
<1>2. Always /\ [Next]_vars => Always'
  BY AlwaysStep, SupervisorAssumption
<1>3. QED BY <1>1, <1>2, PTL DEF Spec

\* The program stays within its types.
THEOREM SupervisorTypeCorrect == Spec => []TypeOK
<1>1. Always => TypeOK
  BY DEF Always
<1>2. QED BY <1>1, AlwaysHolds, PTL

\* withIdempotence appends what its handler returned for an event at most once per process,
\* however the failures, retries, flushes, stops and kills fall.
THEOREM SupervisorEmittedOnce == Spec => []EmittedOnce
<1>1. Always => EmittedOnce
  <2>1. SUFFICES ASSUME Always, NEW a \in Agents, kind[a] = "once", NEW i \in DOMAIN log
                 PROVE  Cardinality({k \in Emissions(a, i) : k > born}) <= 1
    BY DEF EmittedOnce
  <2>2. ASSUME NEW k \in Emissions(a, i), NEW n \in Emissions(a, i), k > born, n > born
        PROVE  k = n
    BY <2>1, <2>2 DEF Always, OnceInv, Emissions
  <2>3. CASE {k \in Emissions(a, i) : k > born} = {}
    <3>1. Cardinality({}) = 0
      BY FS_EmptySet
    <3>2. QED BY <2>3, <3>1
  <2>4. CASE {k \in Emissions(a, i) : k > born} # {}
    <3>1. PICK k : k \in {n \in Emissions(a, i) : n > born}
      BY <2>4
    <3>2. {n \in Emissions(a, i) : n > born} = {k}
      BY <2>2, <3>1
    <3>3. Cardinality({k}) = 1
      BY FS_Singleton
    <3>4. QED BY <3>2, <3>3
  <2>5. QED BY <2>3, <2>4
<1>2. QED BY <1>1, AlwaysHolds, PTL

\* When no flush is under way, the cursor file holds what AgentCursorStore.get answers: the
\* permit of persist is enough, however the flushes of the agents and of the timer overlap.
THEOREM SupervisorPersistedIsCurrent == Spec => []PersistedIsCurrent
<1>1. Always => PersistedIsCurrent
  BY DEF Always, WriteInv, PersistedIsCurrent
<1>2. QED BY <1>1, AlwaysHolds, PTL

\* The remaining invariants need that no agent was left to start at "latest".
LEMMA ReplayHolds ==
    ASSUME \A a \in Agents : First[a] = Earliest
    PROVE  Spec => []IInv
<1>1. Init => IInv
  <2>1. SUFFICES ASSUME Init PROVE CursorsInv /\ PlaceInv
    BY AlwaysInit, SupervisorAssumption DEF IInv
  <2>2. Earliest \notin Nat /\ Earliest # Latest
    BY SupervisorAssumption DEF SupervisorAssumption
  <2>3. \A a \in Agents : UpTo(a, 0) /\ UpTo(a, Earliest)
    BY <2>1, <2>2 DEF UpTo, Init
  <2>4. \A x \in Fibers : flush[x].pc = "idle"
    BY <2>1 DEF Init, NoFlush
  <2>5. CursorsInv
    BY <2>1, <2>2, <2>3, <2>4 DEF Init, CursorsInv
  <2>6. PlaceInv
    BY <2>1 DEF Init, PlaceInv
  <2>7. QED BY <2>5, <2>6
<1>2. IInv /\ [Next]_vars => IInv'
  <2>1. SUFFICES ASSUME IInv, [Next]_vars PROVE IInv'
    OBVIOUS
  <2>2. Always'
    BY <2>1, AlwaysStep, SupervisorAssumption DEF IInv
  <2>3. CursorsInv'
    BY <2>1, <2>2, CursorsStep, SupervisorAssumption DEF IInv, Always
  <2>4. PlaceInv'
    BY <2>1, <2>2, PlaceStep, SupervisorAssumption DEF IInv, Always
  <2>5. QED BY <2>2, <2>3, <2>4 DEF IInv
<1>3. QED BY <1>1, <1>2, PTL DEF Spec

\* At least once: of agents given "earliest", no subscription stands beyond an event its
\* agent has not handled, whatever fails and whenever the process stops or is killed, until
\* a kill leaves the cursor file empty.
THEOREM SupervisorNothingSkipped ==
    ASSUME \A a \in Agents : First[a] = Earliest
    PROVE  Spec => []NothingSkipped
<1>1. IInv => NothingSkipped
  <2>1. SUFFICES ASSUME IInv, ~torn, NEW a \in Agents, pc[a] = "wait", NEW i \in Owed(a, pos[a])
                 PROVE  i \in handled[a] \cup Excused(a)
    BY DEF NothingSkipped
  <2>2. UpTo(a, pos[a]) /\ pos[a] \in Nat /\ log \in Seq(Origin)
    BY <2>1 DEF IInv, PlaceInv, Always, TypeOK
  <2>3. i \in 1 .. pos[a] /\ Wanted(a, i)
    BY <2>1, <2>2 DEF Owed
  <2>4. QED BY <2>2, <2>3 DEF UpTo, Settled
<1>2. QED BY <1>1, ReplayHolds, PTL

\* And no cursor of theirs, in memory or in the file, stands for work that is not done: up
\* to it every event was handled, and what the handler returned is in the log.
THEOREM SupervisorCursorMeansDone ==
    ASSUME \A a \in Agents : First[a] = Earliest
    PROVE  Spec => []CursorMeansDone
<1>1. IInv => CursorMeansDone
  <2>1. SUFFICES ASSUME IInv, ~torn, NEW a \in Agents,
                        NEW c \in {pending[a], cur[a]} \cup
                                   (IF disk = Empty THEN {} ELSE {disk[a]}),
                        c \in Nat, NEW i \in Owed(a, c) \ Excused(a)
                 PROVE  i \in handled[a] /\ (a \in Emitters => Emissions(a, i) # {})
    BY DEF CursorMeansDone
  <2>2. UpTo(a, c) /\ log \in Seq(Origin)
    BY <2>1 DEF IInv, CursorsInv, Always, TypeOK
  <2>3. i \in 1 .. c /\ Wanted(a, i)
    BY <2>1, <2>2 DEF Owed
  <2>4. QED BY <2>1, <2>2, <2>3 DEF UpTo, Settled
<1>2. QED BY <1>1, ReplayHolds, PTL
----------------------------------------------------------------------------
(* The state of a reducer: what it folded, event by event.                 *)

\* The places in a reducer's state where it started over.
Again(a) ==
    {j \in DOMAIN state[a] : start[a] # Latest /\ IsNext(a, state[a][j], StartAt(a))}

\* The attempt under way has folded an event: it is no longer at its start.
Moving(a) == IF pc[a] # "subscribe" /\ pos[a] > StartAt(a) THEN 1 ELSE 0

\* A reducer's state is a chain of attempts, each from its start on without a gap; there is
\* one attempt per failure, and the one under way ends where the subscription stands.
ReduceInv(a) ==
    /\ ~up => state[a] = <<>> /\ pos[a] = 0
    /\ \A j \in DOMAIN state[a] : state[a][j] \in DOMAIN log
    /\ start[a] # Latest =>
        /\ \A j \in DOMAIN state[a] :
               j \in Again(a) \/ (j > 1 /\ IsNext(a, state[a][j], state[a][j - 1]))
        /\ Cardinality(Again(a)) <= faults + Moving(a)
        /\ pc[a] \notin {"off", "subscribe"} => StartAt(a) <= pos[a]
        /\ pos[a] > StartAt(a) => state[a] # <<>> /\ state[a][Len(state[a])] = pos[a]

Reducers == \A a \in Agents : kind[a] = "reduce" => ReduceInv(a)

\* Where an agent starts is a position.
LEMMA StartAtNat ==
    ASSUME TypeOK, NEW a \in Agents
    PROVE  StartAt(a) \in Nat
<1>1. start[a] \in Cursor /\ Len(log) \in Nat
  BY DEF TypeOK
<1>2. QED BY <1>1 DEF StartAt, Cursor

\* Which event comes next depends only on the log up to it.
LEMMA NextStays ==
    ASSUME TypeOK, Grows, NEW a \in Agents, NEW i \in DOMAIN log, NEW n \in Nat
    PROVE  IsNext(a, i, n) <=>
               /\ log'[i].kind \in On[a] /\ n < i
               /\ \A j \in n + 1 .. i - 1 : ~(log'[j].kind \in On[a])
<1>1. DOMAIN log = 1 .. Len(log) /\ Len(log) \in Nat
  BY DEF TypeOK
<1>2. \A j \in n + 1 .. i - 1 : j \in DOMAIN log
  BY <1>1
<1>3. \A j \in DOMAIN log : log'[j] = log[j]
  BY DEF Grows
<1>4. QED BY <1>2, <1>3 DEF IsNext, Wanted

\* A step that leaves an agent's subscription and its state alone keeps what is known of them.
LEMMA ReduceStays ==
    ASSUME TypeOK, Grows, NEW a \in Agents, ReduceInv(a),
           up' = up, start' = start, state'[a] = state[a], pos'[a] = pos[a],
           faults' \in Nat, faults <= faults',
           \/ pc'[a] = pc[a]
           \/ pc[a] \notin {"off", "subscribe"} /\ pc'[a] \notin {"off", "subscribe"}
    PROVE  ReduceInv(a)'
<1>1. StartAt(a) \in Nat /\ pos[a] \in Nat /\ faults \in Nat
  BY StartAtNat DEF TypeOK
<1>2. start[a] # Latest => StartAt(a)' = StartAt(a)
  BY DEF StartAt
<1>3. \A j \in DOMAIN state[a] : state[a][j] \in DOMAIN log /\ state[a][j] \in Nat
  BY DEF ReduceInv, TypeOK
<1>4. start[a] # Latest => \A j \in DOMAIN state[a] :
          IsNext(a, state[a][j], StartAt(a))' <=> IsNext(a, state[a][j], StartAt(a))
  <2>1. SUFFICES ASSUME start[a] # Latest, NEW j \in DOMAIN state[a]
                 PROVE  IsNext(a, state[a][j], StartAt(a))' <=> IsNext(a, state[a][j], StartAt(a))
    OBVIOUS
  <2>2. IsNext(a, state[a][j], StartAt(a))' <=>
            /\ log'[state[a][j]].kind \in On[a] /\ StartAt(a) < state[a][j]
            /\ \A k \in StartAt(a) + 1 .. state[a][j] - 1 : ~(log'[k].kind \in On[a])
    BY <1>2, <2>1 DEF IsNext, Wanted
  <2>3. QED BY <1>1, <1>3, <2>2, NextStays
<1>5. \A j \in DOMAIN state[a] : j > 1 =>
          (IsNext(a, state[a][j], state[a][j - 1]) => IsNext(a, state[a][j], state[a][j - 1])')
  <2>1. SUFFICES ASSUME NEW j \in DOMAIN state[a], j > 1, IsNext(a, state[a][j], state[a][j - 1])
                 PROVE  IsNext(a, state[a][j], state[a][j - 1])'
    OBVIOUS
  <2>2. j - 1 \in DOMAIN state[a]
    BY <2>1 DEF TypeOK
  <2>3. state[a][j - 1] \in Nat /\ state[a][j] \in DOMAIN log
    BY <1>3, <2>2
  <2>4. /\ log'[state[a][j]].kind \in On[a] /\ state[a][j - 1] < state[a][j]
        /\ \A k \in state[a][j - 1] + 1 .. state[a][j] - 1 : ~(log'[k].kind \in On[a])
    BY <2>1, <2>3, NextStays
  <2>5. QED BY <2>4 DEF IsNext, Wanted
<1>6. Again(a)' = Again(a)
  <2>1. CASE start[a] = Latest  BY <2>1 DEF Again
  <2>2. CASE start[a] # Latest
    <3>1. \A j \in DOMAIN state[a] : j \in Again(a)' <=> j \in Again(a)
      BY <1>4, <2>2 DEF Again
    <3>2. QED BY <3>1 DEF Again
  <2>3. QED BY <2>1, <2>2
<1>7. \A i \in DOMAIN log : i \in DOMAIN log'
  BY DEF Grows
<1>8. start[a] # Latest => Moving(a)' = Moving(a)
  BY <1>2 DEF Moving
<1>9. start[a] # Latest => Moving(a) \in Nat /\ (Cardinality(Again(a)) <= faults + Moving(a))
  BY DEF ReduceInv, Moving
<1>10. start[a] # Latest => Cardinality(Again(a))' <= faults' + Moving(a)'
  <2>1. DOMAIN state[a] = 1 .. Len(state[a]) /\ Len(state[a]) \in Nat
    BY DEF TypeOK
  <2>2. IsFiniteSet(1 .. Len(state[a]))
    BY <2>1, FS_Interval
  <2>3. Again(a) \in SUBSET (1 .. Len(state[a]))
    BY <2>1 DEF Again
  <2>4. Cardinality(Again(a)) \in Nat
    BY <2>2, <2>3, FS_Subset, FS_CardinalityType
  <2>5. QED BY <1>1, <1>6, <1>8, <1>9, <2>4
<1>11. (~up => state[a] = <<>> /\ pos[a] = 0)'
  BY DEF ReduceInv
<1>12. (\A j \in DOMAIN state[a] : state[a][j] \in DOMAIN log)'
  BY <1>3, <1>7
<1>13. (start[a] # Latest => \A j \in DOMAIN state[a] :
               j \in Again(a) \/ (j > 1 /\ IsNext(a, state[a][j], state[a][j - 1])))'
  BY <1>5, <1>6 DEF ReduceInv
<1>14. (start[a] # Latest =>
          /\ pc[a] \notin {"off", "subscribe"} => StartAt(a) <= pos[a]
          /\ pos[a] > StartAt(a) => state[a] # <<>> /\ state[a][Len(state[a])] = pos[a])'
  BY <1>2 DEF ReduceInv
<1>15. QED BY <1>10, <1>11, <1>12, <1>13, <1>14 DEF ReduceInv

\* How many attempts a state holds is a number.
LEMMA AgainFinite ==
    ASSUME TypeOK, NEW a \in Agents
    PROVE  /\ IsFiniteSet(Again(a)) /\ Cardinality(Again(a)) \in Nat
           /\ DOMAIN state[a] = 1 .. Len(state[a]) /\ Len(state[a]) \in Nat
<1>1. DOMAIN state[a] = 1 .. Len(state[a]) /\ Len(state[a]) \in Nat
  BY DEF TypeOK
<1>2. IsFiniteSet(1 .. Len(state[a]))
  <2>1. 1 \in Int /\ Len(state[a]) \in Int
    BY <1>1
  <2>2. QED BY <2>1, FS_Interval
<1>3. Again(a) \in SUBSET (1 .. Len(state[a]))
  BY <1>1 DEF Again
<1>4. QED BY <1>1, <1>2, <1>3, FS_Subset, FS_CardinalityType

\* A process that starts or ends leaves no state behind.
LEMMA ReduceFresh ==
    ASSUME NEW a \in Agents, state'[a] = <<>>, pos'[a] = 0, start'[a] \in Cursor,
           log' \in Seq(Origin), faults' \in Nat, pc'[a] \in {"off", "subscribe"},
           SupervisorAssumption
    PROVE  ReduceInv(a)'
<1>1. DOMAIN state'[a] = {}
  OBVIOUS
<1>2. Again(a)' = {}
  BY <1>1 DEF Again
<1>3. Cardinality({}) = 0
  BY FS_EmptySet
<1>4. start'[a] # Latest => StartAt(a)' \in Nat
  BY SupervisorAssumption DEF StartAt, Cursor, SupervisorAssumption
<1>5. start'[a] # Latest => ~(pos'[a] > StartAt(a)') /\ Moving(a)' \in Nat
  BY <1>4 DEF Moving
<1>6. start'[a] # Latest => Cardinality(Again(a))' <= faults' + Moving(a)'
  BY <1>2, <1>3, <1>5
<1>7. QED BY <1>1, <1>5, <1>6 DEF ReduceInv

\* An attempt begins at the start again, and has folded nothing yet.
LEMMA ReduceSubscribe ==
    ASSUME SupervisorAssumption, TypeOK, FiberInv, NEW a \in Agents, ReduceInv(a),
           Subscribe(a)
    PROVE  ReduceInv(a)'
<1>1. /\ pc[a] = "subscribe" /\ pc'[a] = "wait" /\ pos'[a] = StartAt(a) /\ up
      /\ UNCHANGED <<log, start, up, state, faults>>
  BY DEF Subscribe, SubscribeAt, TypeOK, FiberInv, own
<1>2. StartAt(a) \in Nat /\ faults \in Nat
  BY StartAtNat DEF TypeOK
<1>3. StartAt(a)' = StartAt(a) /\ Again(a)' = Again(a)
  BY <1>1 DEF StartAt, Again, IsNext, Wanted
<1>4. start[a] # Latest => Cardinality(Again(a)) <= faults
  BY <1>1, AgainFinite, <1>2 DEF ReduceInv, Moving
<1>5. Moving(a)' = 0
  BY <1>1, <1>2, <1>3 DEF Moving
<1>6. start[a] # Latest => Cardinality(Again(a))' <= faults' + Moving(a)'
  BY <1>1, <1>2, <1>3, <1>4, <1>5, AgainFinite
<1>7. \A i, n : IsNext(a, i, n)' <=> IsNext(a, i, n)
  BY <1>1 DEF IsNext, Wanted
<1>8. (start[a] # Latest => \A j \in DOMAIN state[a] :
               j \in Again(a) \/ (j > 1 /\ IsNext(a, state[a][j], state[a][j - 1])))'
  BY <1>1, <1>3, <1>7 DEF ReduceInv
<1>9. ~(pos'[a] > StartAt(a)') /\ StartAt(a)' <= pos'[a]
  BY <1>1, <1>2, <1>3
<1>10. QED BY <1>1, <1>6, <1>8, <1>9 DEF ReduceInv

\* Folding the next event: it follows the last one, or it is the first of its attempt.
LEMMA ReduceHandle ==
    ASSUME SupervisorAssumption, TypeOK, FiberInv, NEW a \in Agents, ReduceInv(a),
           kind[a] = "reduce", NEW i \in Ahead(a), HandleThen(a, i)
    PROVE  ReduceInv(a)'
<1> DEFINE s == state[a]
           n == Len(state[a])
<1>1. /\ pc[a] = "wait" /\ pc'[a] \in {"emit", "mark"} /\ pos'[a] = i /\ up
      /\ state'[a] = Append(s, i) /\ UNCHANGED <<log, start, up, faults>>
      /\ \A j \in Ahead(a) : i <= j
  BY DEF HandleThen, TypeOK, FiberInv
<1>2. /\ StartAt(a) \in Nat /\ faults \in Nat /\ pos[a] \in Nat /\ Len(log) \in Nat
      /\ DOMAIN log = 1 .. Len(log) /\ s \in Seq(Nat) /\ n \in Nat /\ DOMAIN s = 1 .. n
  BY StartAtNat DEF TypeOK
<1>3. i \in pos[a] + 1 .. Len(log) /\ Wanted(a, i)
  BY DEF Ahead
<1>4. i \in Nat /\ i \in DOMAIN log /\ pos[a] < i
  BY <1>2, <1>3
<1>5. IsNext(a, i, pos[a])
  <2>1. ASSUME NEW j \in pos[a] + 1 .. i - 1 PROVE ~Wanted(a, j)
    <3>1. j \in pos[a] + 1 .. Len(log) /\ ~(i <= j)
      BY <1>2, <1>4, <2>1, <1>3
    <3>2. QED BY <1>1, <3>1 DEF Ahead
  <2>2. QED BY <1>3, <1>4, <2>1 DEF IsNext
<1>6. /\ DOMAIN state'[a] = 1 .. n + 1 /\ state'[a][n + 1] = i /\ Len(state'[a]) = n + 1
      /\ \A j \in 1 .. n : state'[a][j] = s[j]
  <2> HIDE DEF s
  <2>1. n = Len(s)
    BY DEF s
  <2>2. QED BY <1>1, <1>2, <1>4, <2>1
<1>7. StartAt(a)' = StartAt(a) /\ \A k, m : IsNext(a, k, m)' <=> IsNext(a, k, m)
  BY <1>1 DEF StartAt, IsNext, Wanted
<1>8. \A j \in DOMAIN state'[a] : state'[a][j] \in DOMAIN log'
  <2>1. \A j \in 1 .. n : s[j] \in DOMAIN log
    BY <1>2 DEF ReduceInv
  <2>2. ASSUME NEW j \in 1 .. n + 1 PROVE j \in 1 .. n \/ j = n + 1
    BY <1>2
  <2>3. QED BY <1>1, <1>4, <1>6, <2>1, <2>2
<1>9. SUFFICES ASSUME start[a] # Latest
               PROVE  /\ \A j \in DOMAIN state'[a] :
                             \/ j \in Again(a)'
                             \/ j > 1 /\ IsNext(a, state'[a][j], state'[a][j - 1])
                      /\ Cardinality(Again(a)') <= faults' + Moving(a)'
                      /\ StartAt(a) <= pos'[a]
                      /\ state'[a] # <<>> /\ state'[a][Len(state'[a])] = pos'[a]
  BY <1>1, <1>7, <1>8 DEF ReduceInv
<1>10. /\ StartAt(a) <= pos[a]
       /\ pos[a] > StartAt(a) => s # <<>> /\ s[n] = pos[a]
       /\ \A j \in DOMAIN s : j \in Again(a) \/ (j > 1 /\ IsNext(a, s[j], s[j - 1]))
       /\ Cardinality(Again(a)) <= faults + Moving(a)
  BY <1>1, <1>9 DEF ReduceInv
<1>11. \A j \in 1 .. n : j \in Again(a)' <=> j \in Again(a)
  BY <1>1, <1>2, <1>6, <1>7, <1>9 DEF Again
<1>12. Again(a)' \subseteq Again(a) \cup {n + 1}
  <2>1. \A j \in 1 .. n + 1 : j \in 1 .. n \/ j = n + 1
    BY <1>2
  <2>2. Again(a)' \subseteq 1 .. n + 1
    BY <1>6 DEF Again
  <2>3. QED BY <1>11, <2>1, <2>2
<1>13. Again(a) \subseteq Again(a)'
  BY <1>2, <1>11 DEF Again
<1>14. ASSUME NEW j \in DOMAIN state'[a]
       PROVE  \/ j \in Again(a)'
              \/ j > 1 /\ IsNext(a, state'[a][j], state'[a][j - 1])
  <2>1. CASE j \in 1 .. n
    <3>1. j \in Again(a) \/ (j > 1 /\ IsNext(a, s[j], s[j - 1]))
      BY <1>2, <1>10, <2>1
    <3>2. j > 1 => j - 1 \in 1 .. n
      BY <1>2, <2>1
    <3>3. QED BY <1>6, <1>11, <2>1, <3>1, <3>2
  <2>2. CASE j = n + 1
    <3>1. CASE pos[a] > StartAt(a)
      <4>1. s # <<>> /\ s[n] = pos[a]
        BY <1>10, <3>1
      <4>2. n \in 1 .. n /\ j > 1 /\ j - 1 = n
        BY <1>2, <2>2, <4>1
      <4>3. state'[a][j] = i /\ state'[a][j - 1] = pos[a]
        BY <1>6, <2>2, <4>1, <4>2
      <4>4. QED BY <1>5, <4>2, <4>3
    <3>2. CASE ~(pos[a] > StartAt(a))
      <4>1. pos[a] = StartAt(a)
        BY <1>2, <1>10, <3>2
      <4>2. IsNext(a, state'[a][j], StartAt(a))
        BY <1>5, <1>6, <2>2, <4>1
      <4>3. j \in Again(a)'
        BY <1>1, <1>7, <1>9, <4>2 DEF Again
      <4>4. QED BY <4>3
    <3>3. QED BY <3>1, <3>2
  <2>3. QED BY <1>2, <1>6, <2>1, <2>2
<1>15. Moving(a)' = 1
  BY <1>1, <1>2, <1>4, <1>7, <1>10 DEF Moving
<1>16. Cardinality(Again(a)') <= faults' + Moving(a)'
  <2>1. CASE pos[a] > StartAt(a)
    <3>1. pos[a] \in StartAt(a) + 1 .. i - 1 /\ Wanted(a, pos[a])
      <4>1. s # <<>> /\ s[n] = pos[a] /\ n \in DOMAIN s
        BY <1>2, <1>10, <2>1
      <4>2. Wanted(a, s[n])
        BY <1>10, <4>1 DEF Again, IsNext
      <4>3. QED BY <1>2, <1>4, <2>1, <4>1, <4>2
    <3>2. ~IsNext(a, i, StartAt(a))
      BY <3>1 DEF IsNext
    <3>3. n + 1 \notin Again(a)'
      BY <1>6, <1>7, <3>2 DEF Again
    <3>4. Again(a)' = Again(a)
      BY <1>12, <1>13, <3>3
    <3>5. Moving(a) = 1
      BY <1>1, <2>1 DEF Moving
    <3>6. QED BY <1>1, <1>10, <1>15, <3>4, <3>5
  <2>2. CASE ~(pos[a] > StartAt(a))
    <3>1. Moving(a) = 0
      BY <2>2 DEF Moving
    <3>2. Cardinality(Again(a)) <= faults /\ Cardinality(Again(a)) \in Nat /\ IsFiniteSet(Again(a))
      BY <1>2, <1>10, <3>1, AgainFinite
    <3>3. Again(a)' = Again(a) \/ Again(a)' = Again(a) \cup {n + 1}
      BY <1>12, <1>13
    <3>4. \/ Cardinality(Again(a)') = Cardinality(Again(a))
          \/ Cardinality(Again(a)') = Cardinality(Again(a)) + 1
      <4>1. \/ Cardinality(Again(a) \cup {n + 1}) = Cardinality(Again(a))
            \/ Cardinality(Again(a) \cup {n + 1}) = Cardinality(Again(a)) + 1
        BY <3>2, FS_AddElement
      <4>2. QED BY <3>3, <4>1
    <3>5. QED BY <1>1, <1>2, <1>15, <3>2, <3>4
  <2>3. QED BY <2>1, <2>2
<1>17. StartAt(a) <= pos'[a]
  BY <1>1, <1>2, <1>4, <1>10
<1>18. state'[a] # <<>> /\ state'[a][Len(state'[a])] = pos'[a]
  <2>1. n + 1 \in DOMAIN state'[a]
    BY <1>2, <1>6
  <2>2. state'[a][n + 1] = pos'[a] /\ Len(state'[a]) = n + 1
    BY <1>1, <1>6
  <2>3. DOMAIN <<>> = {}
    OBVIOUS
  <2> HIDE DEF s, n
  <2>4. QED BY <2>1, <2>2, <2>3
<1>19. QED BY <1>14, <1>16, <1>17, <1>18

\* A failed append sends the agent back to its start: one more attempt, one more fault.
LEMMA ReduceRetry ==
    ASSUME SupervisorAssumption, TypeOK, FiberInv, NEW a \in Agents, ReduceInv(a),
           kind[a] = "reduce", Retry(a)
    PROVE  ReduceInv(a)'
<1>1. /\ pc[a] = "emit" /\ pc'[a] = "subscribe" /\ up /\ faults' = faults + 1
      /\ UNCHANGED <<log, start, up, state, pos>>
  BY DEF Retry, Fails, Strikes, TypeOK, FiberInv
<1>2. StartAt(a) \in Nat /\ faults \in Nat /\ pos[a] \in Nat
  BY StartAtNat DEF TypeOK
<1>3. StartAt(a)' = StartAt(a) /\ Again(a)' = Again(a)
  BY <1>1 DEF StartAt, Again, IsNext, Wanted
<1>4. \A i, n : IsNext(a, i, n)' <=> IsNext(a, i, n)
  BY <1>1 DEF IsNext, Wanted
<1>5. Moving(a) <= 1 /\ Moving(a) \in Nat /\ Moving(a)' = 0
  BY <1>1 DEF Moving
<1>6. start[a] # Latest => Cardinality(Again(a)') <= faults' + Moving(a)'
  <2>1. start[a] # Latest => Cardinality(Again(a)) <= faults + Moving(a)
    BY DEF ReduceInv
  <2>2. QED BY <1>1, <1>2, <1>3, <1>5, <2>1, AgainFinite
<1>7. (start[a] # Latest => \A j \in DOMAIN state[a] :
               j \in Again(a) \/ (j > 1 /\ IsNext(a, state[a][j], state[a][j - 1])))'
  BY <1>1, <1>3, <1>4 DEF ReduceInv
<1>8. QED BY <1>1, <1>3, <1>6, <1>7 DEF ReduceInv

\* A step keeps what is known of every reducer's state.
LEMMA ReduceStep ==
    ASSUME SupervisorAssumption, Always, Always', Reducers, [Next]_vars
    PROVE  Reducers'
<1>1. /\ TypeOK /\ TypeOK' /\ FlushInv /\ FiberInv /\ Grows /\ kind' = kind
      /\ faults \in Nat /\ faults' \in Nat /\ log' \in Seq(Origin)
      /\ \A a \in Agents : start'[a] \in Cursor
  <2>1. TypeOK /\ TypeOK' /\ FlushInv /\ FiberInv
    BY DEF Always
  <2>2. Grows
    BY <2>1, StepGrows
  <2>3. \A a \in Agents : start'[a] \in Cursor
    BY <2>1 DEF TypeOK
  <2>4. faults \in Nat /\ faults' \in Nat /\ log' \in Seq(Origin)
    BY <2>1 DEF TypeOK
  <2>5. QED BY <2>1, <2>2, <2>3, <2>4 DEF Grows
<1> SUFFICES ASSUME NEW b \in Agents, kind[b] = "reduce", ReduceInv(b)
             PROVE  ReduceInv(b)'
  BY <1>1 DEF Reducers
<1> DEFINE Stays == /\ up' = up /\ start' = start /\ state'[b] = state[b] /\ pos'[b] = pos[b]
                    /\ faults <= faults'
                    /\ \/ pc'[b] = pc[b]
                       \/ pc[b] \notin {"off", "subscribe"} /\ pc'[b] \notin {"off", "subscribe"}
<1>2. Stays => ReduceInv(b)'
  BY <1>1, ReduceStays
<1>3. CASE Start
  <2>1. ~up /\ UNCHANGED <<state, pos>> /\ pc'[b] \in {"off", "subscribe"}
    BY <1>3 DEF Start, own
  <2>2. state'[b] = <<>> /\ pos'[b] = 0
    BY <2>1 DEF ReduceInv
  <2>3. QED BY <1>1, <2>1, <2>2, ReduceFresh
<1>4. CASE Stop \/ Kill
  <2>1. state'[b] = <<>> /\ pos'[b] = 0 /\ pc'[b] = "off"
    BY <1>4 DEF Stop, Kill, Gone
  <2>2. QED BY <1>1, <2>1, ReduceFresh
<1>5. CASE \E a \in Agents : Subscribe(a)
  <2>1. PICK a \in Agents : Subscribe(a)
    BY <1>5
  <2>2. CASE a = b
    BY <1>1, <2>1, <2>2, ReduceSubscribe
  <2>3. CASE a # b
    <3>1. Stays
      BY <1>1, <2>1, <2>3 DEF Subscribe, SubscribeAt, TypeOK, own
    <3>2. QED BY <1>2, <3>1
  <2>4. QED BY <2>2, <2>3
<1>6. CASE \E a \in Agents : Handle(a)
  <2>1. PICK a \in Agents : Handle(a)
    BY <1>6
  <2>2. PICK i \in Ahead(a) : HandleThen(a, i)
    BY <2>1 DEF Handle
  <2>3. CASE a = b
    BY <1>1, <2>2, <2>3, ReduceHandle
  <2>4. CASE a # b
    <3>1. Stays
      BY <1>1, <2>2, <2>4 DEF HandleThen, TypeOK
    <3>2. QED BY <1>2, <3>1
  <2>5. QED BY <2>3, <2>4
<1>7. CASE \E a \in Agents : Retry(a)
  <2>1. PICK a \in Agents : Retry(a)
    BY <1>7
  <2>2. CASE a = b
    BY <1>1, <2>1, <2>2, ReduceRetry
  <2>3. CASE a # b
    <3>1. Stays
      BY <1>1, <2>1, <2>3 DEF Retry, Fails, Strikes, TypeOK
    <3>2. QED BY <1>2, <3>1
  <2>4. QED BY <2>2, <2>3
<1>8. CASE \E a \in Agents : Emit(a) \/ Mark(a)
  <2>1. PICK a \in Agents : Emit(a) \/ Mark(a)
    BY <1>8
  <2>2. /\ UNCHANGED <<up, start, state, pos, faults>> /\ pc[a] \in {"emit", "mark"}
        /\ \E there \in {"mark", "flush", "wait"} : pc' = [pc EXCEPT ![a] = there]
    BY <2>1 DEF Emit, Mark, own
  <2>3. pc'[b] = pc[b] \/ (pc[b] \in {"emit", "mark"} /\ pc'[b] \in {"mark", "flush", "wait"})
    BY <1>1, <2>2 DEF TypeOK
  <2>4. Stays
    BY <1>1, <2>2, <2>3
  <2>5. QED BY <1>2, <2>4
<1>9. CASE \E x \in Fibers : PersistWrite(x)
  <2>1. PICK x \in Fibers : PersistWrite(x)
    BY <1>9
  <2>2. x = Timer \/ (x \in Agents /\ pc[x] = "flush")
    BY <1>1, <2>1 DEF PersistWrite, FiberInv, Fibers
  <2>3. pc'[b] = pc[b] \/ (pc[b] = "flush" /\ pc'[b] = "wait")
    BY <1>1, <2>1, <2>2 DEF PersistWrite, TypeOK
  <2>4. Stays
    BY <1>1, <2>1, <2>3 DEF PersistWrite, own
  <2>5. QED BY <1>2, <2>4
<1>10. ASSUME UNCHANGED <<up, start, state, pos, pc>>, faults <= faults'
       PROVE  ReduceInv(b)'
  BY <1>2, <1>10
<1>11. CASE HeartbeatFails
  <2>1. UNCHANGED <<up, start, state, pos, pc>> /\ faults' = faults + 1
    BY <1>11 DEF HeartbeatFails, Strikes, own
  <2>2. faults <= faults'
    BY <1>1, <2>1
  <2>3. QED BY <1>10, <2>1, <2>2
<1>12. CASE \/ UNCHANGED vars \/ Arrive \/ Heartbeat
            \/ \E x \in Fibers : (\E a \in Agents : Flush(x, a)) \/ PersistOpen(x)
  <2>1. UNCHANGED <<up, start, state, pos, pc, faults>>
    BY <1>12 DEF vars, own, Arrive, Heartbeat, Flush, PersistOpen
  <2>2. faults <= faults'
    BY <1>1, <2>1
  <2>3. QED BY <1>10, <2>1, <2>2
<1>13. QED
  BY <1>3, <1>4, <1>5, <1>6, <1>7, <1>8, <1>9, <1>11, <1>12 DEF Next

\* A reducer's state is what its events say it is: every event from its start on, in order and
\* without a gap, up to where its subscription stands, and again from the start only after a
\* failure, whatever cursors the file held.
THEOREM SupervisorStateReplays == Spec => []StateReplays
<1>1. Init => Reducers
  <2>1. SUFFICES ASSUME Init, NEW a \in Agents PROVE ReduceInv(a)
    BY DEF Reducers
  <2>2. DOMAIN state[a] = {} /\ state[a] = <<>> /\ pos[a] = 0 /\ pc[a] = "off" /\ faults = 0
    BY <2>1 DEF Init
  <2>3. Again(a) = {} /\ Cardinality({}) = 0
    BY <2>2, FS_EmptySet DEF Again
  <2>4. StartAt(a) \in Nat
    BY <2>1, AlwaysInit, StartAtNat, SupervisorAssumption DEF Always
  <2>5. Moving(a) = 0
    BY <2>2, <2>4 DEF Moving
  <2>6. QED BY <2>2, <2>3, <2>4, <2>5 DEF ReduceInv
<1>2. Always /\ Always' /\ Reducers /\ [Next]_vars => Reducers'
  BY ReduceStep, SupervisorAssumption
<1>3. Always /\ Reducers => StateReplays
  <2>1. SUFFICES ASSUME Always, NEW a \in Agents, ReduceInv(a), start[a] # Latest
                 PROVE  LET s == state[a]
                            again == {j \in DOMAIN s : IsNext(a, s[j], StartAt(a))}
                        IN  /\ \A j \in DOMAIN s :
                                   j \in again \/ (j > 1 /\ IsNext(a, s[j], s[j - 1]))
                            /\ Cardinality(again) <= 1 + faults
                            /\ up /\ pos[a] > StartAt(a) => s # <<>> /\ s[Len(s)] = pos[a]
    BY DEF Reducers, StateReplays
  <2>2. {j \in DOMAIN state[a] : IsNext(a, state[a][j], StartAt(a))} = Again(a)
    BY <2>1 DEF Again
  <2>3. Cardinality(Again(a)) <= 1 + faults
    <3>1. Moving(a) <= 1 /\ Moving(a) \in Nat /\ faults \in Nat /\ Cardinality(Again(a)) \in Nat
      BY <2>1, AgainFinite DEF Moving, Always, TypeOK
    <3>2. QED BY <2>1, <3>1 DEF ReduceInv
  <2>4. QED BY <2>1, <2>2, <2>3 DEF ReduceInv
<1>4. QED BY <1>1, <1>2, <1>3, AlwaysHolds, PTL DEF Spec
=============================================================================
