---------------------------- MODULE EventStream ----------------------------
(***************************************************************************)
(* What the EventStore interface of packages/core promises a subscriber,   *)
(* with no snapshot, queue or lock in sight: one log that only grows, in   *)
(* id order, and per subscriber the events of the log after its start that *)
(* match its filter, in log order.  The one licence to skip is lag: an     *)
(* event with Capacity others behind it may be lost.                       *)
(***************************************************************************)
EXTENDS EventLog

CONSTANTS Subs, Capacity

VARIABLES log, got, start, filter

svars == <<log, got, start, filter>>

Init ==
    /\ log = <<>>
    /\ got = [s \in Subs |-> <<>>]
    /\ start = [s \in Subs |-> 0]
    /\ filter = [s \in Subs |-> {}]

\* The log is extended at its end by a batch whose ids follow every id before.
Extend ==
    /\ Len(log') >= Len(log)
    /\ SubSeq(log', 1, Len(log)) = log
    /\ Increasing(log')
    /\ UNCHANGED <<got, start, filter>>

\* A new subscription forgets what the previous one received.
Begin(s) ==
    /\ got' = [got EXCEPT ![s] = <<>>]
    /\ \E n \in 0 .. LastId(log) : start' = [start EXCEPT ![s] = n]
    /\ \E f \in Filter : filter' = [filter EXCEPT ![s] = f]
    /\ UNCHANGED log

\* The next event for s, or a later one if those between are too far behind.
Deliver(s) ==
    LET Next(i) ==
            /\ log[i].id > start[s] /\ log[i].id > LastId(got[s])
            /\ Matches(filter[s], log[i])
    IN  \E i \in DOMAIN log :
            /\ Next(i)
            /\ \A j \in 1 .. i - 1 : Next(j) => j + Capacity <= Len(log)
            /\ got' = [got EXCEPT ![s] = Append(@, log[i])]
            /\ UNCHANGED <<log, start, filter>>

Next == Extend \/ \E s \in Subs : Begin(s) \/ Deliver(s)

Spec == Init /\ [][Next]_svars
=============================================================================
