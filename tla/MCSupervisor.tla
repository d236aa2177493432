---------------------------- MODULE MCSupervisor ----------------------------
(***************************************************************************)
(* Two agents in a chain: a emits an event for every external one, and b   *)
(* reads what a emits.                                                     *)
(***************************************************************************)
EXTENDS Supervisor, TLC

CONSTANTS a, b

MCOn == (a :> {External}) @@ (b :> {Out})

Plain == {[x \in Agents |-> "handle"]}
Alone == {(a :> k) @@ (b :> "none") : k \in {"once", "reduce"}}
AnyKind == Plain \cup Alone

\* Replays matter to a state and to keys from the second event on.
Arrivals == [k \in Kinds |-> IF k \in Plain THEN 1 ELSE 2]
Strokes == [k \in Kinds |-> IF k \in Plain THEN 3 ELSE 2]
Once == [k \in Kinds |-> 1]

\* Both agents were given "earliest", the caller's way to ask for a replay.
FromEarliest == [x \in Agents |-> Earliest]

\* Neither agent is in the cursor file.
FromLatest == [x \in Agents |-> Latest]
=============================================================================
