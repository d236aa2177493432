----------------------------- MODULE CloudStore -----------------------------
(***************************************************************************)
(* packages/store-cloud: one subscription of a CloudStore, from subscribe  *)
(* to the events its consumer sees, over connections that break or fall    *)
(* silent.  A call of subscribe shares no state with another, so one says  *)
(* all there is to say.                                                    *)
(*                                                                         *)
(* The server's store keeps the promise of EventStream: an id per position *)
(* of one log, and to every connection the events after its cursor, in     *)
(* order.  Events that the subscription's filter rejects are not in log.   *)
(***************************************************************************)
EXTENDS Integers, Sequences, FiniteSets

CONSTANTS
    Earliest, Latest,
    PageSize,    \* limit of a QueryAfter of the drain: 1024 in the code
    MaxRetries,  \* Schedule.recurs: 10 in the code
    MaxLog,      \* bound: events
    MaxFaults    \* bound: faults in one behaviour

ASSUME CloudAssumption ==
    /\ Earliest \notin Nat /\ Latest \notin Nat /\ Earliest # Latest
    /\ PageSize \in Nat \ {0} /\ MaxRetries \in Nat /\ MaxLog \in Nat /\ MaxFaults \in Nat

VARIABLES
    len,        \* the length of the server's log
    phase,      \* where the stream of subscribe is
    cursor,     \* the cursor subscribe was called with
    given,      \* the last event the server has put on the page, or the connection
    taken,      \* the last of them the client has read: taken+1 .. given are on their way
    delivered,  \* Ref lastDelivered
    armed,      \* heartbeatGuard has seen a heartbeat on this connection
    hung,       \* the connection is silent for ever and nobody has been told
    retries,    \* recurrences of the retry schedule since an event last went through
    out,        \* history: the events the consumer has seen
    floor,      \* history: the events after it are owed, -1 before "latest" has a meaning
    again,      \* history: the drain was restarted after it had emitted
    faults

vars == <<len, phase, cursor, given, taken, delivered, armed, hung, retries, out, floor,
          again, faults>>

conn == <<given, taken, armed, hung>>
seen == <<out, floor, again>>

Phases == {"off", "drain", "connect", "live", "failed"}
Cursor == Nat \cup {Earliest, Latest}

\* What the server makes of a cursor when the request arrives.
From(c) == CASE c = Earliest -> 0
             [] c = Latest -> len
             [] OTHER -> c

Init ==
    /\ len = 0 /\ phase = "off" /\ cursor = Earliest
    /\ given = 0 /\ taken = 0 /\ delivered = Latest
    /\ armed = FALSE /\ hung = FALSE /\ retries = 0
    /\ out = <<>> /\ floor = -1 /\ again = FALSE /\ faults = 0

Strikes == faults < MaxFaults /\ faults' = faults + 1

\* The end of a hung connection is no further fault.
BreaksAnew == IF hung THEN UNCHANGED faults ELSE Strikes

\* Somebody appends on the server.
Arrive ==
    /\ len < MaxLog
    /\ len' = len + 1
    /\ UNCHANGED <<phase, cursor, given, taken, delivered, armed, hung, retries, out, floor,
                   again, faults>>

\* subscribe: with drainBeforeSubscribe the pages come first.
Subscribe(c, drain) ==
    /\ phase = "off"
    /\ phase' = IF drain THEN "drain" ELSE "connect"
    /\ cursor' = c
    /\ given' = From(c) /\ taken' = given'
    /\ floor' = IF c = Latest THEN -1 ELSE given'
    /\ UNCHANGED <<len, delivered, armed, hung, retries, out, again, faults>>
----------------------------------------------------------------------------
\* Mutant: the whole of what has come in counts as delivered with its first event.
TakeMarksAll ==
    /\ taken < given
    /\ taken' = taken + 1
    /\ out' = Append(out, taken') /\ delivered' = given
    /\ retries' = 0
    /\ UNCHANGED <<len, phase, cursor, given, armed, hung, floor, again, faults>>

\* The next event goes through the tap that sets lastDelivered, and to the consumer.
\* An event that passes resets the schedule of Stream.retry.
TakeNext ==
    /\ taken < given
    /\ taken' = taken + 1
    /\ out' = Append(out, taken') /\ delivered' = taken'
    /\ retries' = 0
    /\ UNCHANGED <<len, phase, cursor, given, armed, hung, floor, again, faults>>

\* Mutant: the page is taken to be full.
FetchFull ==
    /\ phase = "drain" /\ taken = given
    /\ cursor # Latest /\ given < len
    /\ given' = given + PageSize
    /\ UNCHANGED <<len, phase, cursor, taken, delivered, armed, hung, retries, out, floor,
                   again, faults>>

\* unfoldChunkEffect asks for a page when the last one has been emitted; "latest" has none.
FetchPage ==
    /\ phase = "drain" /\ taken = given
    /\ cursor # Latest /\ given < len
    /\ given' = IF given + PageSize < len THEN given + PageSize ELSE len
    /\ UNCHANGED <<len, phase, cursor, taken, delivered, armed, hung, retries, out, floor,
                   again, faults>>

DrainEmit == phase = "drain" /\ TakeNext

\* An empty page ends the drain; subscribeStream has a schedule of its own.
DrainEnds ==
    /\ phase = "drain" /\ taken = given
    /\ cursor = Latest \/ given = len
    /\ phase' = "connect" /\ retries' = 0
    /\ UNCHANGED <<len, cursor, conn, delivered, seen, faults>>

\* Stream.retry around the drain: unfoldChunkEffect starts over at the first cursor.
FetchFails ==
    /\ phase = "drain" /\ taken = given /\ Strikes
    /\ IF retries < MaxRetries
       THEN /\ retries' = retries + 1
            /\ given' = From(cursor) /\ taken' = given'
            /\ again' = (again \/ out # <<>>)
            /\ UNCHANGED phase
       ELSE /\ phase' = "failed"
            /\ UNCHANGED <<retries, given, taken, again>>
    /\ UNCHANGED <<len, cursor, delivered, armed, hung, out, floor>>
----------------------------------------------------------------------------
\* The server opens a subscription at cursor c, and the client a new heartbeatGuard.
ConnectAt(c) ==
    /\ phase = "connect" /\ phase' = "live"
    /\ given' = From(c) /\ taken' = given'
    /\ armed' = FALSE /\ hung' = FALSE
    /\ floor' = IF floor = -1 THEN given' ELSE floor
    /\ UNCHANGED <<len, cursor, delivered, retries, out, again, faults>>

\* Mutant: every connection starts at the cursor of the call.
ConnectAfresh == ConnectAt(cursor)

\* connect: from lastDelivered, unless nothing has been delivered.
Connect == ConnectAt(IF delivered = Latest THEN cursor ELSE delivered)

\* subscribeHandler: the next event of the log goes out.
Send ==
    /\ phase = "live" /\ ~hung /\ given < len
    /\ given' = given + 1
    /\ UNCHANGED <<len, phase, cursor, taken, delivered, armed, hung, retries, out, floor,
                   again, faults>>

Receive == phase = "live" /\ TakeNext

\* A heartbeat reaches the client.  A server may know of none.
Beat ==
    /\ phase = "live" /\ ~hung /\ ~armed
    /\ armed' = TRUE
    /\ UNCHANGED <<len, phase, cursor, given, taken, delivered, hung, retries, out, floor,
                   again, faults>>

\* The connection dies without a word; some of what was on its way still arrives.
Hang ==
    /\ phase = "live" /\ ~hung /\ Strikes
    /\ hung' = TRUE
    /\ given' \in taken .. given
    /\ UNCHANGED <<len, phase, cursor, taken, delivered, armed, retries, out, floor, again>>

\* Stream.retry around connect: what was on its way is gone.
Reconnect ==
    /\ IF retries < MaxRetries
       THEN phase' = "connect" /\ retries' = retries + 1
       ELSE phase' = "failed" /\ UNCHANGED retries
    /\ given' = taken
    /\ UNCHANGED <<len, cursor, taken, delivered, armed, hung, out, floor, again>>

\* An RpcClientError: the transport fails, or a hung connection is found out at last.
Disconnect ==
    /\ phase = "live"
    /\ BreaksAnew
    /\ Reconnect

\* Mutant: the watchdog takes "no heartbeat yet" for silence, and silence for none.
WatchdogUnarmed ==
    /\ phase = "live" /\ ~armed
    /\ BreaksAnew
    /\ Reconnect

\* WatchdogTimeout: no heartbeat for three intervals after the first one.  A slow
\* network may delay heartbeats that long.
Watchdog ==
    /\ phase = "live" /\ armed
    /\ BreaksAnew
    /\ Reconnect

\* An error that isRetryable does not accept.
Permanent ==
    /\ phase \in {"drain", "live"} /\ Strikes
    /\ phase' = "failed"
    /\ UNCHANGED <<len, cursor, conn, delivered, retries, seen>>
----------------------------------------------------------------------------
Client ==
    \/ \E c \in {Earliest, Latest} \cup 1 .. len, drain \in BOOLEAN : Subscribe(c, drain)
    \/ FetchPage \/ DrainEmit \/ DrainEnds
    \/ Connect \/ Receive \/ Watchdog

Environment ==
    Arrive \/ Send \/ Beat \/ FetchFails \/ Hang \/ Disconnect \/ Permanent

Next == Client \/ Environment

Spec == Init /\ [][Next]_vars

\* Effect runs the client's fibers and the server's stream.  Nothing makes a heartbeat,
\* a fault or an append happen, and a hung connection need not be found out unless the
\* watchdog is armed.
FairSpec ==
    /\ Spec
    /\ WF_vars(FetchPage) /\ WF_vars(DrainEmit) /\ WF_vars(DrainEnds)
    /\ WF_vars(Connect) /\ WF_vars(Send) /\ WF_vars(Receive)
    /\ WF_vars(hung /\ Watchdog)
----------------------------------------------------------------------------
TypeOK ==
    /\ len \in Nat /\ phase \in Phases /\ cursor \in Cursor
    /\ given \in 0 .. len /\ taken \in 0 .. given
    /\ delivered \in Nat \cup {Latest}
    /\ armed \in BOOLEAN /\ hung \in BOOLEAN /\ again \in BOOLEAN
    /\ retries \in 0 .. MaxRetries
    /\ out \in Seq(Nat) /\ floor \in Nat \cup {-1} /\ faults \in 0 .. MaxFaults

\* The events after it are owed to the consumer for certain: from "latest", those after
\* the first one it saw.
Base == IF cursor # Latest THEN floor
        ELSE IF out = <<>> THEN len ELSE out[1] - 1

\* No reconnection, failed page or restarted drain makes the consumer miss an event: when
\* it sees one, it has seen all that are owed before it (connect and lastDelivered).
NothingLost ==
    \A i \in DOMAIN out : \A n \in Base + 1 .. out[i] - 1 : \E j \in 1 .. i - 1 : out[j] = n

\* CloudStore.ts:170-173 says so of every subscription: all events after the start of its
\* first connection.
NoLossOnReconnect ==
    \A i \in DOMAIN out : \A n \in floor + 1 .. out[i] - 1 : \E j \in 1 .. i - 1 : out[j] = n

\* The consumer sees events in log order and none twice, however often the connection is
\* replaced, unless a page of the drain failed after an earlier one was emitted.
NothingTwice == ~again => \A i, j \in DOMAIN out : i < j => out[i] < out[j]

\* Once faults stop, every event that is owed is delivered, unless the stream has failed
\* or hangs on a connection on which no heartbeat ever came.
CatchesUp ==
    \A n \in 1 .. MaxLog :
        (phase # "off" /\ Base < n /\ n <= len)
            ~> (\/ \E i \in DOMAIN out : out[i] = n
                \/ phase = "failed"
                \/ phase = "live" /\ hung /\ ~armed)
=============================================================================
