------------------------------ MODULE Gateway ------------------------------
(***************************************************************************)
(* The way of an append from a CloudStore to the store behind the server:  *)
(* packages/store-cloud (Auth.ts, RegistrySync.ts and the append of        *)
(* CloudStore.ts), packages/server, the handlers of packages/protocol and  *)
(* the EventRegistry both ends keep.  What a Subscribe delivers is the     *)
(* matter of CloudStore; here it is one more request that needs a token.   *)
(*                                                                         *)
(* A digest is the sha256 of the sorted definitions of a registry: it      *)
(* tells two of them apart exactly when they differ, so it is written as   *)
(* the map itself.  A token is the epoch whose server generated it, 0 for  *)
(* the one an operator chose.  The store outlives its servers: its file,   *)
(* line by line, or the array of a MemoryStore.  What a reader makes of    *)
(* the lines, and of half a line, is the matter of FileStore.              *)
(***************************************************************************)
EXTENDS Integers, Sequences, FiniteSets

CONSTANTS
    Clients,
    Session,      \* LiveFromBrowser without token: cookie bootstrap
    Browser,      \* LiveFromBrowser with a token provider
    Room,         \* their provider hands out the room token of the page's address
    Bare,         \* Live without token: no Authorization header
    Types,
    Schemas,      \* ASTs a program gives its event types
    Any,          \* the AST of Schema.Unknown
    Absent,       \* a type that is not registered
    Boot,         \* the types the server's own program registers ...
    BootSchema,   \* ... and their AST
    Modes,        \* how the server may be started
    None, NoToken,
    Batches,      \* bound: the lengths of batches
    MaxCalls,     \* bound: calls in one behaviour
    MaxSyncs,     \* bound: runs of syncRegistry
    MaxRestarts   \* bound: restarts of the server

ASSUME GatewayAssumption ==
    /\ Session \subseteq Clients /\ Browser \subseteq Clients
    /\ Room \subseteq Clients /\ Bare \subseteq Clients
    /\ Session \cap (Browser \cup Room \cup Bare) = {} /\ Bare \cap (Browser \cup Room) = {}
    /\ Any \notin Schemas /\ Absent \notin Schemas \cup {Any}
    /\ Boot \subseteq Types /\ BootSchema \in Schemas
    /\ Modes \subseteq {"generated", "fixed", "open"} /\ Modes # {}
    /\ NoToken \notin Nat /\ None \notin Nat \cup {NoToken}
    /\ None \notin [Types -> Schemas \cup {Any, Absent}]
    /\ Batches \subseteq Nat /\ {MaxCalls, MaxSyncs, MaxRestarts} \subseteq Nat

VARIABLES
    epoch,    \* which server is running
    bearer,   \* opts.auth.bearer of it, NoToken for an empty list
    sreg,     \* its EventRegistry
    log,      \* the store: for every event the call that appended it
    broken,   \* history: the calls whose append the store has failed
    creg,     \* the EventRegistry of each client
    cached,   \* cachedToken of each client, None when empty or expired
    call,     \* every call so far
    tip,      \* lastAppended of each client, 0 for "earliest"
    sync,     \* syncRegistry of each client
    syncs,    \* how often it has been run
    synced,   \* history: the last sync that ended, and which server it spoke to
    late      \* history: a token was stored that the client had been refused before

vars == <<epoch, bearer, sreg, log, broken, creg, cached, call, tip, sync, syncs, synced, late>>
server == <<epoch, bearer, sreg, log, broken>>
syncing == <<sync, syncs, synced>>

Map == [Types -> Schemas \cup {Any, Absent}]
Registry == [map : Map, cache : Map \cup {None}]
Token == Nat \cup {NoToken}
\* after, mine, theirs, born and insync are history: the calls of the client answered before
\* this one, the two registries the gate compared, the server when it was issued, and whether
\* syncRegistry had ended with that server and these definitions.
Call == [client : Clients, op : {"append", "subscribe"}, size : Nat, digest : Map \cup {None},
         pc : {"mint", "arrive", "request", "refused", "answer", "done"},
         try : 1 .. 2, tok : Token,
         out : {"none", "appended", "unwritten", "stale", "served", "AuthFailed", "unauthorized",
                "failed"},
         after : SUBSET Nat, mine : Map, theirs : Map, born : Nat,
         insync : BOOLEAN]

Nothing == [t \in Types |-> Absent]
Known(map) == {t \in Types : map[t] # Absent}
----------------------------------------------------------------------------
\* EventRegistry: the map and the digest it memoises.

NewRegistry(defs) == [map |-> [t \in Types |-> IF t \in defs THEN BootSchema ELSE Absent],
                      cache |-> None]

\* Mutant: the memoised digest survives.
RegisterKeepingDigest(reg, t, a) ==
    IF reg.map[t] # Absent THEN reg ELSE [reg EXCEPT !.map[t] = a]

\* register: a known type is a DuplicateEventType, and stays as it is.
Register(reg, t, a) ==
    IF reg.map[t] # Absent THEN reg ELSE [map |-> [reg.map EXCEPT ![t] = a], cache |-> None]

Digest(reg) == IF reg.cache # None THEN reg.cache ELSE reg.map
Digested(reg) == [reg EXCEPT !.cache = Digest(reg)]

\* Mutant: what the client has is taken to be right.
PushOver(reg, defs) ==
    [map |-> [t \in Types |-> IF t \in defs THEN Any ELSE reg.map[t]], cache |-> None]

\* registryPushHandler: unknown types are registered, under Schema.Unknown.
PushInto(reg, defs) ==
    IF defs \subseteq Known(reg.map) THEN reg
    ELSE [map |-> [t \in Types |-> IF t \in defs /\ reg.map[t] = Absent THEN Any ELSE reg.map[t]],
          cache |-> None]
----------------------------------------------------------------------------
\* The command `serve`: the token of a server.

BearerOf(mode, e) == CASE mode = "generated" -> e
                       [] mode = "fixed" -> 0
                       [] mode = "open" -> NoToken

\* verifyToken: an empty list lets everybody in.
Verified(tok) == bearer = NoToken \/ tok = bearer

Init ==
    /\ epoch = 1 /\ \E m \in Modes : bearer = BearerOf(m, 1)
    /\ sreg = NewRegistry(Boot) /\ log = <<>> /\ broken = {}
    /\ creg = [c \in Clients |-> NewRegistry({})]
    /\ cached = [c \in Clients |-> None]
    /\ call = <<>> /\ tip = [c \in Clients |-> 0]
    /\ sync = [c \in Clients |-> [pc |-> "idle", digest |-> None, defs |-> {}]]
    /\ syncs = 0
    /\ synced = [c \in Clients |-> [epoch |-> 0, map |-> Nothing]]
    /\ late = [c \in Clients |-> FALSE]

\* The server ends and another is started: a registry anew, and unless it is fixed a token.
Serve(m) ==
    /\ epoch <= MaxRestarts
    /\ epoch' = epoch + 1 /\ bearer' = BearerOf(m, epoch')
    /\ sreg' = NewRegistry(Boot)
    /\ UNCHANGED <<log, broken, creg, cached, call, tip, syncing, late>>

\* defineEvent and register in the program of a client.
Define(c, t, a) ==
    /\ creg[c].map[t] = Absent
    /\ creg' = [creg EXCEPT ![c] = Register(@, t, a)]
    /\ UNCHANGED <<server, cached, call, tip, syncing, late>>
----------------------------------------------------------------------------
\* A client's call.  From the read of the token cache to the request, or to the wait for the
\* provider, nothing else of the client runs: get is synchronous up to its await.

Answered(c) == {n \in DOMAIN call : call[n].client = c /\ call[n].pc = "done"}

\* withBearerToken over the cache: its token, or none at all, or the provider is asked.
Ready(c, cache) ==
    CASE c \in Bare -> [pc |-> "request", tok |-> NoToken]
      [] c \notin Bare /\ cache # None -> [pc |-> "request", tok |-> cache]
      [] OTHER -> [pc |-> "mint", tok |-> NoToken]

Issue(c, op, size, digest, cache) ==
    LET r == Ready(c, cache)
    IN  /\ Len(call) < MaxCalls
        /\ call' = Append(call, [client |-> c, op |-> op, size |-> size, digest |-> digest,
                                 pc |-> r.pc, try |-> 1, tok |-> r.tok, out |-> "none",
                                 after |-> Answered(c), mine |-> creg[c].map,
                                 theirs |-> Nothing, born |-> epoch,
                                 insync |-> synced[c] = [epoch |-> epoch, map |-> creg[c].map]])

\* append: the digest is read first.
IssueAppend(c, size) ==
    /\ Issue(c, "append", size, Digest(creg[c]), cached[c])
    /\ creg' = [creg EXCEPT ![c] = Digested(@)]
    /\ UNCHANGED <<server, cached, tip, syncing, late>>

\* connect: onSubscribeConnect drops the token before every Subscribe.
IssueSubscribe(c) ==
    LET cache == IF c \in Browser THEN None ELSE cached[c]
    IN  /\ Issue(c, "subscribe", 0, None, cache)
        /\ cached' = [cached EXCEPT ![c] = cache]
        /\ UNCHANGED <<server, creg, tip, syncing, late>>

At(n, pc) == n \in DOMAIN call /\ call[n].pc = pc
Goto(n, pc) == call' = [call EXCEPT ![n].pc = pc]
End(n, out) == call' = [call EXCEPT ![n].pc = "done", ![n].out = out, ![n].digest = None]

\* Mutant: "no token" is taken for an empty cache.
MintNull(n) ==
    /\ At(n, "mint")
    /\ call' = [call EXCEPT ![n].pc = "arrive",
                            ![n].tok = IF bearer = NoToken THEN None ELSE bearer]
    /\ UNCHANGED <<server, creg, cached, tip, syncing, late>>

\* The provider answers: the session-token route and every other provider know the token
\* of the server that is running, a room page the one it was opened with.
Mint(n) ==
    /\ At(n, "mint")
    /\ call' = [call EXCEPT ![n].pc = "arrive",
                            ![n].tok = IF call[n].client \in Room THEN 0 ELSE bearer]
    /\ UNCHANGED <<server, creg, cached, tip, syncing, late>>

Refused(c) == {call[n].tok : n \in {m \in Answered(c) : call[m].out = "unauthorized"}}

\* cachedToken: what was awaited is stored, whatever has happened to the cache meanwhile.
TokenArrives(n) ==
    LET c == call[n].client
    IN  /\ At(n, "arrive") /\ Goto(n, "request")
        /\ cached' = [cached EXCEPT ![c] = call[n].tok]
        /\ late' = [late EXCEPT ![c] = @ \/ call[n].tok \in Refused(c)]
        /\ UNCHANGED <<server, creg, tip, syncing>>

\* The time to live of the cached token is over.
Expire(c) ==
    /\ cached[c] # None /\ cached' = [cached EXCEPT ![c] = None]
    /\ UNCHANGED <<server, creg, call, tip, syncing, late>>
----------------------------------------------------------------------------
\* The server takes a request: the middleware, then the handler.

Refuse(n) ==
    /\ At(n, "request") /\ ~Verified(call[n].tok)
    /\ Goto(n, "refused")
    /\ UNCHANGED <<server, creg, cached, tip, syncing, late>>

Gate(n) == Digest(sreg) = call[n].digest

AnswerWith(n, out) ==
    call' = [call EXCEPT ![n].pc = "answer", ![n].out = out, ![n].theirs = sreg.map]

Lines(n, k) == [i \in 1 .. k |-> n]

\* Mutant: the handler runs before the token is looked at.
AppendUnverified(n) ==
    /\ At(n, "request") /\ call[n].op = "append"
    /\ IF Gate(n) THEN log' = log \o Lines(n, call[n].size) ELSE UNCHANGED log
    /\ IF Verified(call[n].tok)
       THEN AnswerWith(n, IF Gate(n) THEN "appended" ELSE "stale")
       ELSE Goto(n, "refused")
    /\ sreg' = Digested(sreg)
    /\ UNCHANGED <<epoch, bearer, broken, creg, cached, tip, syncing, late>>

\* appendHandler: the digests are compared, then the store appends the batch.  The write to
\* the file may fail, or the sync behind it: AppendWireError, and the lines written so far
\* stay.  That is as well what a server leaves behind that ends while it writes.
HandleAppend(n) ==
    /\ At(n, "request") /\ Verified(call[n].tok) /\ call[n].op = "append"
    /\ \/ /\ Gate(n) /\ AnswerWith(n, "appended")
          /\ log' = log \o Lines(n, call[n].size) /\ UNCHANGED broken
       \/ /\ Gate(n) /\ AnswerWith(n, "unwritten")
          /\ \E k \in 0 .. call[n].size : log' = log \o Lines(n, k)
          /\ broken' = broken \cup {n}
       \/ /\ ~Gate(n) /\ AnswerWith(n, "stale")
          /\ UNCHANGED <<log, broken>>
    /\ sreg' = Digested(sreg)
    /\ UNCHANGED <<epoch, bearer, creg, cached, tip, syncing, late>>

HandleSubscribe(n) ==
    /\ At(n, "request") /\ Verified(call[n].tok) /\ call[n].op = "subscribe"
    /\ AnswerWith(n, "served")
    /\ UNCHANGED <<server, creg, cached, tip, syncing, late>>
----------------------------------------------------------------------------
\* The client takes the response.

\* Mutant: the cache is left alone on the 401.
RefreshKeeping(n) ==
    /\ At(n, "refused") /\ call[n].client \notin Session
    /\ End(n, "unauthorized")
    /\ UNCHANGED <<server, creg, cached, tip, syncing, late>>

\* withRefreshOn401: the token is dropped for the next request, this one has failed.
RefreshOn401(n) ==
    LET c == call[n].client
    IN  /\ At(n, "refused") /\ c \notin Session
        /\ End(n, "unauthorized")
        /\ cached' = [cached EXCEPT ![c] = None]
        /\ UNCHANGED <<server, creg, tip, syncing, late>>

\* Mutant: the request is sent again as often as it takes.
UnauthorizedAgain(n) ==
    /\ At(n, "refused") /\ call[n].client \in Session
    /\ Goto(n, "request")
    /\ UNCHANGED <<server, creg, cached, tip, syncing, late>>

\* Mutant: the cache is left alone on the 401.
UnauthorizedKeeping(n) ==
    /\ At(n, "refused") /\ call[n].client \in Session
    /\ IF call[n].try = 1
       THEN call' = [call EXCEPT ![n].pc = "request", ![n].try = 2]
       ELSE End(n, "AuthFailed")
    /\ UNCHANGED <<server, creg, cached, tip, syncing, late>>

\* sessionTokenFetch: the token is dropped and the request sent once more; the second 401 is
\* the end, with the cache as it is.
Unauthorized(n) ==
    LET c == call[n].client
    IN  /\ At(n, "refused") /\ c \in Session
        /\ IF call[n].try = 1
           THEN /\ call' = [call EXCEPT ![n].pc = "mint", ![n].try = 2]
                /\ cached' = [cached EXCEPT ![c] = None]
           ELSE End(n, "AuthFailed") /\ UNCHANGED cached
        /\ UNCHANGED <<server, creg, tip, syncing, late>>

Positions(n) == {i \in DOMAIN log : log[i] = n}
LastOf(n) == CHOOSE i \in Positions(n) : \A j \in Positions(n) : j <= i
FirstOf(n) == CHOOSE i \in Positions(n) : \A j \in Positions(n) : i <= j

\* Mutant: the first event of the batch becomes the tip.
AnswerFirst(n) ==
    /\ At(n, "answer") /\ End(n, call[n].out)
    /\ tip' = IF call[n].out = "appended" /\ call[n].size > 0
              THEN [tip EXCEPT ![call[n].client] = FirstOf(n)] ELSE tip
    /\ UNCHANGED <<server, creg, cached, syncing, late>>

\* append: result.at(-1) becomes lastAppended; an empty batch leaves it.
Answer(n) ==
    /\ At(n, "answer") /\ End(n, call[n].out)
    /\ tip' = IF call[n].out = "appended" /\ call[n].size > 0
              THEN [tip EXCEPT ![call[n].client] = LastOf(n)] ELSE tip
    /\ UNCHANGED <<server, creg, cached, syncing, late>>

\* The token cannot be fetched, the request does not arrive or its response is lost.
Lose(n) ==
    /\ \E pc \in {"mint", "arrive", "request", "refused", "answer"} : At(n, pc)
    /\ End(n, "failed")
    /\ UNCHANGED <<server, creg, cached, tip, syncing, late>>
----------------------------------------------------------------------------
\* syncRegistry, over the shim of the web page: the room token, and no second try.

Header(c) == IF c \in Room THEN 0 ELSE NoToken

\* At the start, and again whenever an append is turned away.
SyncStart(c) ==
    /\ c \in Room \cup Bare /\ sync[c].pc \notin {"diff", "push"} /\ syncs < MaxSyncs
    /\ syncs' = syncs + 1
    /\ sync' = [sync EXCEPT ![c] = [pc |-> "diff", digest |-> Digest(creg[c]), defs |-> {}]]
    /\ creg' = [creg EXCEPT ![c] = Digested(@)]
    /\ UNCHANGED <<server, cached, call, tip, synced, late>>

\* Mutant: only what the server names is pushed, and it names nothing.
ToPushNamed(c) == {}

\* missingOnServer is always empty, so that the whole registry is pushed.
ToPush(c) == Known(creg[c].map)

SyncEnds(c, map) ==
    /\ sync' = [sync EXCEPT ![c] = [pc |-> "done", digest |-> None, defs |-> {}]]
    /\ synced' = [synced EXCEPT ![c] = [epoch |-> epoch, map |-> map]]

\* registrySyncDiffHandler, and the client that reads its answer.
SyncDiff(c) ==
    /\ sync[c].pc = "diff" /\ Verified(Header(c))
    /\ sreg' = Digested(sreg)
    /\ \/ /\ Digest(sreg) = sync[c].digest
          /\ SyncEnds(c, sync[c].digest)
       \/ /\ Digest(sreg) # sync[c].digest /\ ToPush(c) = {}
          /\ SyncEnds(c, creg[c].map)
       \/ /\ Digest(sreg) # sync[c].digest /\ ToPush(c) # {}
          /\ sync' = [sync EXCEPT ![c].pc = "push", ![c].defs = ToPush(c)]
          /\ UNCHANGED synced
    /\ UNCHANGED <<epoch, bearer, log, broken, creg, cached, call, tip, syncs, late>>

Push(c) ==
    /\ sync[c].pc = "push" /\ Verified(Header(c))
    /\ sreg' = PushInto(sreg, sync[c].defs)
    /\ SyncEnds(c, [t \in Types |-> IF t \in sync[c].defs THEN creg[c].map[t] ELSE Absent])
    /\ UNCHANGED <<epoch, bearer, log, broken, creg, cached, call, tip, syncs, late>>

\* A network error, or the 401 that the shim throws.
SyncFails(c) ==
    /\ sync[c].pc \in {"diff", "push"}
    /\ sync' = [sync EXCEPT ![c].pc = "failed"]
    /\ UNCHANGED <<server, creg, cached, call, tip, syncs, synced, late>>
----------------------------------------------------------------------------
ClientStep(n) ==
    \/ Mint(n) \/ TokenArrives(n)
    \/ Refuse(n) \/ HandleAppend(n) \/ HandleSubscribe(n)
    \/ RefreshOn401(n) \/ Unauthorized(n) \/ Answer(n)

SyncStep(c) == SyncDiff(c) \/ Push(c) \/ SyncFails(c)

Next ==
    \/ \E m \in Modes : Serve(m)
    \/ \E c \in Clients :
          \/ \E t \in Types, a \in Schemas : Define(c, t, a)
          \/ \E size \in Batches : IssueAppend(c, size)
          \/ IssueSubscribe(c) \/ Expire(c) \/ SyncStart(c) \/ SyncStep(c)
    \/ \E n \in 1 .. MaxCalls : ClientStep(n) \/ Lose(n)

Spec == Init /\ [][Next]_vars

\* Effect runs a fiber that can run, a server handles a request that has arrived, and
\* fetch settles: it is never silent for ever about a request.
Fairness ==
    /\ \A n \in 1 .. MaxCalls : WF_vars(ClientStep(n))
    /\ \A c \in Clients : WF_vars(SyncStep(c))

FairSpec == Spec /\ Fairness
----------------------------------------------------------------------------
\* Every variable stays within the data of the code.
TypeOK ==
    /\ epoch \in Nat \ {0} /\ bearer \in Token
    /\ sreg \in Registry /\ creg \in [Clients -> Registry]
    /\ log \in Seq(Nat) /\ broken \in SUBSET Nat /\ call \in Seq(Call)
    /\ cached \in [Clients -> Token \cup {None}] /\ tip \in [Clients -> Nat]
    /\ sync \in [Clients -> [pc : {"idle", "diff", "push", "done", "failed"},
                             digest : Map \cup {None}, defs : SUBSET Types]]
    /\ syncs \in Nat
    /\ synced \in [Clients -> [epoch : Nat, map : Map]]
    /\ late \in [Clients -> BOOLEAN]

\* A request goes out once more after a 401, its response may be lost and the store may fail
\* in the middle of its batch.  Still no event is in the store twice and what there is of a
\* batch is in one piece; it is the whole batch unless the store failed, it is there if it
\* was acknowledged, and nothing is there of a batch that was turned away by the gate or for
\* its token.
AppendedOnce ==
    \A n \in DOMAIN call :
        LET size == Cardinality(Positions(n))
        IN  /\ size # 0 => LastOf(n) - FirstOf(n) = size - 1
            /\ size <= call[n].size /\ (n \in broken \/ size \in {0, call[n].size})
            /\ call[n].out = "appended" => size = call[n].size
            /\ call[n].out \in {"none", "stale", "AuthFailed", "unauthorized"} => size = 0

\* Whatever either end has memoised, defined or been pushed since, an append is accepted
\* exactly when the client's definitions at the call are the server's at its decision.
GateDecides ==
    \A n \in DOMAIN call :
        /\ call[n].out \in {"appended", "unwritten"} => call[n].mine = call[n].theirs
        /\ call[n].out = "stale" => call[n].mine # call[n].theirs

\* A server that syncRegistry has spoken to knows the types the client had then.
SyncedTypesKnown ==
    \A c \in Clients :
        synced[c].epoch = epoch => Known(synced[c].map) \subseteq Known(sreg.map)

\* A page that gets its token by cookie gives a call up only if the server was replaced while
\* the call ran.
AuthFailedExplained ==
    \A n \in DOMAIN call : call[n].out = "AuthFailed" => call[n].born < epoch

\* withRefreshOn401 "guarantees the next attempt uses a fresh token": a call that began after
\* another was refused is not refused for the same token, unless the provider handed that
\* out again or answered so late that its token was stored after it had been dropped, or
\* there is no provider.
RefusedTokenDropped ==
    \A n \in DOMAIN call : \A m \in call[n].after :
        /\ call[n].out = "unauthorized" /\ call[m].out = "unauthorized"
        /\ call[n].client \notin Bare /\ ~late[call[n].client]
        => call[n].tok # call[m].tok

Acked(c) == {n \in Answered(c) : call[n].out = "appended" /\ call[n].size > 0}

\* latestCursor speaks of this client's own appends: it is the end of a batch the server
\* acknowledged to it, and of none that was acknowledged before another of its acknowledged
\* appends began.  That is less than the comment at CloudStore.ts:134-137 promises ("id of
\* most recent append, or earliest if empty"): of appends that overlap it may name the older,
\* and it is "earliest" over a store that others have filled.
LatestCursorOwn ==
    \A c \in Clients :
        IF Acked(c) = {} THEN tip[c] = 0
        ELSE \E n \in Acked(c) :
                tip[c] = LastOf(n) /\ \A m \in Acked(c) : n \notin call[m].after

\* What one client pushes never changes what the server says of a type it knows.
PushKeeps ==
    [][epoch' = epoch => \A t \in Known(sreg.map) : sreg'.map[t] = sreg.map[t]]_vars

\* Every call comes to an end, and so does every sync: after a 401 a request is sent again
\* once and no more.
EveryCallEnds ==
    /\ \A n \in 1 .. MaxCalls : n \in DOMAIN call ~> At(n, "done")
    /\ \A c \in Clients : sync[c].pc = "diff" ~> sync[c].pc \in {"done", "failed"}

\* An append that follows a syncRegistry with the same server, with the definitions that were
\* synchronised, is not turned away as registry-out-of-date: what the comments of
\* RegistrySync.ts and RxweaveBridge.tsx say the sync is for.
SyncOpensGate ==
    \A n \in DOMAIN call :
        call[n].insync /\ call[n].born = epoch => call[n].out # "stale"
=============================================================================
