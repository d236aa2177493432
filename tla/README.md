# Verification of rxweave

TLA+ models of the event stores, the agent runtime, the append path through the
server and the shared whiteboard of rxweave, the TLC configurations that check
them, and TLAPS proofs about both local stores, the agent runtime, the cloud
store's subscriptions, the append path and the whiteboard.
Paths below are relative to the repository (`packages/...`, `apps/...`).

To check a run, `tlc -config X.cfg M.tla` with the module named in the table of
runs; to check the proofs, `tlapm X_proofs.tla`, where X is `Selection`, `EventLog`,
`MemoryStore`, `FileStore`, `Supervisor`, `CloudStore`, `Gateway` or `Canvas`.

## 1. The system

rxweave is an event log with agents. Events are appended to an `EventStore`;
subscribers read from a cursor on, first what is stored and then what arrives;
agents are subscribers whose handlers may append events of their own. There are
three stores behind one interface (memory, file, cloud), a server that puts a
store behind RPC, a command line and a web canvas.

| Component | State | Operations | Talks to |
|---|---|---|---|
| `schema` | last ULID time part; registry map and its cached digest | `Ulid.next`, `register`, `lookup`, `digest` | every store, the handlers |
| `core` | none | the `EventStore` interface: `append`, `subscribe`, `getById`, `query`, `queryAfter`, `latestCursor` | implemented by the three stores |
| `store-memory` | array of envelopes, sliding PubSub, one permit | the interface | `schema` (ids) |
| `store-file` | array, `readBytes`, PubSub, the store's permit, the writer's permit, the JSONL file | boot with recovery, the interface, a tail fiber that polls the file | other processes, through the file |
| `runtime` | per agent: start cursor, `pendingCursor`, `flushedCount`, reducer state; `lastEmittedCursor`; the cursor store's map and file | `supervise`, one fiber per agent, timed flush, heartbeat; `AgentCursorStore.get/set` | a store, as subscriber and appender |
| `protocol` | watchdog: time of the last heartbeat | RPC handlers, `makeHeartbeatStream`, `heartbeatGuard` | store and registry on the server |
| `server` | accepted tokens | bearer gate, session-token route | handlers |
| `store-cloud` | `lastAppended`; per subscription `lastDelivered`; token cache | the interface over RPC: append, drain, subscribe, reconnect; both answers to a 401; `syncRegistry` | server |
| `cli` | `dev`: the current supervise fiber; `serve`: the bearer token | `dev` (reload), `emit`, `import`, `stream`, `serve`, ... | a store, the runtime, the server |
| `llm` | emits collected during one model call | `handle` with a retried call | the runtime, as an agent |
| `reactive` | none | stream filters | a store's streams |
| `apps/web` | pages: debounced upserts, the canvas; suggester: `priorNotesByShape` | listener, debounce, delete, apply incoming, cleanup; the suggester's handler | cloud store, room token, `llm` |

What is hard in it, and what must hold:

* **Stores.** A subscription changes from a snapshot to a queue while appends go
  on: no event may fall between the two, none may come twice, and the order is
  that of ids. The queue slides when a subscriber is slow. Ids come from a clock
  that may stand still or go back.
* **The file.** Two fibers and several processes write to and read from one
  file with no lock across processes; a kill, a crash or a failed write leaves
  half a batch. What was acknowledged must stay, and everyone must see it.
* **The runtime.** Handlers and appends fail and are retried; cursors are
  flushed from three places and the process may die at any point. An event may
  be handled twice but never skipped, and a cursor must stand for work done.
* **The cloud store.** Connections break silently, tokens expire, pages fail
  midway; the subscriber must see neither duplicates nor gaps.
* **The registry.** Client and server must agree on a digest before an append
  is accepted, and the digest is cached.
* **The web bridge.** Upserts are delayed, deletes are not, appends complete in
  any order, and every event comes back to its sender.

`PROJECT.json` lists the hazards one by one, at their lines, with the
properties that cover them.

## 2. Modules

| Module | Models | Proofs |
|---|---|---|
| `Selection` | `Array.prototype.filter`, by which the stores read, scan and ingest | `Selection_proofs` |
| `EventLog` | ids, cursors, filters and the reads that both local stores share | `EventLog_proofs` |
| `EventStream` | what `EventStore` promises a subscriber (abstract) | |
| `MemoryStore` | `packages/store-memory` | `MemoryStore_proofs` |
| `FileStore` | `packages/store-file` | `FileStore_proofs` |
| `Supervisor`, `MCSupervisor` | `packages/runtime` | `Supervisor_proofs` |
| `CloudStore` | `subscribe` of `packages/store-cloud`, with the handlers and heartbeats of `packages/protocol` it meets | `CloudStore_proofs` |
| `Gateway` | an append from a program to the server's store: tokens, the bearer gate, the registries and their digests, `syncRegistry`, the handlers, restarts of the server | `Gateway_proofs` |
| `Canvas` | the pages of the whiteboard and the agent that writes notes beside what they draw, around the server's log | `Canvas_proofs` |

`EventLog` and `FileStore` extend `Selection`. `MemoryStore` extends `EventLog` and refines
`EventStream`, instantiated in it as `Stream`. `Supervisor` and `CloudStore` take a store that keeps the promise of
`EventStream`, and `Canvas` takes subscriptions that do what `CloudStore` is shown to
do: the log in order, and from the start again when a drain is restarted. `Gateway`
and `CloudStore` divide the cloud store between them: what it sends is the one's
matter, what it is sent the other's.

### EventLog

A ULID is a time part and random bits; `Ulid.Live` clamps the time part to at
least the previous one plus one (`UlidNext`), so ids of one process compare like
their time parts and an id is a positive number. Everything a filter looks at
(type, actor, source, timestamp) is fixed in the envelope, so one value, its
`kind`, stands for it and a filter is a set of kinds. `Query`, `QueryAfter` and
`LatestCursor` are the reads. `Select(s, P)` of `Selection` is `s.filter(...)`: the elements
at the places `P` that pass the test, in order. It is written with the k-th smallest place
and not by recursion over the array, so that it can be reasoned about; `Scan` and
`Fresh` of `FileStore` are the same filter.

### MemoryStore

| State | Code | Actions | Code |
|---|---|---|---|
| `store` | the `Ref` of envelopes | `MakeEnvelope`, `Commit`, `Publish` | `append`: its loop, `Ref.update`, `pubsub.publish` per event |
| `last` | the `Ref` in `Ulid.Live` | `Subscribe`, `Resume` | `subscribe` from a new cursor, or from the last id seen |
| `draft`, `outbox` | the append in progress | `EmitReplay` | the replay stream |
| `sub` | snapshot, replay position, queue, chunk | `TakeChunk`, `EmitLive` | `Stream.fromQueue` and the live filter |
| | | `Unsubscribe` | the stream's scope closes |

The permit is held exactly while `draft` or `outbox` is not empty. Subscribers'
fibers take no permit, so they run between any two publications. `seen`,
`floor` and `dropped` are history variables: no guard reads them but
`Resume`'s, whose cursor is by definition the last id the subscriber has seen.

### FileStore

The file is a sequence of units: two halves of a body and a newline per event.
That is the coarsest grain at which a line can be torn in its body, lose only its
newline, or be glued to the next one. `WriteSome` writes any part of the rest of
a buffer, so a reader, a kill or a crash can come after any unit.

| State | Code |
|---|---|
| `file`, `synced` | the JSONL file, and how much of it fsync has covered |
| `mode` | down, between scan and truncation (`boot`), or up |
| `store`, `readBytes`, `last` | the three `Ref`s of a process |
| `tail` | the tail fiber between its offset read, its file read and its locked section |
| `job` | per fiber, an append between stamping, writing, fsync and its locked section |

`Boot` and `BootTruncate` are the layer's start; `Stamp`, `Open`, `WriteSome`,
`Sync`, `Record` the stages of `append`; `TailKnown`, `TailRead`, `TailIngest` those
of a poll; `Abandon` a failed write or fsync, or an interrupted caller; `Kill` ends
a process, `Crash` the machine, which keeps any prefix of the file that
contains what was synced. The truncation is taken to be durable, like the
metadata of the file system. Ids are any number above the process's own last
id, which is what a ULID of a restarted process with another clock can be.

### Supervisor

One log whose ids are positions, one fiber per agent (`pc`), the cursor store's
`Ref` (`cur`) and file (`disk`), and the flush each fiber is in. `Handle`, `Emit`,
`Mark` are the stages of `onEvent`; `Retry` is a failed handler or a failed append,
after which `Subscribe` runs again from `start`; `Flush`, `PersistOpen`,
`PersistWrite` are `flushCursorFor` through `AgentCursorStore.File`, in the agent's
fiber or the timer's; `Heartbeat` and `HeartbeatFails` a tick of `forkHeartbeat`;
`Stop` is a closed scope with its `onExit` flushes, `Kill` a killed process.

An agent has a `kind`: a plain handler, a handler in `withIdempotence` over local memory,
or a reducer. `keys` is the memory of the second, which notes an event before its handler
runs; `state` is what the third has folded, and survives its retries. A retry of the second
loses the event it failed on: `failed` notes it, and `Excused` is how the properties except that
event and nothing else. The keys belong to the definition of the agent and not to the scope
that supervises it: a kill loses them (`Forgotten`), but a closed scope need not, and an agent
supervised again in the same process has those it had (`Remembered`), that of the event it
was interrupted at included (`Cut`), which it then skips, as after a failure. `born` is what the log
held when the keys were first empty, for they are a promise of one process only. A reducer's and a `withIdempotence` agent's runs are
its own, so they are checked alone (`Alone`), and the chain of two with plain handlers.

Heartbeat events are not put into the log: the filters of the modelled agents
do not let them through. `Kill` strikes anywhere, also between `open("w")` and the
write of the cursor file. There the file is empty, every agent restarts at
`"latest"`, and events may be skipped: the history variable `torn` marks such a kill,
and `NothingSkipped`, `CursorMeansDone` and `CatchesUp` except it and nothing else.

### CloudStore

One call of `subscribe`, since calls share nothing. What the server has handed over
and the client has not read, be it the rest of a page or events on the wire, is an
interval of positions: `taken + 1 .. given`.

| State | Code |
|---|---|
| `phase`, `cursor` | the stage of the stream, the cursor of the call |
| `delivered` | `lastDelivered` |
| `armed`, `hung` | whether `lastHeartbeatAt` is set; whether the connection has died unnoticed |
| `retries` | the driver of `Stream.retry`'s schedule, which an event that passes resets |

`FetchPage`, `DrainEmit`, `DrainEnds` and `FetchFails` are the drain, which starts over at
`cursor` when a page fails; `Connect`, `Send`, `Receive` a connection; `Beat`, `Hang`,
`Watchdog` the heartbeats and their absence; `Disconnect` and `Permanent` the two classes
of `isRetryable`. `Connect` is the client's request and the server's answer in one
step: nothing the client does lies between them, and the server may answer at any
time. Events that a filter rejects are not part of the log, and nothing is lost
between the server's store and the connection.

### Gateway

| State | Code | Actions | Code |
|---|---|---|---|
| `epoch`, `bearer` | the server that runs, and the token `serve` gave it | `Serve` | the command `serve`, started anew |
| `sreg`, `creg` | the `EventRegistry` of the server and of each client: definitions and memoised digest | `Define`, `Digested`, `PushInto` | `register`, `digest`, `registryPushHandler` |
| `log` | the lines of the server's store: per event, the call that appended it | `HandleAppend` | `appendHandler`: gate, then the batch, of which a store that fails leaves a part |
| `cached` | the token cache of `Auth.ts` | `Mint`, `TokenArrives`, `Expire` | a provider is awaited, its token stored; the time to live |
| `call` | every request so far, by stage | `IssueAppend`, `IssueSubscribe`, `Refuse`, `HandleSubscribe`, `Answer`, `Lose` | `append`, `connect`, the middleware, the response, a network failure |
| | | `RefreshOn401`, `Unauthorized` | `withRefreshOn401` (drop the token, fail) and `sessionTokenFetch` (drop it, send once more) |
| `tip` | `lastAppended` | in `Answer` | `append` |
| `sync`, `syncs` | `syncRegistry`, which may run again | `SyncStart`, `SyncDiff`, `Push`, `SyncFails` | the diff, the push of the whole registry, a failure |

Clients are of four kinds, as their layers are built: a page that gets its token by cookie
(`Session`), a page with a token provider (`Browser`), either with the room token of its
address (`Room`), and a client without tokens (`Bare`). A digest is written as the
definitions it is the sha256 of, so two are equal exactly when these are. `log` holds lines: the
store that `serve` and the web server give their handlers is a file, whose write, or the sync behind
it, may fail in the middle of a batch (`AppendWireError`, out `"unwritten"`). What a tail fiber or the next
start makes of such lines, and of half a line, is `FileStore`'s matter. `synced`, `broken` and
`late`, and in a call `after`, `mine`, `theirs`, `born` and `insync`, are history: no guard
reads them.

### Canvas

| State | Code | Actions | Code |
|---|---|---|---|
| `up`, `draining`, `deaf`, `got` | the mounted bridge and its subscription | `Open`, `Receive`, `DrainEnds`, `DrainRestarts`, `Deafens`, `Close` | mount, `applyIncoming`, the drain of the cloud store, a subscription that has failed for good, the effect's cleanup |
| `canvas` | `editor.store` | `Draw`, `Erase` | the listener: `scheduleUpsert`, `flushForDelete` |
| `pending` | the debounce timers | `Timer` | `DEBOUNCE_MS` are over |
| `flight` | appends under way, each a fiber of its own | `Land`, `AppendFails` | the server appends in any order, or the warning on the console |
| `agent` | the suggester between event, model call and append | `Skip`, `Ask`, `Suggest`, `CallFails`, `CallEnds`, `Emit`, `EmitFails` | `handle` of `defineLlmAgent`, the tool, `Effect.retry`, supervise's append |
| `prior` | `priorNotesByShape` | in `CallEnds` | the suggester's wrapper |
| `log` | the server's store | | |

A change of a user has a number, and the record it leaves is that number: two versions of
a record are told apart and nothing else of them matters. Users change notes as they change
shapes: a note is not locked, so one on the canvas may be moved or removed, and one that was
removed may come back by undo. `Misfits` are notes that the canvas refuses: `put` throws, `applyIncoming`
catches, and the record is passed over (`Refused`). `Deafens` is the end of a subscription whose
retries are used up; the bridge logs it and does not subscribe again. `cast` fixes who is there for a
behaviour. `last`, `lost`, `made`, `broken` and `beside` are history.

## 3. Runs

| Run | Module, cfg | Expected | Shows |
|---|---|---|---|
| `memory` | `MemoryStore` | pass | delivery in order, no gap at the hand-off, loss only when behind, paging, refinement of `EventStream`, delivery of what is owed |
| `file` | `FileStore` | pass | durability of acknowledged appends and the mirror of a reading process, under kills, crashes and failed writes |
| `file_glued` | `FileStoreGlued.cfg` | violation | an event kept without its newline is lost to the next append |
| `file_foreign` | `FileStoreForeign.cfg` | violation | a process that appends skips what others wrote |
| `supervisor` | `MCSupervisor`, `Supervisor.cfg` | pass | at-least-once handling, honest cursors, emits at most once under `withIdempotence`, what a reducer replays, overlapping flushes, heartbeats after failures |
| `supervisor_latest` | `SupervisorLatest.cfg` | violation | an event whose handler failed is skipped when the agent started at `"latest"` |
| `cloud` | `CloudStore` | pass | nothing lost and, but for a restarted drain, nothing twice over pages, connections and retries; catching up |
| `cloud_latest` | `CloudStoreLatest.cfg` | violation | a subscription from `"latest"` that reconnects before its first event misses events |
| `gateway_tokens` | `Gateway`, `GatewayTokens.cfg` | pass | over restarts with other tokens: batches once, and whole unless the store failed, tokens refreshed, `AuthFailed` only for cause, every call ends |
| `gateway_registry` | `GatewayRegistry.cfg` | pass | the gate compares what is, whatever was memoised; a push adds and never replaces |
| `registry_push` | `GatewayPush.cfg` | violation | an append after `syncRegistry` is still refused as registry-out-of-date |
| `canvas` | `Canvas` | pass | the canvases converge to the fold of the log, order, no echo, nothing dropped, no note left behind unless a user brought it back, pages come to rest |

**Bounds.** `memory`: one subscriber, since subscribers share nothing but the
store; a PubSub of two slots and four events, so that it slides with a snapshot,
a chunk and a queue all non-empty; batches of two, so that a subscriber runs
inside a batch; clock readings 0 and 2, so that the clock stands still, jumps
and goes back; cursors up to one past the last id. Note that the cursor of a
client may name an event of the future, or none at all. `file`: two events, two
fibers of one writer, one reader, six units (both lines, or one line and torn
remains of others), two faults, which allows a fault during the recovery from
another. `supervisor`: for the chain, one external event, which becomes two, and three
faults of any kinds; for a single agent that keeps keys or a state two external events, for
a replay matters from the second on, and two faults; a flush after two events, which the
second agent of the chain reaches when an event is emitted again after a fault, so that
both the count and the timer flush; all start from `"earliest"`. `cloud`: five events
in pages of two, so that a drain has a first, a full and a short page and the log
goes on growing after it; four faults against a budget of two retries, so that the
budget is reset, used up and used twice; every start, with and without a drain.
`gateway_tokens`: a cookie page and one with a provider, two calls, so that one overlaps or
follows the other, one restart, into another token or none, batches of none and of two.
`gateway_registry`: two clients and two types, one of which the server has from its own program, so that
pushes meet, overlap and contradict what is there; two syncs, so that one client synchronises
again, or both do; one restart and one call, since the gate
decides about each call by itself. `registry_push`: one client and one type are enough.
`canvas`: two pages over one shape, or a page and the agent with two notes, one of which the
canvas refuses; three changes, which with the agent are a shape that is drawn, drawn again and
a note that is moved or removed; two openings, so that a page
that closes may come back to its own changes (one with the agent, whose own events make up for
it), two model calls of up to two tries each, and one fault, whichever it is.

**Fairness.** Effect runs every runnable fiber, which justifies weak fairness of
the steps inside an append, a stream or a flush, while nothing is assumed about
clients: appends, subscriptions, the clock and every fault are free. The tail
fiber polls for ever (`Effect.forever`), hence weak fairness of its steps; a writer
that hangs is allowed. In the supervisor, retries come after a delay
(`Effect.retry` with an unbounded schedule), heartbeats tick, and the semaphore of
`persist` serves its waiters in turn, which is strong fairness of `PersistOpen`.
The timer's flush is not assumed to happen. In the cloud store the client's steps and
the server's sending are fair, a heartbeat is not (an old server knows of none), and
the watchdog is where it is armed on a dead connection. In `Gateway` the steps of a call
and of a sync are fair: the client's fibers run, a server handles what has arrived,
and `fetch` settles; `Lose` and everything clients and operators do are free. In `Canvas`
timers fire, an append settles one way or the other, and a subscription goes on delivering
unless it has ended; users and the agent may stop at any point. Faults are bounded, so every liveness
property says: once failures stop.

**Deadlock** is checked in `memory`. The other systems come to rest when
bounds and faults are used up and nothing is left to read.

## 4. What the violations say about the code

* `AckedIsRecovered`: recovery keeps a decodable last line without its newline and
  does not add the newline; the next append joins the two lines.
* `EveryoneCatchesUp`: the offset is advanced by the size of the process's own
  lines, wherever in the file they are. A process that only reads does catch up,
  which is `MirrorCatchesUp` in the passing run.
* `NothingSkipped` from `"latest"`: the retry subscribes from the captured start
  cursor. From `"earliest"` or a stored cursor, the passing run shows that nothing
  is skipped.
* `NoLossOnReconnect`: `lastDelivered` is `"latest"` until an event has gone through, and
  a reconnection before that resolves a start at `"latest"` anew. `NothingLost` in the
  passing run, with a proof, is what does hold of every start.
* `SyncOpensGate`: a pushed definition is registered under `Schema.Unknown`, as the AST of
  the wire definition is not decoded. The digest covers the AST, so a server that learned a type from a
  push never agrees with the client that pushed it. What the sync does give is
  `SyncedTypesKnown`, and `PushKeeps` what it never takes.

Some passing properties say less than a text of the repository does, as the code does less.
They hold, and what they leave out is where code and text disagree:

* `LatestCursorOwn`. `CloudStore.ts:134-137` and section 5 of the design document (line 226)
  say that `latestCursor` is the "id of most recent append, or earliest if empty". In the cloud
  store it is the client's own last acknowledged append: of two that overlap it may name the
  older, and over a store that others have filled it is `"earliest"`.
* `AppendedOnce`. The design document promises appends that are all or nothing (line 233), and
  builds on it for the emits of an agent (lines 404 and 431). A write of `FileStore` that fails
  midway leaves whole lines of a batch in the file, which the tail fiber or the next start
  takes for events.
* `RefusedTokenDropped`. `Auth.ts:152-153` says that dropping the token "guarantees the next
  attempt uses a fresh token". A provider's answer that was under way meanwhile is stored all
  the same, and the next attempt uses it (`late`).
* `NothingSkipped`, `CursorMeansDone` and `CatchesUp` of the supervisor. The design document
  promises that events are handled at least once (line 410). A kill between `open("w")` and the
  write of the cursor file sends every agent to `"latest"` (`torn`). Where the agent author asks
  for `withIdempotence`, the event its handler failed on, or was interrupted at, is lost (`Excused`).
* `KeepingUpLosesNothing`. The design document (line 241, also 312 and 545) promises a subscriber
  whose queue has slid a `SubscriberLagged` error. Nothing raises it: the events are gone silently.
  The property says which ones can be.
* The order of ids. The design document says that ids grow within a store (line 109) and are
  assigned under its lock (line 236). `FileStore` assigns them outside (`FileStore.ts:157`), and
  `Ulid.Live` starts at 0 in every process: in the model of `FileStore` ids may go down, and no
  property of it asks for their order.
* `NothingTwice`. `CloudStore.ts:23-26` says that a reconnection never duplicates an event. One does
  not, but a drain that fails after a page was emitted starts over and delivers that page again
  (`again`).
* `NoOrphans`. `suggester.ts:175` says of a shape's notes that they are "never a pile of stale
  ones". The suggester that fails to append what it had already noted as its own forgets the
  notes it should have removed (`broken`), and a note that a user moves or restores while the agent
  deletes it is put into the log after its deletion and stays for good (`Revived`). That the
  notes of two attempts of one model call are pinned together is not excepted, for the property
  asks only that the agent knows them.

Where no text promises more, the passing properties except exactly what the code does not
do, by a history variable or by name:

* a process that starts while another appends may cut the other's last line, which `AckedOnDisk`
  leaves out (`StaticBoot`), as recovery is written for a file nobody writes;
* a page whose subscription has failed for good receives nothing more (`deaf`), and a record
  the canvas refuses is not on it (`Misfits`);
* two appends of one page that are under way together may be logged either way round (`beside`), and
  then the page itself follows the log.

## 5. Proofs

All are about every value of the constants, from the assumptions that the modules name.
In each the properties are not inductive, and the work is the invariant `IInv` that
implies them. The proof that it is one has a lemma per part or per action, and under it a step per
action or per part.

### Selection_proofs

What `Select` returns, for any finite set of places: its length, its range, that its order
is that of the array (`NthOrder`), that it depends on nothing but the elements at these
places (`SelectAgree`), that it moves with them (`SelectMoved`), and that two sets of places,
one before the other, give two results put together (`SelectSplit`). All rest on the rank of a place in
a set, which is a bijection (`RankOrder`, `RankOnto`).

### EventLog_proofs and MemoryStore_proofs

* `TypeCorrect`: `Spec => []TypeOK`
* `DeliveryOrder`: `Spec => []DeliveredInOrder`
* `NoGap`: `Spec => []NoGapBehind`
* `BoundedLoss`: `Spec => []KeepingUpLosesNothing`
* `Refinement`: `Spec => StreamSpec`, that is, `MemoryStore` implements `EventStream`
* `Paging`: `Spec => []PagingLosesNothing`

They rest on `CursorAssumption` (the literals are no ids and differ) and
`MemoryAssumption` (the clock gives naturals, the capacity is positive, bounds are
naturals). What a stream emits next depends on what is in its queue, so the
invariant (theorem `Invariance`) describes the whole pipe. It says that

* the array is in id order and the ids in the draft follow it (`StoreInv`), and
  what is unpublished is the end of the array (`OutboxInv`);
* per subscriber, chunk, queue and outbox together are in order and hold store
  events only (`PipeInv`);
* what was emitted is owed, in order, not dropped, and precedes all that is in
  the pipe (`SeenInv`);
* every owed event was emitted, was dropped, or is still to come from the replay,
  the chunk, the queue or the outbox (`AccountInv`).

The last part is what makes the hand-off work: an event in the snapshot is
`to come` by the replay, one appended later by the queue, and the permit rules out
a third kind. `NoGapBehind` follows, for what is still to come has a higher id
than the last event emitted. There is one lemma per action (`CommitStep`,
`PublishStep`, ...), under it one step per part the action disturbs, and a few
lemmas on sequences of events, in `EventLog_proofs` (`ConcatIncreasing`, `AppendRange`, ...).

`BoundedLoss` takes one invariant more, `KeepInv`: an event that was dropped has at least
`Capacity` events of the array from its own place on. It holds when a queue slides, since
a full queue is a run of `Capacity` distinct events in id order (`RunLength`), and it
stays true, as the array only grows (`FarBehindGrows`). `Refinement` maps the array, what
was emitted and the filters of the subscribers to the log, the deliveries and the filters
of `EventStream`. There is one step per action (`StepRefines`): `Subscribe` begins a stream,
`Commit` extends the log, `EmitReplay` and `EmitLive` deliver or, for an event the filter
rejects, stutter, and everything else stutters. That a delivery skips nothing it may not
skip is `AccountInv` with `KeepInv`.

`Paging` needs only that the array is in id order. `PageThenRest` of `EventLog_proofs` says
of any such array, cursor, filter and page size that a page is a prefix of the whole read, since the
places up to the last one of the page are that many (`SelectCut`), and that what
`queryAfter` finds after its last id is the rest.

### Supervisor_proofs

* `SupervisorTypeCorrect`: `Spec => []TypeOK`
* `SupervisorEmittedOnce`: `Spec => []EmittedOnce`
* `SupervisorPersistedIsCurrent`: `Spec => []PersistedIsCurrent`
* `SupervisorNothingSkipped`: `Spec => []NothingSkipped`
* `SupervisorCursorMeansDone`: `Spec => []CursorMeansDone`
* `SupervisorStateReplays`: `Spec => []StateReplays`

from `SupervisorAssumption` (the literals are no positions, the empty file is no map of
cursors, the timer is no agent), for any agents, in any mixture of kinds, that read and feed
one another through any filters, chains and cycles included. `SupervisorNothingSkipped` and
`SupervisorCursorMeansDone` take one hypothesis more, that every agent was given
`"earliest"`: without it they are false, which is
what the run `supervisor_latest` shows.

`EmittedOnce` and `PersistedIsCurrent` need no such hypothesis. `OnceInv` says that what a
process appended for an agent under `withIdempotence` has its key, so that the event is not
run again, whether its scope was closed in between or not; `WriteInv` that one fiber writes, and that what it writes is current unless another
flush waits for the permit; `FlushInv` and `FiberInv` where the fibers are meanwhile.

For the two that do, `UpTo(a, c)` says that every event agent `a` wants up to `c` is settled:
handled, and its emission in the log, or lost to a failure under `withIdempotence`.
`CursorsInv` says it of every cursor there is, in `pending`, in the `Ref`, in the file, in the
flush that is about to write it, and in `start`, where the next attempt begins; `PlaceInv` of
the place where the agent stands. The emission is what makes it inductive: `NothingSkipped`
alone does not forbid that an event whose emission is not appended yet is marked, persisted,
and never emitted after a kill. `KeysInv` covers the events that `withIdempotence` skips, and
`UpToStays` carries all of this over the steps, as the log and the histories only grow.

### FileStore_proofs

* `FileTypes`: `StaticBoot` gives `Spec => []TypeOK`
* `MirrorsTheFile`: `StaticBoot` gives `Spec => []MirrorsFile`
* `WrittenOnce`: `StaticBoot` gives `Spec => []Once(file)`
* `AckedStays`: `StaticBoot` and `OneWriter` give `Spec => []AckedOnDisk`

from `FileAssumption`, for any number of processes, fibers, ids, appends and faults, and
every torn write. `StaticBoot`, that no append is under way while a process is between its
scan and its truncation, is what the recovery is written for: without it a truncation cuts
what others have appended and acknowledged meanwhile, `AckedOnDisk` is false (TLC finds
that at once), and two truncations may leave an offset beyond the end of the file, which
the model does not describe. `OneWriter`, that one process appends, with any number of
fibers, is what the writer's lock is for: it is a semaphore of one process, and the pieces
that two processes write may mix, which again makes `AckedOnDisk` false. `MirrorsTheFile`
does not need it and holds beside any number of writers.

The invariant `IInv` has four parts beside the types: what rests while a process is not up
(`RestInv`), and what a process that is about to truncate may rely on (`BootInv`: the file
still is as it was scanned); `UniqueInv`, that a half of a line is in the file at most once
and what an append has yet to write is nowhere else, over every interleaving of writers;
and `MirrorInv`. The last says of a reading process that its offset is the end of a line, that its
array is the scan of the file up to there, and that a poll under way holds exactly the scan
of what follows. It is kept because scanning two parts of a file, the first of which ends with a
newline, is scanning the whole (`ScanJoin`, from `SelectSplit` and `SelectMoved`), and
because nothing a poll brings is in the array already, which is `UniqueInv`: so the
filter `Fresh` lets everything through (`FreshIs`). `UniqueInv` is needed for no other
reason, and `MirrorsFile` without it is not inductive.

`AckInv` is the invariant of durability: an acknowledged append is in the file in one piece
within what an fsync covers; an append at `sync` is there within the file, one at `record`
within what is synced; one that is writing has a part of its lines at the very
end of the file and the rest to come (`Underway`). `HoldsKept` then covers
every step that shortens the file: a truncation or a crash keeps every newline that is
synced, and the piece an append wrote ends in one.

### CloudStore_proofs

* `CloudTypeCorrect`: `Spec => []TypeOK`
* `CloudNothingLost`: `Spec => []NothingLost`
* `CloudNothingTwice`: `Spec => []NothingTwice`

from `CloudAssumption` (the literals are no ids and differ, a page is not empty). The
two safety properties speak of what was seen and say nothing of where the next event
comes from, so `IInv` (theorem `CloudInvariance`) adds that all events owed up to `taken`
were seen (`CoverInv`), that `delivered` is the last event seen (`LastInv`), that a
connection, and a drain not restarted, continues right there (`AtInv`), and what
`floor` is for each start (`StartInv`). `HistoryFrame` carries the properties over the
steps that leave the history alone; `TakeNextStep` and `ConnectStep` do the work.

### Gateway_proofs

* `GatewayTypeCorrect`: `Spec => []TypeOK`
* `GatewayAppendsOnce`: `Spec => []AppendedOnce`
* `GatewayGateDecides`: `Spec => []GateDecides`
* `GatewayAuthFailedExplained`: `Spec => []AuthFailedExplained`
* `GatewayRefusedTokenDropped`: `Spec => []RefusedTokenDropped`
* `GatewayLatestCursor`: `Spec => []LatestCursorOwn`
* `GatewaySyncedTypesKnown`: `Spec => []SyncedTypesKnown`
* `GatewayPushKeeps`: `Spec => PushKeeps`

from `GatewayAssumption` (the four kinds of clients, and that the literals are none of
the data). `StepKinds` reduces every step to one of three: nothing happens to calls, one
opens, or one moves by one stage; the invariants of calls are then proved over the kinds.
`IInv` adds to the properties what each stage of a call is known by (`StageInv`, `AfterInv`,
`BornInv`), that the store holds a block of each call, the whole of it unless its append
failed (`LogInv`, `AppendInv`), that a memoised
digest is the digest (`CacheInv`) and a call carries that of its client's definitions
(`DigestInv`), that a second try goes out with the token of the server that runs, or one
that was replaced since (`AuthInv`), and that neither the cache nor a call under way holds
a refused token (`TokenInv`).

### Canvas_proofs

* `CanvasTypeCorrect`: `Spec => []TypeOK`
* `CanvasNoEcho`: `Spec => []NoEcho`
* `CanvasOrderKept`: `Spec => []OrderKept`
* `CanvasLastChangeLogged`: `Spec => []LastChangeLogged`
* `CanvasConverged`: `Spec => []Converged`
* `CanvasNoOrphans`: `Spec => []NoOrphans`

from `CanvasAssumption` (the agent is no page, shapes are not notes, a model call is tried
at least once). `IInv` says that every change is in one place (`Unique`: it waits, is under
way, or is in the log), that what waits is behind what is under way, and that behind what is
logged (`Ordered`), that the last change to a shape is in one of these places or lost
(`LoggedInv`), and of every open page and shape that the page has a change of its own to
send, or an entry about it to apply, or shows the fold (`ConvInv`). `NoteInv` follows the
agent's notes, of which users know from the log only (`ToldInv`): the agent puts no note that it has
deleted (`PutsFirst`), what it is about to pin is new (`MadeInv`), and each note the log tells
of is in `prior`, or among those the append under way removes, or has been deleted
(`HandInv`). A note the fold shows although it was deleted is therefore a user's upsert
after the agent's delete, which is `Revived`. `FoldReads` is what the fold of a log is: the last entry about a
shape, which exists by `Largest`. Nothing in it depends on how many pages there are or how
often a drain starts over.

### Only model-checked

Every safety property of a passing run has a theorem. What is left to TLC is liveness:
`OwedIsDelivered` of `MemoryStore`, `MirrorCatchesUp` of `FileStore`, `CatchesUp` and
`HeartbeatCatchesUp` of the supervisor, `CatchesUp` of `CloudStore`, `EveryCallEnds` of
`Gateway` and `ComesToRest` of `Canvas`. Each rests on fairness, hence on `ENABLED`,
which this prover does not reach. The refuted properties of section 4 are counterexamples
of TLC's. `AckedOnDisk` and `MirrorsFile` without their hypotheses on `FileStore` are not claimed at all.

## 6. Plan

What is left, in this order:

1. Proofs: what of the safety that the liveness properties rest on can be stated as
   an invariant of its own, such as that a stage in which nothing can happen is not reached.
2. The interruption of `MemoryStore.append` by an RPC server whose client goes away.
3. Defects of handlers, and with them the supervisor's `FiberMap`.

## 7. Not modelled

* Encoding of envelopes, schemas and RPC messages; logging and output; the command line's
  parsing; rendering; route wiring, CORS, static files. A digest is computed in one step.
* `getById` is a lookup in the array. `FileStore`'s `subscribe` and reads are `MemoryStore`'s
  code over the array that `FileStore` models.
* Interruption of `MemoryStore.append` between its update and its publications.
* In `FileStore`, the creation of the file: a process that finds none writes an empty one
  (`FileStore.ts:55-56`), which may wipe out what another process has created and filled in between.
* In `AgentCursorStore.File`, a write that fails (lines 70-85): `orDie` makes it a defect, with the file
  empty or half written. Only a kill leaves it empty in the model.
* In the runtime, `validateAgent`, which runs before anything else and has no state;
  defects of handlers; `stampEmits`, which no code uses; the "store" memory of
  `withIdempotence`, which does nothing.
* In the command line, `dev`'s reload: what an interruption of the supervise fiber reaches is
  a matter of Effect's scopes, and that a second start registers the configuration's
  schemas in the same registry, without swallowing duplicates, fails in every behaviour. The
  other commands are one call of a store and its printing.
* In the web application: the sidebar with its ring of events and the walk along `causedBy`,
  which only read; what a user draws before the listener is attached, which is never sent;
  a setup that fails (`RxweaveBridge.tsx:219-222`), after which the page neither sends nor receives
  until it is mounted again; the map of the suggester when the server restarts.
* `reactive`, stateless filters; `SubscriberLagged`, which nothing raises (section 4); `apps/dev` and
  the examples.
