------------------------------- MODULE Canvas -------------------------------
(***************************************************************************)
(* apps/web: the pages of a shared whiteboard (RxweaveBridge.tsx) and the  *)
(* agent that pins notes beside what people write (suggester.ts over       *)
(* LlmAgent.ts), around the log of the server.                             *)
(*                                                                         *)
(* Every change a user makes has a number, and the record it leaves on the *)
(* canvas is that number; 0 is no record.  Shapes and bindings go the same *)
(* way.  Registration and the tokens are the matter of Gateway, what       *)
(* CloudStore delivers is that of CloudStore: each event of the log in     *)
(* order, and from the start again when the drain is restarted.            *)
(***************************************************************************)
EXTENDS Integers, Sequences, FiniteSets, SequencesExt

CONSTANTS
    Pages,
    Shapes,      \* what users draw
    Notes,       \* what the agent may create: randomUUID never repeats
    Misfits,     \* the notes that the validation of the canvas refuses
    Agent,
    Casts,       \* who may be there: pages, and the agent unless it is disabled
    MaxTries,    \* attempts at a model call: 1 + recurs(3) in the code
    MaxEdits,    \* bound: changes by users
    MaxOpens,    \* bound: openings of pages
    MaxCalls,    \* bound: events the agent has the model answer
    MaxFaults    \* bound: lost appends, drains restarted, subscriptions ended, calls failed

ASSUME CanvasAssumption ==
    /\ Agent \notin Pages /\ Casts \subseteq SUBSET (Pages \cup {Agent}) /\ Shapes \cap Notes = {}
    /\ Misfits \subseteq Notes
    /\ MaxTries \in Nat \ {0}
    /\ {MaxEdits, MaxOpens, MaxCalls, MaxFaults} \subseteq Nat

VARIABLES
    cast,      \* who is there
    log,       \* the store of the server
    up,        \* the pages that are open
    draining,  \* those whose subscription is still at the pages of history
    deaf,      \* those whose subscription has ended for good
    canvas,    \* editor.store of each page
    pending,   \* the debounced upsert of each page and shape, 0 for none
    flight,    \* the appends of each page that are under way
    got,       \* how much of the log each page has applied
    agent,     \* the suggester
    prior,     \* priorNotesByShape
    edits, opens, calls, faults,
    last,      \* history: the last change of each page to each shape
    lost,      \* history: the changes whose append failed
    made,      \* history: the shape each note was made for
    broken     \* history: the agent failed after it had noted what it would pin

vars == <<cast, log, up, draining, deaf, canvas, pending, flight, got, agent, prior, edits, opens,
          calls, faults, last, lost, made, broken>>
page == <<cast, up, draining, deaf, canvas, pending, flight, got>>
bot == <<cast, agent, prior, calls, made, broken>>

Things == Shapes \cup Notes
Edit == Nat \ {0}
\* beside is history: the changes of the page that were under way when this one went out.
Flight == [shape : Things, edit : Edit, op : {"put", "del"}, beside : SUBSET Edit]
Entry == [by : Pages \cup {Agent}, shape : Things, edit : Nat, op : {"put", "del"},
          beside : SUBSET Edit]
Idle == [pc |-> "idle", at |-> 0, try |-> 1, emitted |-> {}, stale |-> {}]

Init ==
    /\ cast \in Casts
    /\ log = <<>> /\ up = {} /\ draining = {} /\ deaf = {}
    /\ canvas = [p \in Pages |-> [s \in Things |-> 0]]
    /\ pending = [p \in Pages |-> [s \in Things |-> 0]]
    /\ flight = [p \in Pages |-> {}] /\ got = [p \in Pages |-> 0]
    /\ agent = Idle /\ prior = [s \in Things |-> {}]
    /\ edits = 0 /\ opens = 0 /\ calls = 0 /\ faults = 0
    /\ last = [p \in Pages |-> [s \in Things |-> 0]] /\ lost = {}
    /\ made = [n \in {} |-> n] /\ broken = FALSE

Strikes == faults < MaxFaults /\ faults' = faults + 1
----------------------------------------------------------------------------
\* A page.

\* The agent's events take the place of one opening: its own are many.
OpenBound == IF Agent \in cast THEN MaxOpens - 1 ELSE MaxOpens

\* The bridge mounts on an empty canvas and subscribes from "earliest".
Open(p) ==
    /\ p \in cast \ up /\ opens < OpenBound
    /\ up' = up \cup {p} /\ draining' = draining \cup {p} /\ opens' = opens + 1
    /\ UNCHANGED <<log, deaf, canvas, pending, flight, got, bot, edits, faults, last, lost>>

Underway(p) == {f.edit : f \in flight[p]}

\* appendEvent: the append runs by itself, whatever else is under way.
Send(p, s, e, op) ==
    flight' = [flight EXCEPT ![p] =
                   @ \cup {[shape |-> s, edit |-> e, op |-> op, beside |-> Underway(p)]}]

Changes(p, s, record) ==
    /\ p \in up /\ edits < MaxEdits
    /\ edits' = edits + 1
    /\ canvas' = [canvas EXCEPT ![p][s] = record]
    /\ last' = [last EXCEPT ![p][s] = edits']

\* added or updated, by the user: scheduleUpsert replaces what is waiting.  Notes are not
\* locked: one that is on the canvas can be moved, and a removed one brought back by undo.
Draw(p, s) ==
    /\ s \in Shapes \/ canvas[p][s] # 0 \/ last[p][s] # 0
    /\ Changes(p, s, edits + 1)
    /\ pending' = [pending EXCEPT ![p][s] = edits']
    /\ UNCHANGED <<log, up, draining, deaf, flight, got, bot, opens, faults, lost>>

\* Mutant: the delete leaves the debounced upsert alone.
EraseOnly(p, s) ==
    /\ canvas[p][s] # 0 /\ Changes(p, s, 0)
    /\ Send(p, s, edits', "del")
    /\ UNCHANGED <<log, up, draining, deaf, pending, got, bot, opens, faults, lost>>

\* removed, by the user: flushForDelete cancels what is waiting and appends at once.
Erase(p, s) ==
    /\ canvas[p][s] # 0 /\ Changes(p, s, 0)
    /\ pending' = [pending EXCEPT ![p][s] = 0]
    /\ Send(p, s, edits', "del")
    /\ UNCHANGED <<log, up, draining, deaf, got, bot, opens, faults, lost>>

\* DEBOUNCE_MS have passed.
Timer(p, s) ==
    /\ pending[p][s] # 0
    /\ pending' = [pending EXCEPT ![p][s] = 0]
    /\ Send(p, s, pending[p][s], "put")
    /\ UNCHANGED <<log, up, draining, deaf, canvas, got, bot, edits, opens, faults, last, lost>>

\* The server appends; nobody waits for the answer.
Land(p, f) ==
    /\ flight' = [flight EXCEPT ![p] = @ \ {f}]
    /\ log' = Append(log, [by |-> p, shape |-> f.shape, edit |-> f.edit, op |-> f.op,
                           beside |-> f.beside])
    /\ UNCHANGED <<up, draining, deaf, canvas, pending, got, bot, edits, opens, faults, last, lost>>

\* "append failed" is a warning on the console.
AppendFails(p, f) ==
    /\ Strikes
    /\ flight' = [flight EXCEPT ![p] = @ \ {f}] /\ lost' = lost \cup {f.edit}
    /\ UNCHANGED <<log, up, draining, deaf, canvas, pending, got, bot, edits, opens, last>>

Record(e) == IF e.op = "put" THEN e.edit ELSE 0

Hears(p) == p \in up \ deaf /\ got[p] < Len(log)

\* put throws on a record that is not valid, and leaves the canvas as it was.
Refused(e) == e.op = "put" /\ e.shape \in Misfits
Shown(p, e) == IF Refused(e) THEN canvas[p][e.shape] ELSE Record(e)

\* Mutant: a page takes its own changes for known.
ReceiveOthers(p) ==
    /\ Hears(p) /\ got' = [got EXCEPT ![p] = @ + 1]
    /\ LET e == log[got'[p]]
       IN  canvas' = IF e.by = p THEN canvas
                     ELSE [canvas EXCEPT ![p][e.shape] = Shown(p, e)]
    /\ UNCHANGED <<log, up, draining, deaf, pending, flight, bot, edits, opens, faults, last,
                   lost>>

\* Mutant: what a page applies is taken for a change by its user.
ReceiveEchoing(p) ==
    /\ Hears(p) /\ got' = [got EXCEPT ![p] = @ + 1]
    /\ LET e == log[got'[p]]
       IN  /\ canvas' = [canvas EXCEPT ![p][e.shape] = Shown(p, e)]
           /\ pending' = IF pending[p][e.shape] = 0
                         THEN [pending EXCEPT ![p][e.shape] = Record(e)] ELSE pending
    /\ UNCHANGED <<log, up, draining, deaf, flight, bot, edits, opens, faults, last, lost>>

\* Mutant: what put throws ends the fiber that applies the events.
ReceiveUnshielded(p) ==
    /\ Hears(p) /\ got' = [got EXCEPT ![p] = @ + 1]
    /\ LET e == log[got'[p]]
       IN  ~Refused(e) /\ canvas' = [canvas EXCEPT ![p][e.shape] = Record(e)]
    /\ UNCHANGED <<log, up, draining, deaf, pending, flight, bot, edits, opens, faults, last,
                   lost>>

\* applyIncoming, for the events of others and for one's own: what put throws is caught, and
\* the event passed over.
Receive(p) ==
    /\ Hears(p) /\ got' = [got EXCEPT ![p] = @ + 1]
    /\ LET e == log[got'[p]] IN canvas' = [canvas EXCEPT ![p][e.shape] = Shown(p, e)]
    /\ UNCHANGED <<log, up, draining, deaf, pending, flight, bot, edits, opens, faults, last,
                   lost>>

\* CloudStore has used up its retries: the failure is logged, and nobody subscribes again.
Deafens(p) ==
    /\ p \in up \ deaf /\ Strikes
    /\ deaf' = deaf \cup {p} /\ draining' = draining \ {p}
    /\ UNCHANGED <<log, up, canvas, pending, flight, got, bot, edits, opens, last, lost>>

DrainEnds(p) ==
    /\ p \in draining /\ got[p] = Len(log)
    /\ draining' = draining \ {p}
    /\ UNCHANGED <<log, up, deaf, canvas, pending, flight, got, bot, edits, opens, faults, last,
                   lost>>

\* A page of history fails: the drain starts over, on the canvas as it is.
DrainRestarts(p) ==
    /\ p \in draining /\ got[p] > 0 /\ Strikes
    /\ got' = [got EXCEPT ![p] = 0]
    /\ UNCHANGED <<log, up, draining, deaf, canvas, pending, flight, bot, edits, opens, last, lost>>

Waiting(p) == {s \in Things : pending[p][s] # 0}

CloseWith(p, sent) ==
    /\ p \in up
    /\ flight' = [flight EXCEPT ![p] = @ \cup sent]
    /\ up' = up \ {p} /\ draining' = draining \ {p} /\ deaf' = deaf \ {p}
    /\ canvas' = [canvas EXCEPT ![p] = [s \in Things |-> 0]]
    /\ pending' = [pending EXCEPT ![p] = [s \in Things |-> 0]]
    /\ got' = [got EXCEPT ![p] = 0]
    /\ UNCHANGED <<log, bot, edits, opens, faults, last, lost>>

\* Mutant: the debounced upserts are dropped with the page.
CloseDropping(p) == CloseWith(p, {})

\* The cleanup of the effect: what is waiting is handed to the runtime, then that is disposed.
Close(p) ==
    CloseWith(p, {[shape |-> s, edit |-> pending[p][s], op |-> "put",
                   beside |-> Underway(p)] : s \in Waiting(p)})
----------------------------------------------------------------------------
\* The suggester: one event at a time, from where the log was when the server started.

Trigger == log[agent.at + 1]
Busy(pc) == Agent \in cast /\ agent.pc = pc /\ agent.at < Len(log)

\* Deletes, and what agents wrote, need no model.
Skip ==
    /\ Busy("idle") /\ (Trigger.op = "del" \/ Trigger.by = Agent)
    /\ agent' = [agent EXCEPT !.at = @ + 1]
    /\ UNCHANGED <<log, page, prior, calls, made, broken, edits, opens, faults, last, lost>>

\* handle: the model is asked about what a user has drawn.
Ask ==
    /\ Busy("idle") /\ Trigger.op = "put" /\ Trigger.by # Agent
    /\ calls < MaxCalls /\ calls' = calls + 1
    /\ agent' = [agent EXCEPT !.pc = "call"]
    /\ UNCHANGED <<log, page, prior, made, broken, edits, opens, faults, last, lost>>

\* The model calls suggestNote: a new note for the shape, kept in `emitted`.
Suggest(n) ==
    /\ Busy("call") /\ n \notin DOMAIN made
    /\ agent' = [agent EXCEPT !.emitted = @ \cup {n}]
    /\ made' = [m \in DOMAIN made \cup {n} |-> IF m = n THEN Trigger.shape ELSE made[m]]
    /\ UNCHANGED <<log, page, prior, calls, broken, edits, opens, faults, last, lost>>

\* Mutant: "latest" is one past the end.
RestartedPast == [Idle EXCEPT !.at = Len(log) + 1]

\* A handler or an append of the agent that fails: supervise subscribes again, and from
\* "latest", as AgentCursorStore.Memory knows nothing of the agent.
Restarted == [Idle EXCEPT !.at = Len(log)]

\* generateText fails: Effect.retry runs it again, over the same `emitted`.
CallFails ==
    /\ Busy("call") /\ Strikes
    /\ agent' = IF agent.try < MaxTries THEN [agent EXCEPT !.try = @ + 1] ELSE Restarted
    /\ UNCHANGED <<log, page, prior, calls, made, broken, edits, opens, last, lost>>

\* Mutant: the notes are added to those the shape has.
CallEndsAdding ==
    LET s == Trigger.shape
    IN  /\ Busy("call")
        /\ agent' = [agent EXCEPT !.pc = "emit"]
        /\ prior' = IF agent.emitted = {} THEN prior ELSE [prior EXCEPT ![s] = agent.emitted]
        /\ UNCHANGED <<log, page, calls, made, broken, edits, opens, faults, last, lost>>

\* The handler returns: the notes of this event take the place of the shape's earlier ones.
CallEnds ==
    LET s == Trigger.shape
    IN  /\ Busy("call")
        /\ agent' = [agent EXCEPT !.pc = "emit", !.stale = prior[s]]
        /\ prior' = IF agent.emitted = {} THEN prior ELSE [prior EXCEPT ![s] = agent.emitted]
        /\ UNCHANGED <<log, page, calls, made, broken, edits, opens, faults, last, lost>>

Batch(op, notes) ==
    SetToSeq({[by |-> Agent, shape |-> n, edit |-> 1, op |-> op, beside |-> {}] : n \in notes})

\* supervise appends the emits of the handler in one batch.
Emit ==
    /\ Busy("emit")
    /\ log' = log \o Batch("del", agent.stale) \o Batch("put", agent.emitted)
    /\ agent' = [Idle EXCEPT !.at = agent.at + 1]
    /\ UNCHANGED <<page, prior, calls, made, broken, edits, opens, faults, last, lost>>

EmitFails ==
    /\ Busy("emit") /\ Strikes
    /\ agent' = Restarted /\ broken' = TRUE
    /\ UNCHANGED <<log, page, prior, calls, made, edits, opens, last, lost>>
----------------------------------------------------------------------------
Settle(p) == \E f \in flight[p] : Land(p, f) \/ AppendFails(p, f)

Page(p) ==
    \/ Open(p) \/ Receive(p) \/ Deafens(p) \/ DrainEnds(p) \/ DrainRestarts(p) \/ Close(p)
    \/ \E s \in Things : Draw(p, s) \/ Erase(p, s) \/ Timer(p, s)
    \/ Settle(p)

Bot ==
    \/ Skip \/ Ask \/ CallFails \/ CallEnds \/ Emit \/ EmitFails
    \/ \E n \in Notes : Suggest(n)

Next == Bot \/ \E p \in Pages : Page(p)

Spec == Init /\ [][Next]_vars

\* Timers fire, appends settle, and a subscription that has not ended goes on delivering.
Fairness ==
    \A p \in Pages :
        /\ WF_vars(Receive(p)) /\ WF_vars(Settle(p))
        /\ \A s \in Things : WF_vars(Timer(p, s))

FairSpec == Spec /\ Fairness
----------------------------------------------------------------------------
\* Every variable stays within the data of the code, and nobody reads past the log.
TypeOK ==
    /\ cast \in Casts
    /\ log \in Seq(Entry) /\ draining \cup deaf \subseteq up /\ up \subseteq Pages
    /\ canvas \in [Pages -> [Things -> Nat]] /\ pending \in [Pages -> [Things -> Nat]]
    /\ flight \in [Pages -> SUBSET Flight] /\ got \in [Pages -> Nat]
    /\ \A p \in Pages : got[p] <= Len(log)
    /\ agent \in [pc : {"idle", "call", "emit"}, at : 0 .. Len(log), try : 1 .. MaxTries,
                  emitted : SUBSET Notes, stale : SUBSET Notes]
    /\ prior \in [Things -> SUBSET Notes]
    /\ {edits, opens, calls, faults} \subseteq Nat
    /\ last \in [Pages -> [Things -> Nat]] /\ lost \subseteq Edit
    /\ DOMAIN made \subseteq Notes /\ \A n \in DOMAIN made : made[n] \in Things
    /\ broken \in BOOLEAN

Quiet(p) == flight[p] = {} /\ Waiting(p) = {} /\ got[p] = Len(log)

\* canvasFold: what the log says of a shape is what its last event says.
Touches(s) == {i \in DOMAIN log : log[i].shape = s}
Folded(s) ==
    IF Touches(s) = {} THEN 0
    ELSE Record(log[CHOOSE i \in Touches(s) : \A j \in Touches(s) : j <= i])

\* A page with nothing left to send or to receive shows what the fold of the log shows of
\* every record it can show, whatever users did elsewhere meanwhile; only a shape whose own
\* append was lost may differ.
Converged ==
    \A p \in up : Quiet(p) =>
        \A s \in Things \ Misfits : canvas[p][s] = Folded(s) \/ last[p][s] \in lost

\* The last change a user made to a shape is in the log once the page has nothing left to
\* send, closed or not, unless its append was lost.
LastChangeLogged ==
    \A p \in Pages : flight[p] = {} /\ Waiting(p) = {} =>
        \A s \in Things :
            \/ last[p][s] \in lost \cup {0}
            \/ \E i \in DOMAIN log : log[i].by = p /\ log[i].edit = last[p][s]

\* Two changes of one page to one shape reach the log in the order in which they were made,
\* a delete never before an upsert it cancelled, unless both were under way at once.
OrderKept ==
    \A i, j \in DOMAIN log :
        i < j /\ log[i].by = log[j].by /\ log[i].by # Agent /\ log[i].shape = log[j].shape
            => log[i].edit < log[j].edit \/ log[j].edit \in log[i].beside

\* No change comes back as a change: mergeRemoteChanges keeps it from the listener.
NoEcho ==
    \A i, j \in DOMAIN log :
        i # j /\ log[i].by # Agent /\ log[j].by # Agent => log[i].edit # log[j].edit

\* A user's change to the note reached the log after the agent had deleted it.
Revived(n) ==
    \E i, j \in DOMAIN log :
        /\ i < j /\ log[i].shape = n /\ log[j].shape = n
        /\ log[i].by = Agent /\ log[i].op = "del" /\ log[j].by # Agent /\ log[j].op = "put"

\* Every note on the canvas is one the agent would still clean up, retried model calls
\* included, unless it failed to append what it had already noted as appended.  The one case
\* the code leaves open: a user changes the note while the agent deletes it.
NoOrphans ==
    agent.pc = "idle" /\ ~broken =>
        \A n \in Notes : Folded(n) # 0 => n \in prior[made[n]] \/ Revived(n)

\* An open page comes to rest: nothing it receives, valid or not, stops its subscription, and
\* what it has not received by then it lacks only because CloudStore has given up.
ComesToRest == \A p \in Pages : p \in up ~> p \notin up \/ p \in deaf \/ Quiet(p)
=============================================================================
