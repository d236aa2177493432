--------------------------- MODULE Gateway_proofs ---------------------------
(***************************************************************************)
(* Proofs about Gateway, for any clients, types, schemas and ways to start *)
(* the server, and any number of calls, syncs and restarts.                *)
(***************************************************************************)
EXTENDS Gateway, FiniteSetTheorems, TLAPS

\* An action on a call leaves the others alone, and what the call was issued with.
Touched(n) ==
    /\ n \in DOMAIN call /\ call[n] \in Call /\ call[n].client \in Clients
    /\ call' \in Seq(Call) /\ Len(call') = Len(call) /\ DOMAIN call' = DOMAIN call
    /\ call'[n] \in Call
    /\ \A m \in DOMAIN call : m # n => call'[m] = call[m]
    /\ call'[n].client = call[n].client /\ call'[n].op = call[n].op
    /\ call'[n].size = call[n].size /\ call'[n].after = call[n].after
    /\ call'[n].mine = call[n].mine /\ call'[n].born = call[n].born

Same(n) ==
    /\ call'[n].digest = call[n].digest /\ call'[n].try = call[n].try
    /\ call'[n].tok = call[n].tok /\ call'[n].out = call[n].out
    /\ call'[n].theirs = call[n].theirs

\* The record of one call is replaced, all others stay.
LEMMA Replaced ==
    ASSUME TypeOK, NEW n \in DOMAIN call, NEW r \in Call, call' = [call EXCEPT ![n] = r]
    PROVE  /\ call' \in Seq(Call) /\ Len(call') = Len(call) /\ DOMAIN call' = DOMAIN call
           /\ call'[n] = r /\ call[n] \in Call /\ call[n].client \in Clients
           /\ \A m \in DOMAIN call : m # n => call'[m] = call[m]
<1>1. call \in Seq(Call) /\ call[n] \in Call
  BY DEF TypeOK
<1>2. call[n].client \in Clients
  BY <1>1 DEF Call
<1>3. QED BY <1>1, <1>2

\* Goto moves one call to another stage and changes nothing else of it.
LEMMA GotoTouches ==
    ASSUME TypeOK, NEW n \in DOMAIN call,
           NEW p \in {"mint", "arrive", "request", "refused", "answer", "done"}, Goto(n, p)
    PROVE  Touched(n) /\ Same(n) /\ call'[n].pc = p
<1> DEFINE r == [call[n] EXCEPT !.pc = p]
<1>1. call[n] \in Call
  BY DEF TypeOK
<1>2. r \in Call
  BY <1>1 DEF Call
<1>3. call' = [call EXCEPT ![n] = r]
  BY DEF Goto
<1>4. /\ r.pc = p /\ r.client = call[n].client /\ r.op = call[n].op /\ r.size = call[n].size
      /\ r.after = call[n].after /\ r.mine = call[n].mine /\ r.born = call[n].born
      /\ r.digest = call[n].digest /\ r.try = call[n].try /\ r.tok = call[n].tok
      /\ r.out = call[n].out /\ r.theirs = call[n].theirs
  BY <1>1 DEF Call
<1> HIDE DEF r
<1>5. QED BY <1>2, <1>3, <1>4, Replaced DEF Touched, Same

\* End answers one call with an outcome.
LEMMA EndTouches ==
    ASSUME GatewayAssumption, TypeOK, NEW n \in DOMAIN call,
           NEW o \in {"none", "appended", "unwritten", "stale", "served", "AuthFailed",
                      "unauthorized", "failed"},
           End(n, o)
    PROVE  /\ Touched(n) /\ call'[n].pc = "done" /\ call'[n].out = o
           /\ call'[n].try = call[n].try /\ call'[n].tok = call[n].tok
           /\ call'[n].theirs = call[n].theirs
<1> DEFINE r == [call[n] EXCEPT !.pc = "done", !.out = o, !.digest = None]
<1>1. call[n] \in Call
  BY DEF TypeOK
<1>2. r \in Call
  BY <1>1 DEF Call
<1>3. call' = [call EXCEPT ![n] = r]
  BY DEF End
<1>4. /\ r.pc = "done" /\ r.client = call[n].client /\ r.op = call[n].op
      /\ r.size = call[n].size /\ r.after = call[n].after /\ r.mine = call[n].mine
      /\ r.born = call[n].born /\ r.try = call[n].try /\ r.tok = call[n].tok
      /\ r.out = o /\ r.theirs = call[n].theirs
  BY <1>1 DEF Call
<1> HIDE DEF r
<1>5. QED BY <1>2, <1>3, <1>4, Replaced DEF Touched

\* AnswerWith fixes the outcome of one call, and the registry it was decided by.
LEMMA AnswerWithTouches ==
    ASSUME TypeOK, NEW n \in DOMAIN call,
           NEW o \in {"appended", "unwritten", "stale", "served"},
           AnswerWith(n, o)
    PROVE  /\ Touched(n) /\ call'[n].pc = "answer" /\ call'[n].out = o
           /\ call'[n].digest = call[n].digest /\ call'[n].try = call[n].try
           /\ call'[n].tok = call[n].tok /\ call'[n].theirs = sreg.map
<1> DEFINE r == [call[n] EXCEPT !.pc = "answer", !.out = o, !.theirs = sreg.map]
<1>1. call[n] \in Call
  BY DEF TypeOK
<1>2. r \in Call
  BY <1>1 DEF Call, TypeOK, Registry
<1>3. call' = [call EXCEPT ![n] = r]
  BY DEF AnswerWith
<1>4. /\ r.pc = "answer" /\ r.client = call[n].client /\ r.op = call[n].op
      /\ r.size = call[n].size /\ r.after = call[n].after /\ r.mine = call[n].mine
      /\ r.born = call[n].born /\ r.digest = call[n].digest /\ r.try = call[n].try
      /\ r.tok = call[n].tok /\ r.out = o /\ r.theirs = sreg.map
  BY <1>1 DEF Call
<1> HIDE DEF r
<1>5. QED BY <1>2, <1>3, <1>4, Replaced DEF Touched

\* Mint gives a call the token of the provider: of the page, or of the server that runs.
LEMMA MintTouches ==
    ASSUME GatewayAssumption, TypeOK, NEW n, Mint(n)
    PROVE  /\ Touched(n) /\ call[n].pc = "mint" /\ call'[n].pc = "arrive"
           /\ call'[n].tok = IF call[n].client \in Room THEN 0 ELSE bearer
           /\ call'[n].digest = call[n].digest /\ call'[n].try = call[n].try
           /\ call'[n].out = call[n].out /\ call'[n].theirs = call[n].theirs
<1> DEFINE k == IF call[n].client \in Room THEN 0 ELSE bearer
           r == [call[n] EXCEPT !.pc = "arrive", !.tok = k]
<1>1. n \in DOMAIN call /\ call[n] \in Call /\ call[n].pc = "mint"
  BY DEF TypeOK, Mint, At
<1>2. k \in Token
  BY DEF TypeOK, Token
<1>3. r \in Call
  BY <1>1, <1>2 DEF Call
<1>4. call' = [call EXCEPT ![n] = r]
  BY DEF Mint
<1>5. /\ r.pc = "arrive" /\ r.client = call[n].client /\ r.op = call[n].op
      /\ r.size = call[n].size /\ r.after = call[n].after /\ r.mine = call[n].mine
      /\ r.born = call[n].born /\ r.digest = call[n].digest /\ r.try = call[n].try
      /\ r.tok = k /\ r.out = call[n].out /\ r.theirs = call[n].theirs
  BY <1>1 DEF Call
<1> HIDE DEF r
<1>6. QED BY <1>1, <1>3, <1>4, <1>5, Replaced DEF Touched

\* The first 401 of a cookie page.
LEMMA AgainTouches ==
    ASSUME TypeOK, NEW n \in DOMAIN call,
           call' = [call EXCEPT ![n].pc = "mint", ![n].try = 2]
    PROVE  /\ Touched(n) /\ call'[n].pc = "mint" /\ call'[n].try = 2
           /\ call'[n].digest = call[n].digest /\ call'[n].tok = call[n].tok
           /\ call'[n].out = call[n].out /\ call'[n].theirs = call[n].theirs
<1> DEFINE r == [call[n] EXCEPT !.pc = "mint", !.try = 2]
<1>1. call[n] \in Call
  BY DEF TypeOK
<1>2. r \in Call
  BY <1>1 DEF Call
<1>3. call' = [call EXCEPT ![n] = r]
  OBVIOUS
<1>4. /\ r.pc = "mint" /\ r.client = call[n].client /\ r.op = call[n].op
      /\ r.size = call[n].size /\ r.after = call[n].after /\ r.mine = call[n].mine
      /\ r.born = call[n].born /\ r.digest = call[n].digest /\ r.try = 2
      /\ r.tok = call[n].tok /\ r.out = call[n].out /\ r.theirs = call[n].theirs
  BY <1>1 DEF Call
<1> HIDE DEF r
<1>5. QED BY <1>2, <1>3, <1>4, Replaced DEF Touched

\* Call n was issued, with the token cache as it is afterwards.
Began(c, o, digest, cache, n) ==
    /\ call' \in Seq(Call) /\ n \in Nat /\ n \notin DOMAIN call
    /\ DOMAIN call' = DOMAIN call \cup {n} /\ \A m \in DOMAIN call : call'[m] = call[m]
    /\ call'[n].client = c /\ call'[n].op = o /\ call'[n].digest = digest
    /\ call'[n].size \in Nat
    /\ call'[n].try = 1 /\ call'[n].out = "none"
    /\ call'[n].after = Answered(c) /\ call'[n].mine = creg[c].map /\ call'[n].born = epoch
    /\ call'[n].pc \in {"mint", "request"} /\ (call'[n].pc = "mint" => c \notin Bare)
    /\ call'[n].pc = "request" /\ c \notin Bare => call'[n].tok = cache

\* Issue opens one call, behind all the others.
LEMMA Issued ==
    ASSUME TypeOK, NEW c \in Clients, NEW o \in {"append", "subscribe"}, NEW size \in Nat,
           NEW digest \in Map \cup {None}, NEW cache \in Token \cup {None},
           Issue(c, o, size, digest, cache)
    PROVE  \E n : Began(c, o, digest, cache, n)
<1> DEFINE n == Len(call) + 1
<1> DEFINE k == Ready(c, cache)
           r == [client |-> c, op |-> o, size |-> size, digest |-> digest,
                 pc |-> k.pc, try |-> 1, tok |-> k.tok, out |-> "none",
                 after |-> Answered(c), mine |-> creg[c].map,
                 theirs |-> Nothing, born |-> epoch,
                 insync |-> synced[c] = [epoch |-> epoch, map |-> creg[c].map]]
<1>1. /\ k.pc \in {"mint", "request"} /\ k.tok \in Token
      /\ k.pc = "mint" => c \notin Bare
      /\ k.pc = "request" /\ c \notin Bare => k.tok = cache
  <2>1. CASE c \in Bare
    BY <2>1 DEF Ready, Token
  <2>2. CASE c \notin Bare /\ cache # None
    BY <2>2 DEF Ready, Token
  <2>3. CASE c \notin Bare /\ cache = None
    BY <2>3 DEF Ready, Token
  <2>4. QED BY <2>1, <2>2, <2>3
<1>2. call' = Append(call, r) /\ call \in Seq(Call)
  BY DEF Issue, TypeOK
<1>3. /\ Answered(c) \in SUBSET Nat /\ creg[c].map \in Map /\ Nothing \in Map
      /\ epoch \in Nat
  BY DEF TypeOK, Answered, Registry, Map, Nothing
<1>4. (synced[c] = [epoch |-> epoch, map |-> creg[c].map]) \in BOOLEAN
  OBVIOUS
<1>5. r \in Call
  <2> HIDE DEF k
  <2>1. QED BY <1>1, <1>3, <1>4 DEF Call
<1>6. /\ r.client = c /\ r.op = o /\ r.size = size /\ r.digest = digest /\ r.pc = k.pc
      /\ r.try = 1 /\ r.tok = k.tok /\ r.out = "none" /\ r.after = Answered(c)
      /\ r.mine = creg[c].map /\ r.born = epoch
  BY DEF k
<1> HIDE DEF k, r
<1>7. /\ call' \in Seq(Call) /\ n \in Nat /\ n \notin DOMAIN call
      /\ DOMAIN call' = DOMAIN call \cup {n} /\ \A m \in DOMAIN call : call'[m] = call[m]
      /\ call'[n] = r
  BY <1>2, <1>5
<1> HIDE DEF n
<1>8. Began(c, o, digest, cache, n)
  BY <1>1, <1>6, <1>7 DEF Began
<1>9. QED BY <1>8
----------------------------------------------------------------------------
\* The registries.

\* digest leaves the definitions alone, and with a coherent memo it is exact.
LEMMA RegistryTypes ==
    ASSUME GatewayAssumption, NEW reg \in Registry
    PROVE  /\ Digest(reg) \in Map /\ Digested(reg) \in Registry
           /\ Digested(reg).map = reg.map
           /\ reg.cache \in {None, reg.map} =>
                 Digest(reg) = reg.map /\ Digested(reg).cache = reg.map
<1>1. reg.map \in Map /\ reg.cache \in Map \cup {None}
  BY DEF Registry
<1>2. Digest(reg) \in Map
  BY <1>1 DEF Digest
<1>3. Digested(reg) = [map |-> reg.map, cache |-> Digest(reg)]
  BY DEF Registry, Digested
<1>4. QED BY <1>1, <1>2, <1>3 DEF Registry, Digest

\* What register and RegistryPush keep: the type, the definitions that are there.
LEMMA RegisterTypes ==
    ASSUME NEW reg \in Registry, NEW t \in Types, NEW a \in Schemas
    PROVE  /\ Register(reg, t, a) \in Registry
           /\ reg.cache \in {None, reg.map} =>
                 Register(reg, t, a).cache \in {None, Register(reg, t, a).map}
<1>1. CASE reg.map[t] # Absent
  BY <1>1 DEF Register
<1>2. CASE reg.map[t] = Absent
  <2>1. [reg.map EXCEPT ![t] = a] \in Map
    BY DEF Registry, Map
  <2>2. Register(reg, t, a) = [map |-> [reg.map EXCEPT ![t] = a], cache |-> None]
    BY <1>2 DEF Register
  <2>3. QED BY <2>1, <2>2 DEF Registry
<1>3. QED BY <1>1, <1>2

\* A push adds the unknown types and leaves the known ones as they are.
LEMMA PushTypes ==
    ASSUME GatewayAssumption, NEW reg \in Registry, NEW defs \in SUBSET Types
    PROVE  /\ PushInto(reg, defs) \in Registry
           /\ reg.cache \in {None, reg.map} =>
                 PushInto(reg, defs).cache \in {None, PushInto(reg, defs).map}
           /\ Known(PushInto(reg, defs).map) = Known(reg.map) \cup defs
           /\ \A t \in Known(reg.map) : PushInto(reg, defs).map[t] = reg.map[t]
<1> DEFINE new == [t \in Types |-> IF t \in defs /\ reg.map[t] = Absent THEN Any
                                   ELSE reg.map[t]]
<1>1. CASE defs \subseteq Known(reg.map)
  BY <1>1 DEF PushInto
<1>2. CASE ~(defs \subseteq Known(reg.map))
  <2>1. PushInto(reg, defs) = [map |-> new, cache |-> None]
    BY <1>2 DEF PushInto
  <2>2. new \in Map
    BY DEF Registry, Map
  <2>3. Known(new) = Known(reg.map) \cup defs
    BY DEF Known, GatewayAssumption
  <2>4. \A t \in Known(reg.map) : new[t] = reg.map[t]
    BY DEF Known
  <2> HIDE DEF new
  <2>5. QED BY <2>1, <2>2, <2>3, <2>4 DEF Registry
<1>3. QED BY <1>1, <1>2
----------------------------------------------------------------------------
\* Batches in the store.

\* The events of call n are size many positions in a row.
Run(n, size) == \E k \in Nat : Positions(n) = k + 1 .. k + size
Block(n) == Run(n, call[n].size)

LogInv == \A i \in DOMAIN log : log[i] \in DOMAIN call

AppendInv ==
    \A n \in DOMAIN call :
        /\ \E size \in 0 .. call[n].size : Run(n, size)
        /\ Positions(n) # {} => n \in broken \/ Block(n)
        /\ call[n].out = "appended" => Block(n)
        /\ call[n].out \in {"none", "stale", "AuthFailed", "unauthorized"} => Positions(n) = {}

\* How many positions a batch takes.
LEMMA IntervalSize ==
    ASSUME NEW k \in Nat, NEW size \in Nat PROVE Cardinality(k + 1 .. k + size) = size
<1> DEFINE i == k + 1
           j == k + size
<1>1. i \in Int /\ j \in Int /\ (IF i > j THEN 0 ELSE j - i + 1) = size
  OBVIOUS
<1>2. Cardinality(i .. j) = IF i > j THEN 0 ELSE j - i + 1
  <2> HIDE DEF i, j
  <2>1. QED BY <1>1, FS_Interval
<1>3. QED BY <1>1, <1>2

\* The entries of a concatenation.
LEMMA Concatenated ==
    ASSUME NEW s \in Seq(Nat), NEW f \in Seq(Nat)
    PROVE  /\ s \o f \in Seq(Nat) /\ Len(s \o f) = Len(s) + Len(f)
           /\ Len(s) \in Nat /\ Len(f) \in Nat
           /\ \A i \in 1 .. Len(s) : (s \o f)[i] = s[i]
           /\ \A i \in Len(s) + 1 .. Len(s) + Len(f) : (s \o f)[i] = f[i - Len(s)]
  OBVIOUS

\* t is s and size entries n.
Extended(s, t, size, n) ==
    /\ DOMAIN t = 1 .. Len(s) + size /\ DOMAIN s = 1 .. Len(s) /\ Len(s) \in Nat
    /\ \A i \in DOMAIN s : t[i] = s[i]
    /\ \A i \in Len(s) + 1 .. Len(s) + size : t[i] = n

\* A batch at the end of the store: the old entries stay, the new are the call's.
LEMMA BatchAppended ==
    ASSUME NEW s \in Seq(Nat), NEW size \in Nat, NEW n \in Nat
    PROVE  Extended(s, s \o Lines(n, size), size, n)
<1> DEFINE f == [i \in 1 .. size |-> n]
           t == s \o Lines(n, size)
<1>1. f \in Seq(Nat) /\ Len(f) = size /\ \A i \in 1 .. size : f[i] = n
  OBVIOUS
<1>2. t = s \o f
  BY DEF Lines
<1> HIDE DEF f, t
<1>7. /\ s \o f \in Seq(Nat) /\ Len(s \o f) = Len(s) + Len(f) /\ Len(s) \in Nat
      /\ \A i \in 1 .. Len(s) : (s \o f)[i] = s[i]
      /\ \A i \in Len(s) + 1 .. Len(s) + Len(f) : (s \o f)[i] = f[i - Len(s)]
  BY <1>1, Concatenated
<1>3. /\ t \in Seq(Nat) /\ Len(t) = Len(s) + size /\ Len(s) \in Nat
      /\ \A i \in 1 .. Len(s) : t[i] = s[i]
      /\ \A i \in Len(s) + 1 .. Len(s) + size : t[i] = f[i - Len(s)]
  <2>1. Len(f) = size
    BY <1>1
  <2>2. QED BY <1>2, <1>7, <2>1
<1>4. \A i \in Len(s) + 1 .. Len(s) + size : i - Len(s) \in 1 .. size
  BY <1>3
<1>5. DOMAIN t = 1 .. Len(s) + size /\ DOMAIN s = 1 .. Len(s)
  BY <1>3
<1>6. Extended(s, t, size, n)
  BY <1>1, <1>3, <1>4, <1>5 DEF Extended
<1>8. QED BY <1>6 DEF t

\* First and last position of lines in a row.
LEMMA RunEnds ==
    ASSUME NEW n, NEW size \in Nat, size > 0, Run(n, size)
    PROVE  /\ LastOf(n) \in Nat /\ FirstOf(n) \in Nat
           /\ LastOf(n) - FirstOf(n) = size - 1
<1>1. PICK k \in Nat : Positions(n) = k + 1 .. k + size
  BY DEF Run
<1>2. k + size \in Positions(n) /\ \A j \in Positions(n) : j <= k + size
  BY <1>1
<1>3. k + 1 \in Positions(n) /\ \A j \in Positions(n) : k + 1 <= j
  BY <1>1
<1>4. LastOf(n) = k + size
  <2>1. \A i \in Positions(n) : (\A j \in Positions(n) : j <= i) => i = k + size
    <3>1. SUFFICES ASSUME NEW i \in Positions(n), \A j \in Positions(n) : j <= i
                   PROVE  i = k + size
      OBVIOUS
    <3>2. k + size <= i /\ i <= k + size
      BY <1>2, <3>1
    <3>3. i \in Int /\ k + size \in Int
      BY <1>1
    <3>4. QED BY <3>2, <3>3
  <2>3. \E i \in Positions(n) : \A j \in Positions(n) : j <= i
    BY <1>2, Zenon
  <2>4. LastOf(n) \in Positions(n) /\ \A j \in Positions(n) : j <= LastOf(n)
    BY <2>3, Zenon DEF LastOf
  <2>2. QED BY <2>1, <2>4, Zenon
<1>5. FirstOf(n) = k + 1
  <2>1. \A i \in Positions(n) : (\A j \in Positions(n) : i <= j) => i = k + 1
    <3>1. SUFFICES ASSUME NEW i \in Positions(n), \A j \in Positions(n) : i <= j
                   PROVE  i = k + 1
      OBVIOUS
    <3>2. k + 1 <= i /\ i <= k + 1
      BY <1>3, <3>1
    <3>3. i \in Int /\ k + 1 \in Int
      BY <1>1
    <3>4. QED BY <3>2, <3>3
  <2>3. \E i \in Positions(n) : \A j \in Positions(n) : i <= j
    BY <1>3, Zenon
  <2>4. FirstOf(n) \in Positions(n) /\ \A j \in Positions(n) : FirstOf(n) <= j
    BY <2>3, Zenon DEF FirstOf
  <2>2. QED BY <2>1, <2>4, Zenon
<1>6. QED BY <1>4, <1>5

\* How many lines they are.
LEMMA RunSize ==
    ASSUME NEW n, NEW size \in Nat, Run(n, size)
    PROVE  Cardinality(Positions(n)) = size
<1>1. PICK k \in Nat : Positions(n) = k + 1 .. k + size
  BY DEF Run
<1>2. QED BY <1>1, IntervalSize

\* The lines in a row are the batch, or what a failing store has left of it.
LEMMA BlocksAreWhole == ASSUME TypeOK, AppendInv PROVE AppendedOnce
<1> DEFINE c(n) == Cardinality(Positions(n))
<1>1. SUFFICES ASSUME NEW n \in DOMAIN call
               PROVE  /\ c(n) # 0 => LastOf(n) - FirstOf(n) = c(n) - 1
                      /\ c(n) <= call[n].size /\ (n \in broken \/ c(n) \in {0, call[n].size})
                      /\ call[n].out = "appended" => c(n) = call[n].size
                      /\ call[n].out \in {"none", "stale", "AuthFailed", "unauthorized"}
                            => c(n) = 0
  BY DEF AppendedOnce
<1>2. call[n].size \in Nat
  <2>1. call[n] \in Call
    BY DEF TypeOK
  <2>2. QED BY <2>1 DEF Call
<1>3. PICK size \in 0 .. call[n].size : Run(n, size)
  BY DEF AppendInv
<1>4. size \in Nat /\ c(n) = size /\ size <= call[n].size
  BY <1>2, <1>3, RunSize
<1>5. Block(n) => c(n) = call[n].size
  BY <1>2, RunSize DEF Block
<1>6. Positions(n) = {} => c(n) = 0
  BY FS_EmptySet
<1> HIDE DEF c
<1>7. c(n) # 0 => LastOf(n) - FirstOf(n) = c(n) - 1
  BY <1>3, <1>4, RunEnds
<1>8. QED BY <1>4, <1>5, <1>6, <1>7 DEF AppendInv
----------------------------------------------------------------------------
\* Type correctness.

SyncState == [pc : {"idle", "diff", "push", "done", "failed"}, digest : Map \cup {None},
              defs : SUBSET Types]

\* The types hold when the first server starts.
LEMMA TypeInit == GatewayAssumption /\ Init => TypeOK
<1> SUFFICES ASSUME GatewayAssumption, Init PROVE TypeOK
  OBVIOUS
<1>1. /\ epoch \in Nat \ {0} /\ log \in Seq(Nat) /\ call \in Seq(Call)
      /\ broken \in SUBSET Nat /\ syncs \in Nat
  BY DEF Init
<1>2. bearer \in Token
  BY DEF Init, Token, BearerOf, GatewayAssumption
<1>3. \A defs \in SUBSET Types : NewRegistry(defs) \in Registry
  BY DEF NewRegistry, Registry, Map, GatewayAssumption
<1>4. sreg \in Registry /\ creg \in [Clients -> Registry]
  BY <1>3 DEF Init, GatewayAssumption
<1>5. /\ cached \in [Clients -> Token \cup {None}] /\ tip \in [Clients -> Nat]
      /\ late \in [Clients -> BOOLEAN]
  BY DEF Init
<1>6. sync \in [Clients -> SyncState]
  BY DEF Init, SyncState
<1>7. synced \in [Clients -> [epoch : Nat, map : Map]]
  BY DEF Init, Nothing, Map
<1>8. QED BY <1>1, <1>2, <1>4, <1>5, <1>6, <1>7 DEF TypeOK, SyncState

\* The end of syncRegistry is well typed.
LEMMA SyncEndsType ==
    ASSUME TypeOK, NEW c \in Clients, NEW map \in Map, SyncEnds(c, map)
    PROVE  /\ sync' \in [Clients -> SyncState]
           /\ synced' \in [Clients -> [epoch : Nat, map : Map]]
<1>1. sync \in [Clients -> SyncState] /\ epoch \in Nat
      /\ synced \in [Clients -> [epoch : Nat, map : Map]]
  BY DEF TypeOK, SyncState
<1>2. [pc |-> "done", digest |-> None, defs |-> {}] \in SyncState
  BY DEF SyncState
<1>3. [epoch |-> epoch, map |-> map] \in [epoch : Nat, map : Map]
  BY <1>1
<1>4. QED BY <1>1, <1>2, <1>3 DEF SyncEnds

\* What syncRegistry says of the client's registry while it pushes.
LEMMA PushedMap ==
    ASSUME TypeOK, NEW c \in Clients
    PROVE  [t \in Types |-> IF t \in sync[c].defs THEN creg[c].map[t] ELSE Absent] \in Map
<1>1. creg[c].map \in Map
  BY DEF TypeOK, Registry
<1>2. QED BY <1>1 DEF Map

\* Every step keeps the types.
LEMMA TypeStep ==
    ASSUME GatewayAssumption, TypeOK, AppendInv, [Next]_vars
    PROVE  TypeOK'
<1> USE DEF server, syncing
<1>0. /\ epoch \in Nat \ {0} /\ bearer \in Token /\ sreg \in Registry
      /\ creg \in [Clients -> Registry] /\ log \in Seq(Nat) /\ call \in Seq(Call)
      /\ cached \in [Clients -> Token \cup {None}] /\ tip \in [Clients -> Nat]
      /\ sync \in [Clients -> SyncState] /\ late \in [Clients -> BOOLEAN]
      /\ synced \in [Clients -> [epoch : Nat, map : Map]]
      /\ broken \in SUBSET Nat /\ syncs \in Nat
  BY DEF TypeOK, SyncState
<1>1. ASSUME NEW m \in Modes, Serve(m) PROVE TypeOK'
  <2>1. bearer' \in Token
    BY <1>0, <1>1 DEF Serve, BearerOf, Token, GatewayAssumption
  <2>2. sreg' \in Registry
    BY <1>1 DEF Serve, NewRegistry, Registry, Map, GatewayAssumption
  <2>3. QED BY <1>0, <1>1, <2>1, <2>2 DEF Serve, TypeOK
<1>2. ASSUME NEW c \in Clients, NEW t \in Types, NEW a \in Schemas, Define(c, t, a)
      PROVE  TypeOK'
  <2>1. Register(creg[c], t, a) \in Registry
    BY <1>0, RegisterTypes
  <2>2. QED BY <1>0, <1>2, <2>1 DEF Define, TypeOK
<1>3. ASSUME NEW c \in Clients, NEW size \in Batches, IssueAppend(c, size) PROVE TypeOK'
  <2>1. Digest(creg[c]) \in Map /\ Digested(creg[c]) \in Registry
    BY <1>0, RegistryTypes
  <2>2. call' \in Seq(Call)
    <3>1. size \in Nat /\ cached[c] \in Token \cup {None}
      BY <1>0 DEF GatewayAssumption
    <3>2. Issue(c, "append", size, Digest(creg[c]), cached[c])
      BY <1>3 DEF IssueAppend
    <3>3. QED BY <2>1, <3>1, <3>2, Issued DEF Began
  <2>3. QED BY <1>0, <1>3, <2>1, <2>2 DEF IssueAppend, TypeOK
<1>4. ASSUME NEW c \in Clients, IssueSubscribe(c) PROVE TypeOK'
  <2>1. PICK k \in Token \cup {None} : /\ Issue(c, "subscribe", 0, None, k)
                                       /\ cached' = [cached EXCEPT ![c] = k]
    BY <1>0, <1>4 DEF IssueSubscribe
  <2>2. call' \in Seq(Call)
    BY <2>1, Issued DEF Began
  <2>3. QED BY <1>0, <1>4, <2>1, <2>2 DEF IssueSubscribe, TypeOK
<1>5. ASSUME NEW c \in Clients, Expire(c) PROVE TypeOK'
  BY <1>0, <1>5 DEF Expire, TypeOK
<1>6. ASSUME NEW c \in Clients, SyncStart(c) PROVE TypeOK'
  <2>1. Digest(creg[c]) \in Map /\ Digested(creg[c]) \in Registry
    BY <1>0, RegistryTypes
  <2>2. sync' \in [Clients -> SyncState]
    BY <1>0, <1>6, <2>1 DEF SyncStart, SyncState
  <2>3. QED BY <1>0, <1>6, <2>1, <2>2 DEF SyncStart, TypeOK, SyncState
<1>7. ASSUME NEW c \in Clients, SyncDiff(c) PROVE TypeOK'
  <2>1. sreg' \in Registry /\ Digest(sreg) \in Map
    BY <1>0, <1>7, RegistryTypes DEF SyncDiff
  <2>2. creg[c].map \in Map /\ ToPush(c) \in SUBSET Types
    BY <1>0 DEF Registry, ToPush, Known
  <2>3. /\ sync' \in [Clients -> SyncState]
        /\ synced' \in [Clients -> [epoch : Nat, map : Map]]
    <3>1. CASE Digest(sreg) = sync[c].digest /\ SyncEnds(c, sync[c].digest)
      BY <2>1, <3>1, SyncEndsType
    <3>2. CASE SyncEnds(c, creg[c].map)
      BY <2>2, <3>2, SyncEndsType
    <3>3. CASE /\ sync' = [sync EXCEPT ![c].pc = "push", ![c].defs = ToPush(c)]
               /\ UNCHANGED synced
      <4>0. sync[c] \in SyncState
        BY <1>0
      <4>1. [sync[c] EXCEPT !.pc = "push", !.defs = ToPush(c)] \in SyncState
        BY <4>0, <2>2 DEF SyncState
      <4>2. sync' = [sync EXCEPT ![c] = [sync[c] EXCEPT !.pc = "push", !.defs = ToPush(c)]]
        BY <1>0, <3>3
      <4>3. QED BY <1>0, <3>3, <4>1, <4>2
    <3>4. QED BY <1>7, <3>1, <3>2, <3>3 DEF SyncDiff
  <2>4. QED BY <1>0, <1>7, <2>1, <2>3 DEF SyncDiff, TypeOK, SyncState
<1>8. ASSUME NEW c \in Clients, Push(c) PROVE TypeOK'
  <2>1. sync[c].defs \in SUBSET Types
    BY <1>0 DEF SyncState
  <2>2. sreg' \in Registry
    BY <1>0, <1>8, <2>1, PushTypes DEF Push
  <2>3. /\ sync' \in [Clients -> SyncState]
        /\ synced' \in [Clients -> [epoch : Nat, map : Map]]
    BY <1>8, PushedMap, SyncEndsType DEF Push
  <2>4. QED BY <1>0, <1>8, <2>2, <2>3 DEF Push, TypeOK, SyncState
<1>9. ASSUME NEW c \in Clients, SyncFails(c) PROVE TypeOK'
  <2>1. sync' \in [Clients -> SyncState]
    <3>0. sync[c] \in SyncState
      BY <1>0
    <3>1. [sync[c] EXCEPT !.pc = "failed"] \in SyncState
      BY <3>0 DEF SyncState
    <3>2. sync' = [sync EXCEPT ![c] = [sync[c] EXCEPT !.pc = "failed"]]
      BY <1>0, <1>9 DEF SyncFails
    <3>3. QED BY <1>0, <3>1, <3>2
  <2>2. QED BY <1>0, <1>9, <2>1 DEF SyncFails, TypeOK, SyncState
<1>10. ASSUME NEW n \in 1 .. MaxCalls, ClientStep(n) \/ Lose(n) PROVE TypeOK'
  <2>1. CASE Mint(n)
    BY <1>0, <2>1, MintTouches DEF Mint, TypeOK, Touched
  <2>2. CASE TokenArrives(n)
    <3>1. Touched(n)
      BY <2>2, GotoTouches DEF TokenArrives, At
    <3>2. call[n].tok \in Token
      BY <3>1 DEF Touched, Call
    <3>3. cached' \in [Clients -> Token \cup {None}]
      BY <1>0, <2>2, <3>2 DEF TokenArrives
    <3>4. late' \in [Clients -> BOOLEAN]
      <4>1. PICK x \in BOOLEAN : late' = [late EXCEPT ![call[n].client] = x]
        BY <1>0, <2>2 DEF TokenArrives
      <4>2. QED BY <1>0, <4>1
    <3>5. QED BY <1>0, <2>2, <3>1, <3>3, <3>4 DEF TokenArrives, TypeOK, Touched
  <2>3. CASE Refuse(n)
    BY <1>0, <2>3, GotoTouches DEF Refuse, At, TypeOK, Touched
  <2>4. CASE HandleAppend(n)
    <3>1. Touched(n)
      BY <2>4, AnswerWithTouches DEF HandleAppend, At
    <3>2. log' \in Seq(Nat) /\ broken' \in SUBSET Nat
      <4>1. call[n].size \in Nat /\ n \in Nat
        BY <1>0, <3>1 DEF Touched, Call
      <4>2. \A k \in 0 .. call[n].size : Lines(n, k) \in Seq(Nat)
        BY <4>1 DEF Lines
      <4>3. /\ log' = log \/ \E k \in 0 .. call[n].size : log' = log \o Lines(n, k)
            /\ broken' = broken \/ broken' = broken \cup {n}
        <5>1. call[n].size \in 0 .. call[n].size
          BY <4>1
        <5>6. \A k \in 0 .. call[n].size :
                  log' = log \o Lines(n, k)
                  => \E j \in 0 .. call[n].size : log' = log \o Lines(n, j)
          BY Zenon
        <5>2. CASE log' = log \o Lines(n, call[n].size) /\ UNCHANGED broken
          <6>1. log' = log \o Lines(n, call[n].size) /\ broken' = broken
            BY <5>2
          <6>2. \E k \in 0 .. call[n].size : log' = log \o Lines(n, k)
            BY <5>1, <5>6, <6>1, Zenon
          <6>3. QED BY <6>1, <6>2
        <5>3. CASE /\ \E k \in 0 .. call[n].size : log' = log \o Lines(n, k)
                   /\ broken' = broken \cup {n}
          BY <5>3
        <5>4. CASE UNCHANGED <<log, broken>>
          BY <5>4
        <5>5. QED BY <2>4, <5>2, <5>3, <5>4 DEF HandleAppend
      <4>4. \A f \in Seq(Nat) : log \o f \in Seq(Nat)
        BY <1>0
      <4>5. broken' \in SUBSET Nat
        BY <1>0, <4>1, <4>3
      <4>6. log' \in Seq(Nat)
        <5>1. CASE log' = log
          BY <1>0, <5>1
        <5>2. ASSUME NEW k \in 0 .. call[n].size, log' = log \o Lines(n, k)
              PROVE  log' \in Seq(Nat)
          <6>1. log \o Lines(n, k) \in Seq(Nat)
            BY <4>2, <4>4, Zenon
          <6>2. QED BY <5>2, <6>1, Zenon
        <5>3. QED BY <4>3, <5>1, <5>2, Zenon
      <4>7. QED BY <4>5, <4>6
    <3>3. sreg' \in Registry
      BY <1>0, <2>4, RegistryTypes DEF HandleAppend
    <3>4. QED BY <1>0, <2>4, <3>1, <3>2, <3>3 DEF HandleAppend, TypeOK, Touched
  <2>5. CASE HandleSubscribe(n)
    BY <1>0, <2>5, AnswerWithTouches DEF HandleSubscribe, At, TypeOK, Touched
  <2>6. CASE RefreshOn401(n)
    <3>1. Touched(n)
      BY <2>6, EndTouches DEF RefreshOn401, At
    <3>2. QED BY <1>0, <2>6, <3>1 DEF RefreshOn401, TypeOK, Touched
  <2>7. CASE Unauthorized(n)
    <3>1. Touched(n) /\ cached' \in [Clients -> Token \cup {None}]
      <4>1. CASE call[n].try = 1
        <5>1. /\ call' = [call EXCEPT ![n].pc = "mint", ![n].try = 2] /\ n \in DOMAIN call
              /\ cached' = [cached EXCEPT ![call[n].client] = None]
          BY <2>7, <4>1 DEF Unauthorized, At
        <5>2. QED BY <1>0, <5>1, AgainTouches
      <4>2. CASE call[n].try # 1
        <5>1. End(n, "AuthFailed") /\ n \in DOMAIN call /\ cached' = cached
          BY <2>7, <4>2 DEF Unauthorized, At
        <5>2. QED BY <1>0, <5>1, EndTouches
      <4>3. QED BY <4>1, <4>2
    <3>2. QED BY <1>0, <2>7, <3>1 DEF Unauthorized, TypeOK, Touched
  <2>8. CASE Answer(n)
    <3>1. Touched(n) 
      <4>1. n \in DOMAIN call /\ call[n] \in Call
        BY <1>0, <2>8 DEF Answer, At
      <4>2. QED BY <2>8, <4>1, EndTouches DEF Answer, Call
    <3>2. tip' \in [Clients -> Nat]
      <4>1. n \in DOMAIN call /\ call[n].size \in Nat
        BY <3>1 DEF Touched, Call
      <4>2. CASE call[n].out = "appended" /\ call[n].size > 0
        <5>1. LastOf(n) \in Nat
          BY <4>1, <4>2, RunEnds DEF AppendInv, Block
        <5>2. QED BY <1>0, <2>8, <4>2, <5>1 DEF Answer
      <4>3. QED BY <1>0, <2>8, <4>2 DEF Answer
    <3>3. QED BY <1>0, <2>8, <3>1, <3>2 DEF Answer, TypeOK, Touched
  <2>9. CASE Lose(n)
    <3>1. Touched(n)
      BY <2>9, EndTouches DEF Lose, At
    <3>2. QED BY <1>0, <2>9, <3>1 DEF Lose, TypeOK, Touched
  <2>10. QED
    BY <1>10, <2>1, <2>2, <2>3, <2>4, <2>5, <2>6, <2>7, <2>8, <2>9 DEF ClientStep
<1>11. CASE UNCHANGED vars
  BY <1>0, <1>11 DEF vars, TypeOK, SyncState
<1>12. QED
  BY <1>1, <1>2, <1>3, <1>4, <1>5, <1>6, <1>7, <1>8, <1>9, <1>10, <1>11 DEF Next, SyncStep
----------------------------------------------------------------------------
\* What the steps do to the calls, one operator per kind of step.

Still == UNCHANGED <<log, broken, tip, late>>

\* Steps of the server's life, of the registries and of the cache alone.
Quiet ==
    /\ Still /\ UNCHANGED call
    /\ (epoch' = epoch /\ bearer' = bearer) \/ epoch' = epoch + 1
    /\ \A c \in Clients : cached'[c] \in {cached[c], None}

Opens(c, n) ==
    /\ Still /\ UNCHANGED <<epoch, bearer>>
    /\ \A d \in Clients : cached'[d] \in {cached[d], None}
    /\ n \in Nat /\ n \notin DOMAIN call /\ DOMAIN call' = DOMAIN call \cup {n}
    /\ \A m \in DOMAIN call : call'[m] = call[m]
    /\ call'[n].client = c /\ call'[n].try = 1 /\ call'[n].out = "none"
    /\ call'[n].after = Answered(c) /\ call'[n].mine = creg[c].map /\ call'[n].born = epoch
    /\ call'[n].pc \in {"mint", "request"}
    /\ call'[n].pc = "mint" => c \notin Bare
    /\ call'[n].pc = "request" /\ c \notin Bare => call'[n].tok = cached'[c]
    /\ call'[n].op = "append" => call'[n].digest = Digest(creg[c])
    /\ call'[n].size \in Nat

Moves(n, p, q) ==
    Touched(n) /\ call[n].pc = p /\ call'[n].pc = q /\ UNCHANGED <<epoch, bearer>>

Minted(n) ==
    /\ Moves(n, "mint", "arrive") /\ Still /\ UNCHANGED cached
    /\ call'[n].tok = IF call[n].client \in Room THEN 0 ELSE bearer
    /\ call'[n].digest = call[n].digest /\ call'[n].try = call[n].try
    /\ call'[n].out = call[n].out /\ call'[n].theirs = call[n].theirs

Arrived(n) ==
    /\ Moves(n, "arrive", "request") /\ Same(n) /\ UNCHANGED <<log, broken, tip>>
    /\ \A c \in Clients :
          IF c = call[n].client
          THEN /\ cached'[c] = call[n].tok
               /\ late'[c] = (late[c] \/ call[n].tok \in Refused(c))
          ELSE cached'[c] = cached[c] /\ late'[c] = late[c]

TurnedAway(n) ==
    /\ Moves(n, "request", "refused") /\ Same(n) /\ Still /\ UNCHANGED cached
    /\ ~Verified(call[n].tok)

\* The handler ran, with Schemas as the server has them.
Handled(n, o) ==
    /\ Moves(n, "request", "answer") /\ UNCHANGED <<tip, late, cached>>
    /\ call'[n].out = o /\ call'[n].tok = call[n].tok /\ call'[n].try = call[n].try
    /\ call'[n].digest = call[n].digest /\ call'[n].theirs = sreg.map
    /\ o = "served" <=> call[n].op = "subscribe"
    /\ o \in {"appended", "unwritten"} =>
          Gate(n) /\ \E k \in 0 .. call[n].size : log' = log \o Lines(n, k)
    /\ o = "appended" => log' = log \o Lines(n, call[n].size) /\ UNCHANGED broken
    /\ o = "unwritten" => broken' = broken \cup {n}
    /\ o = "stale" => ~Gate(n)
    /\ o \in {"stale", "served"} => UNCHANGED <<log, broken>>

\* The call is over, with out o.
Over(n, p, o) ==
    /\ Moves(n, p, "done") /\ UNCHANGED <<log, broken, late>>
    /\ call'[n].out = o /\ call'[n].tok = call[n].tok /\ call'[n].try = call[n].try
    /\ call'[n].theirs = call[n].theirs

Dropped(n) ==
    /\ Over(n, "refused", "unauthorized") /\ UNCHANGED tip /\ call[n].client \notin Session
    /\ \A c \in Clients : cached'[c] = IF c = call[n].client THEN None ELSE cached[c]

SentAgain(n) ==
    /\ Moves(n, "refused", "mint") /\ Still
    /\ call[n].client \in Session /\ call'[n].try = 2
    /\ call'[n].digest = call[n].digest /\ call'[n].tok = call[n].tok
    /\ call'[n].out = call[n].out /\ call'[n].theirs = call[n].theirs
    /\ \A c \in Clients : cached'[c] \in {cached[c], None}

GivenUp(n) ==
    /\ Over(n, "refused", "AuthFailed") /\ UNCHANGED <<tip, cached>>
    /\ call[n].client \in Session /\ call[n].try = 2

Taken(n) ==
    /\ Over(n, "answer", call[n].out) /\ UNCHANGED cached
    /\ tip' = IF call[n].out = "appended" /\ call[n].size > 0
              THEN [tip EXCEPT ![call[n].client] = LastOf(n)] ELSE tip

Lost(n) ==
    /\ \E p \in {"mint", "arrive", "request", "refused", "answer"} : Over(n, p, "failed")
    /\ UNCHANGED <<tip, cached>>

CallStep(n) ==
    \/ Minted(n) \/ Arrived(n) \/ TurnedAway(n) \/ Dropped(n) \/ SentAgain(n) \/ GivenUp(n)
    \/ Taken(n) \/ Lost(n) \/ \E o \in {"appended", "unwritten", "stale", "served"} : Handled(n, o)

\* Every step is quiet, opens a call, or moves one call by one stage.
LEMMA StepKinds ==
    ASSUME GatewayAssumption, TypeOK, [Next]_vars
    PROVE  \/ Quiet
           \/ \E c \in Clients, n \in Nat : Opens(c, n)
           \/ \E n \in DOMAIN call : CallStep(n)
<1> USE DEF server, syncing, Still
<1>0. /\ creg \in [Clients -> Registry] /\ cached \in [Clients -> Token \cup {None}]
      /\ call \in Seq(Call) /\ late \in [Clients -> BOOLEAN]
  BY DEF TypeOK
<1>1. ASSUME NEW m \in Modes, Serve(m) PROVE Quiet
  BY <1>1 DEF Serve, Quiet
<1>2. ASSUME NEW c \in Clients, NEW t \in Types, NEW a \in Schemas, Define(c, t, a)
      PROVE  Quiet
  BY <1>2 DEF Define, Quiet
<1>3. ASSUME NEW c \in Clients, NEW size \in Batches, IssueAppend(c, size)
      PROVE  \E n \in Nat : Opens(c, n)
  <2>1. /\ creg[c] \in Registry /\ Digest(creg[c]) \in Map /\ cached[c] \in Token \cup {None}
        /\ size \in Nat
    BY <1>0, RegistryTypes DEF GatewayAssumption
  <2>2. /\ Issue(c, "append", size, Digest(creg[c]), cached[c])
        /\ UNCHANGED <<epoch, bearer, log, broken, tip, late, cached>>
    BY <1>3 DEF IssueAppend
  <2>3. PICK n : Began(c, "append", Digest(creg[c]), cached[c], n)
    BY <2>1, <2>2, Issued
  <2>4. n \in Nat /\ Opens(c, n)
    BY <1>0, <2>1, <2>2, <2>3 DEF Opens, Began
  <2>5. QED BY <2>4
<1>4. ASSUME NEW c \in Clients, IssueSubscribe(c) PROVE \E n \in Nat : Opens(c, n)
  <2>1. PICK k \in Token \cup {None} :
            /\ Issue(c, "subscribe", 0, None, k) /\ cached' = [cached EXCEPT ![c] = k]
            /\ k \in {cached[c], None}
    BY <1>0, <1>4 DEF IssueSubscribe
  <2>2. /\ UNCHANGED <<epoch, bearer, log, broken, tip, late>> /\ cached'[c] = k
        /\ \A d \in Clients : cached'[d] \in {cached[d], None}
    BY <1>0, <1>4, <2>1 DEF IssueSubscribe
  <2>3. PICK n : Began(c, "subscribe", None, k, n)
    BY <2>1, <2>2, Issued
  <2>4. n \in Nat /\ Opens(c, n)
    BY <1>0, <2>1, <2>2, <2>3 DEF Opens, Began
  <2>5. QED BY <2>4
<1>5. ASSUME NEW c \in Clients, Expire(c) PROVE Quiet
  BY <1>0, <1>5 DEF Expire, Quiet
<1>6. ASSUME NEW c \in Clients, SyncStart(c) PROVE Quiet
  BY <1>6 DEF SyncStart, Quiet
<1>7. ASSUME NEW c \in Clients, SyncStep(c) PROVE Quiet
  BY <1>7 DEF SyncStep, SyncDiff, Push, SyncFails, Quiet
<1>8. ASSUME NEW n \in 1 .. MaxCalls, ClientStep(n) \/ Lose(n)
      PROVE  n \in DOMAIN call /\ CallStep(n)
  <2>1. n \in DOMAIN call
    BY <1>8 DEF ClientStep, Lose, Mint, TokenArrives, Refuse, HandleAppend, HandleSubscribe,
        RefreshOn401, Unauthorized, Answer, At
  <2>2. call[n] \in Call /\ call[n].client \in Clients
    <3>1. call[n] \in Call
      BY <1>0, <2>1
    <3>2. QED BY <3>1 DEF Call
  <2>3. CASE Mint(n)
    <3>1. Minted(n)
      BY <2>3, MintTouches DEF Mint, Minted, Moves
    <3>2. QED BY <2>1, <3>1 DEF CallStep
  <2>4. CASE TokenArrives(n)
    <3>1. /\ Goto(n, "request") /\ call[n].pc = "arrive"
          /\ cached' = [cached EXCEPT ![call[n].client] = call[n].tok]
          /\ late' = [late EXCEPT ![call[n].client]
                          = @ \/ call[n].tok \in Refused(call[n].client)]
          /\ UNCHANGED <<epoch, bearer, log, broken, tip>>
      BY <2>4 DEF TokenArrives, At
    <3>2. Touched(n) /\ Same(n) /\ call'[n].pc = "request"
      BY <2>1, <3>1, GotoTouches
    <3>3. \A c \in Clients :
              IF c = call[n].client
              THEN /\ cached'[c] = call[n].tok
                   /\ late'[c] = (late[c] \/ call[n].tok \in Refused(c))
              ELSE cached'[c] = cached[c] /\ late'[c] = late[c]
      BY <1>0, <2>2, <3>1
    <3>4. Arrived(n)
      BY <3>1, <3>2, <3>3 DEF Arrived, Moves
    <3>5. QED BY <2>1, <3>4 DEF CallStep
  <2>5. CASE Refuse(n)
    <3>1. TurnedAway(n)
      BY <2>1, <2>5, GotoTouches DEF Refuse, At, TurnedAway, Moves
    <3>2. QED BY <2>1, <3>1 DEF CallStep
  <2>6. CASE HandleAppend(n)
    <3>0. /\ UNCHANGED <<epoch, bearer, tip, late, cached>> /\ call[n].size \in Nat
          /\ call[n].pc = "request" /\ call[n].op = "append"
      <4>1. call[n].size \in Nat
        BY <2>2 DEF Call
      <4>2. QED BY <2>6, <4>1 DEF HandleAppend, At
    <3>1. CASE /\ Gate(n) /\ AnswerWith(n, "appended")
               /\ log' = log \o Lines(n, call[n].size) /\ UNCHANGED broken
      <4>1. call[n].size \in 0 .. call[n].size
        BY <3>0
      <4>2. /\ Moves(n, "request", "answer") /\ call'[n].out = "appended"
            /\ call'[n].tok = call[n].tok /\ call'[n].try = call[n].try
            /\ call'[n].digest = call[n].digest /\ call'[n].theirs = sreg.map
        BY <2>1, <3>0, <3>1, AnswerWithTouches DEF Moves
      <4>5. \E k \in 0 .. call[n].size : log' = log \o Lines(n, k)
        BY <3>1, <4>1, Zenon
      <4>6. "appended" # "served" /\ "append" # "subscribe" /\ "appended" # "unwritten"
            /\ "appended" \notin {"stale", "served"}
        OBVIOUS
      <4>4. Handled(n, "appended")
        BY <3>0, <3>1, <4>2, <4>5, <4>6, Zenon DEF Handled
      <4>3. QED BY <2>1, <4>4 DEF CallStep
    <3>2. CASE /\ Gate(n) /\ AnswerWith(n, "unwritten")
               /\ \E k \in 0 .. call[n].size : log' = log \o Lines(n, k)
               /\ broken' = broken \cup {n}
      <4>1. Handled(n, "unwritten")
        BY <2>1, <3>0, <3>2, AnswerWithTouches DEF Handled, Moves
      <4>2. QED BY <2>1, <4>1 DEF CallStep
    <3>3. CASE ~Gate(n) /\ AnswerWith(n, "stale") /\ UNCHANGED <<log, broken>>
      <4>1. Handled(n, "stale")
        BY <2>1, <3>0, <3>3, AnswerWithTouches DEF Handled, Moves
      <4>2. QED BY <2>1, <4>1 DEF CallStep
    <3>4. QED BY <2>6, <3>1, <3>2, <3>3 DEF HandleAppend
  <2>7. CASE HandleSubscribe(n)
    <3>1. Handled(n, "served")
      BY <2>1, <2>7, AnswerWithTouches DEF HandleSubscribe, At, Handled, Moves
    <3>2. QED BY <2>1, <3>1 DEF CallStep
  <2>8. CASE RefreshOn401(n)
    <3>1. /\ End(n, "unauthorized") /\ call[n].pc = "refused" /\ call[n].client \notin Session
          /\ cached' = [cached EXCEPT ![call[n].client] = None]
          /\ UNCHANGED <<epoch, bearer, log, broken, tip, late>>
      BY <2>8 DEF RefreshOn401, At
    <3>2. Dropped(n)
      BY <1>0, <2>1, <3>1, EndTouches DEF Dropped, Over, Moves
    <3>3. QED BY <2>1, <3>2 DEF CallStep
  <2>9. CASE Unauthorized(n)
    <3>1. CASE call[n].try = 1
      <4>1. /\ call' = [call EXCEPT ![n].pc = "mint", ![n].try = 2]
            /\ cached' = [cached EXCEPT ![call[n].client] = None]
            /\ call[n].pc = "refused" /\ call[n].client \in Session
            /\ UNCHANGED <<epoch, bearer, log, broken, tip, late>>
        BY <2>9, <3>1 DEF Unauthorized, At
      <4>2. \A c \in Clients : cached'[c] \in {cached[c], None}
        BY <1>0, <4>1
      <4>3. SentAgain(n)
        BY <2>1, <4>1, <4>2, AgainTouches DEF SentAgain, Moves
      <4>4. QED BY <2>1, <4>3 DEF CallStep
    <3>2. CASE call[n].try # 1
      <4>1. /\ End(n, "AuthFailed") /\ call[n].pc = "refused" /\ call[n].client \in Session
            /\ UNCHANGED <<epoch, bearer, log, broken, tip, late, cached>>
        BY <2>9, <3>2 DEF Unauthorized, At
      <4>2. call[n].try = 2
        BY <2>2, <3>2 DEF Call
      <4>3. GivenUp(n)
        BY <2>1, <4>1, <4>2, EndTouches DEF GivenUp, Over, Moves
      <4>4. QED BY <2>1, <4>3 DEF CallStep
    <3>3. QED BY <3>1, <3>2
  <2>10. CASE Answer(n)
    <3>1. Taken(n)
      <4>1. call[n].out \in {"none", "appended", "unwritten", "stale", "served",
                             "AuthFailed", "unauthorized", "failed"}
        BY <2>2 DEF Call
      <4>2. /\ End(n, call[n].out) /\ call[n].pc = "answer"
            /\ UNCHANGED <<epoch, bearer, log, broken, late, cached>>
            /\ tip' = IF call[n].out = "appended" /\ call[n].size > 0
                      THEN [tip EXCEPT ![call[n].client] = LastOf(n)] ELSE tip
        BY <2>10 DEF Answer, At
      <4>3. QED BY <2>1, <4>1, <4>2, EndTouches DEF Taken, Over, Moves
    <3>2. QED BY <2>1, <3>1 DEF CallStep
  <2>11. CASE Lose(n)
    <3>1. PICK p \in {"mint", "arrive", "request", "refused", "answer"} : call[n].pc = p
      BY <2>11 DEF Lose, At
    <3>2. End(n, "failed") /\ UNCHANGED <<epoch, bearer, log, broken, tip, late, cached>>
      BY <2>11 DEF Lose
    <3>3. Over(n, p, "failed")
      BY <2>1, <3>1, <3>2, EndTouches DEF Over, Moves
    <3>4. QED BY <2>1, <3>2, <3>3 DEF CallStep, Lost
  <2>12. QED
    BY <1>8, <2>3, <2>4, <2>5, <2>6, <2>7, <2>8, <2>9, <2>10, <2>11 DEF ClientStep
<1>9. CASE UNCHANGED vars
  BY <1>9 DEF vars, Quiet
<1>10. QED
  BY <1>1, <1>2, <1>3, <1>4, <1>5, <1>6, <1>7, <1>8, <1>9 DEF Next
----------------------------------------------------------------------------
\* The stages of a call, and what each is known by.

Kinds ==
    \/ Quiet
    \/ \E c \in Clients, n \in Nat : Opens(c, n)
    \/ \E n \in DOMAIN call : CallStep(n)

StageInv ==
    \A n \in DOMAIN call :
        /\ call[n].pc \in {"mint", "arrive", "request", "refused"} => call[n].out = "none"
        /\ call[n].pc = "answer" => call[n].out \in {"appended", "unwritten", "stale", "served"}
        /\ call[n].pc \in {"mint", "arrive"} => call[n].client \notin Bare
        /\ call[n].try = 2 => call[n].client \in Session
        /\ call[n].out \in {"unauthorized", "AuthFailed"} => call[n].pc = "done"

AfterInv ==
    \A n \in DOMAIN call : \A m \in call[n].after :
        m \in DOMAIN call /\ call[m].pc = "done" /\ call[m].client = call[n].client

BornInv == epoch \in Nat /\ \A n \in DOMAIN call : call[n].born \in Nat /\ call[n].born <= epoch

\* A call's stage, try and outcome go together.
LEMMA StageStep == ASSUME StageInv, Kinds PROVE StageInv'
<1>1. CASE Quiet
  BY <1>1 DEF Quiet, StageInv
<1>2. ASSUME NEW c \in Clients, NEW n \in Nat, Opens(c, n) PROVE StageInv'
  BY <1>2 DEF Opens, StageInv
<1>3. ASSUME NEW n \in DOMAIN call, CallStep(n) PROVE StageInv'
  <2>1. Touched(n)
    BY <1>3 DEF CallStep, Minted, Arrived, TurnedAway, Dropped, SentAgain, GivenUp, Taken, Lost,
        Handled, Over, Moves
  <2> DEFINE Good ==
          /\ call'[n].pc \in {"mint", "arrive", "request", "refused"} => call'[n].out = "none"
          /\ call'[n].pc = "answer" => call'[n].out \in {"appended", "unwritten", "stale", "served"}
          /\ call'[n].pc \in {"mint", "arrive"} => call'[n].client \notin Bare
          /\ call'[n].try = 2 => call'[n].client \in Session
          /\ call'[n].out \in {"unauthorized", "AuthFailed"} => call'[n].pc = "done"
  <2>2. Good
    <3>1. CASE Minted(n)  BY <2>1, <3>1 DEF Minted, Moves, Touched, StageInv
    <3>2. CASE Arrived(n)  BY <2>1, <3>2 DEF Arrived, Moves, Same, Touched, StageInv
    <3>3. CASE TurnedAway(n)  BY <2>1, <3>3 DEF TurnedAway, Moves, Same, Touched, StageInv
    <3>4. CASE Dropped(n)  BY <2>1, <3>4 DEF Dropped, Over, Moves, Touched, StageInv
    <3>5. CASE SentAgain(n)
      BY <2>1, <3>5, GatewayAssumption DEF SentAgain, Moves, Touched, StageInv, GatewayAssumption
    <3>6. CASE GivenUp(n)  BY <2>1, <3>6 DEF GivenUp, Over, Moves, Touched, StageInv
    <3>7. CASE Taken(n)  BY <2>1, <3>7 DEF Taken, Over, Moves, Touched, StageInv
    <3>8. CASE Lost(n)  BY <2>1, <3>8 DEF Lost, Over, Moves, Touched, StageInv
    <3>9. ASSUME NEW o \in {"appended", "unwritten", "stale", "served"}, Handled(n, o) PROVE Good
      BY <2>1, <3>9 DEF Handled, Moves, Touched, StageInv
    <3>10. QED
      BY <1>3, <3>1, <3>2, <3>3, <3>4, <3>5, <3>6, <3>7, <3>8, <3>9 DEF CallStep
  <2>3. QED BY <2>1, <2>2 DEF Touched, StageInv
<1>4. QED BY <1>1, <1>2, <1>3 DEF Kinds

\* A call that moves was not done; the done ones stay as they are.
LEMMA MovedFacts ==
    ASSUME NEW n \in DOMAIN call, CallStep(n)
    PROVE  Touched(n) /\ call[n].pc # "done" /\ UNCHANGED <<epoch, bearer>>
  BY DEF CallStep, Minted, Arrived, TurnedAway, Dropped, SentAgain, GivenUp, Taken, Lost,
         Handled, Over, Moves

\* What was answered before a call was issued stays answered.
LEMMA AfterStep == ASSUME AfterInv, Kinds PROVE AfterInv'
<1>1. CASE Quiet
  BY <1>1 DEF Quiet, AfterInv
<1>2. ASSUME NEW c \in Clients, NEW n \in Nat, Opens(c, n) PROVE AfterInv'
  <2>1. \A m \in Answered(c) : m \in DOMAIN call /\ call[m].client = c /\ call[m].pc = "done"
    BY DEF Answered
  <2>2. QED BY <1>2, <2>1 DEF Opens, AfterInv
<1>3. ASSUME NEW n \in DOMAIN call, CallStep(n) PROVE AfterInv'
  <2>1. Touched(n) /\ call[n].pc # "done"
    BY <1>3, MovedFacts
  <2>2. \A m \in DOMAIN call : call'[m].after = call[m].after /\ call'[m].client = call[m].client
    BY <2>1 DEF Touched
  <2>3. \A m \in DOMAIN call : call[m].pc = "done" => call'[m] = call[m]
    BY <2>1 DEF Touched
  <2>4. QED BY <2>1, <2>2, <2>3 DEF Touched, AfterInv
<1>4. QED BY <1>1, <1>2, <1>3 DEF Kinds

\* No call was issued by a server yet to come.
LEMMA BornStep == ASSUME BornInv, Kinds PROVE BornInv'
<1>1. CASE Quiet
  BY <1>1 DEF Quiet, BornInv
<1>2. ASSUME NEW c \in Clients, NEW n \in Nat, Opens(c, n) PROVE BornInv'
  BY <1>2 DEF Opens, BornInv
<1>3. ASSUME NEW n \in DOMAIN call, CallStep(n) PROVE BornInv'
  BY <1>3, MovedFacts DEF Touched, BornInv
<1>4. QED BY <1>1, <1>2, <1>3 DEF Kinds
----------------------------------------------------------------------------
\* A batch enters the store once, as a whole, and only when its call is answered.

\* Only Append writes the store, for a call that had no answer yet.
LEMMA LogStep ==
    ASSUME TypeOK, StageInv, LogInv, AppendInv, Kinds
    PROVE  LogInv' /\ AppendInv'
<1>0. log \in Seq(Nat)
  BY DEF TypeOK
<1>1. ASSUME UNCHANGED log
      PROVE  \A m : Positions(m)' = Positions(m) /\ \A k : Run(m, k) <=> Run(m, k)'
  BY <1>1 DEF Positions, Run
<1>2. CASE Quiet
  <2>1. UNCHANGED <<log, broken, call>>
    BY <1>2 DEF Quiet, Still
  <2>2. QED BY <2>1 DEF LogInv, AppendInv, Block, Run, Positions
<1>3. ASSUME NEW c \in Clients, NEW n \in Nat, Opens(c, n) PROVE LogInv' /\ AppendInv'
  <2>1. /\ UNCHANGED <<log, broken>> /\ n \notin DOMAIN call
        /\ DOMAIN call' = DOMAIN call \cup {n}
        /\ call'[n].out = "none" /\ \A m \in DOMAIN call : call'[m] = call[m]
        /\ call'[n].size \in Nat
    BY <1>3 DEF Opens, Still
  <2>2. Positions(n) = {}
    BY <2>1 DEF LogInv, Positions
  <2>3. LogInv'
    BY <2>1 DEF LogInv
  <2>4. Run(n, 0) /\ 0 \in 0 .. call'[n].size
    <3>1. Positions(n) = 0 + 1 .. 0 + 0
      BY <2>2
    <3>2. QED BY <2>1, <3>1 DEF Run
  <2>5. AppendInv'
    BY <1>1, <2>1, <2>2, <2>4 DEF AppendInv, Block
  <2>6. QED BY <2>3, <2>5
<1>4. ASSUME NEW n \in DOMAIN call, CallStep(n) PROVE LogInv' /\ AppendInv'
  <2>1. /\ Touched(n) /\ DOMAIN call' = DOMAIN call /\ call'[n].size = call[n].size
        /\ \A m \in DOMAIN call : m # n => call'[m] = call[m]
        /\ call[n].size \in Nat /\ n \in Nat
    <3>1. Touched(n) /\ call[n] \in Call
      BY <1>4, MovedFacts DEF Touched
    <3>2. call[n].size \in Nat
      BY <3>1 DEF Call
    <3>3. n \in Nat
      BY DEF TypeOK
    <3>4. QED BY <3>1, <3>2, <3>3 DEF Touched
  <2>2. CASE UNCHANGED <<log, broken>> /\ ~Handled(n, "appended")
    <3>1. LogInv'
      BY <2>1, <2>2 DEF LogInv
    <3>2. /\ call'[n].out = "appended" => Block(n)
          /\ call'[n].out \in {"none", "stale", "AuthFailed", "unauthorized"}
                => Positions(n) = {}
      <4>1. CASE call'[n].out = call[n].out
        BY <4>1 DEF AppendInv
      <4>2. CASE \/ call'[n].out \in {"failed", "served", "unwritten"}
                 \/ /\ call'[n].out \in {"stale", "AuthFailed", "unauthorized"}
                    /\ call[n].pc \in {"request", "refused"}
        BY <4>2 DEF AppendInv, StageInv
      <4>3. ASSUME NEW o \in {"appended", "unwritten", "stale", "served"}, Handled(n, o)
            PROVE  \/ call'[n].out \in {"served", "unwritten"}
                   \/ call'[n].out = "stale" /\ call[n].pc = "request"
        BY <2>2, <4>3 DEF Handled, Moves
      <4>4. QED
        BY <1>4, <4>1, <4>2, <4>3 DEF CallStep, Minted, Arrived, Same, TurnedAway, Dropped,
            SentAgain, GivenUp, Taken, Lost, Over, Moves
    <3>3. AppendInv'
      BY <1>1, <2>1, <2>2, <3>2 DEF AppendInv, Block
    <3>4. QED BY <3>1, <3>3
  <2>3. ASSUME NEW o \in {"appended", "unwritten"}, Handled(n, o) PROVE LogInv' /\ AppendInv'
    <3>1. PICK size \in 0 .. call[n].size :
              log' = log \o Lines(n, size) /\ (o = "appended" => size = call[n].size)
      <4>1. CASE o = "appended"
        <5>1. log' = log \o Lines(n, call[n].size)
          BY <2>3, <4>1 DEF Handled
        <5>2. call[n].size \in 0 .. call[n].size
          BY <2>1
        <5>3. QED BY <5>1, <5>2, Zenon
      <4>2. CASE o = "unwritten"
        <5>1. \E k \in 0 .. call[n].size : log' = log \o Lines(n, k)
          BY <2>3, <4>2 DEF Handled
        <5>2. "unwritten" # "appended"
          OBVIOUS
        <5>3. QED BY <4>2, <5>1, <5>2, Zenon
      <4>3. QED BY <2>3, <4>1, <4>2, Zenon
    <3>2. /\ call[n].pc = "request" /\ call'[n].out = o
          /\ broken \subseteq broken' /\ (o = "appended" \/ n \in broken')
      BY <2>3 DEF Handled, Moves
    <3>3. Positions(n) = {}
      BY <3>2 DEF AppendInv, StageInv
    <3>0. size \in Nat
      BY <2>1, <3>1
    <3>4. /\ DOMAIN log' = 1 .. Len(log) + size /\ DOMAIN log = 1 .. Len(log)
          /\ \A i \in DOMAIN log : log'[i] = log[i]
          /\ \A i \in Len(log) + 1 .. Len(log) + size : log'[i] = n
          /\ Len(log) \in Nat /\ size \in Nat
      <4>1. Extended(log, log \o Lines(n, size), size, n)
        BY <1>0, <2>1, <3>0, BatchAppended
      <4>2. Extended(log, log', size, n)
        BY <3>1, <4>1, Zenon
      <4>3. QED BY <3>0, <4>2 DEF Extended
    <3>5. Positions(n)' = Len(log) + 1 .. Len(log) + size
      BY <2>1, <3>3, <3>4 DEF Positions
    <3>6. ASSUME NEW m \in DOMAIN call, m # n PROVE Positions(m)' = Positions(m)
      BY <2>1, <3>4, <3>6 DEF Positions
    <3>7. LogInv'
      BY <2>1, <3>4 DEF LogInv
    <3>8. Run(n, size)'
      BY <3>4, <3>5 DEF Run
    <3>9. AppendInv'
      <4>1. SUFFICES ASSUME NEW m \in DOMAIN call, m # n
                     PROVE  /\ \E k \in 0 .. call'[m].size : Run(m, k)'
                            /\ Positions(m)' # {} => m \in broken' \/ Block(m)'
                            /\ call'[m].out = "appended" => Block(m)'
                            /\ call'[m].out \in {"none", "stale", "AuthFailed", "unauthorized"}
                                  => Positions(m)' = {}
        BY <2>1, <3>1, <3>2, <3>8 DEF AppendInv, Block
      <4>2. /\ call'[m] = call[m] /\ Positions(m)' = Positions(m) /\ (Block(m) => Block(m)')
            /\ \A k : Run(m, k) => Run(m, k)'
        BY <2>1, <3>6, <4>1 DEF Block, Run
      <4>3. QED BY <3>2, <4>2 DEF AppendInv
    <3>10. QED BY <3>7, <3>9
  <2>4. QED
    BY <1>4, <2>2, <2>3 DEF CallStep, Minted, Arrived, TurnedAway, Dropped, SentAgain, GivenUp,
        Taken, Lost, Handled, Over, Still
<1>5. QED BY <1>2, <1>3, <1>4 DEF Kinds
----------------------------------------------------------------------------
\* Memoised digests are those of the registries.

Coherent(reg) == reg.cache \in {None, reg.map}

CacheInv == Coherent(sreg) /\ \A c \in Clients : Coherent(creg[c])

\* What a call carries to the gate are the definitions it was issued with.
DigestInv ==
    \A n \in DOMAIN call :
        call[n].op = "append" /\ call[n].pc \in {"mint", "arrive", "request", "refused"}
            => call[n].digest = call[n].mine

\* What a step does to the registry of the server.
SregKinds ==
    \/ sreg' = sreg \/ sreg' = Digested(sreg)
    \/ epoch' = epoch + 1 /\ sreg' = NewRegistry(Boot)
    \/ \E c \in Clients : sreg' = PushInto(sreg, sync[c].defs)

\* What a step may do to the server's registry and to its epoch.
LEMMA SregStep ==
    ASSUME TypeOK, [Next]_vars
    PROVE  SregKinds /\ epoch' \in {epoch, epoch + 1}
<1> USE DEF server, syncing
<1>1. ASSUME NEW m \in Modes, Serve(m) PROVE epoch' = epoch + 1 /\ sreg' = NewRegistry(Boot)
  BY <1>1 DEF Serve
<1>2. ASSUME NEW c \in Clients, Push(c)
      PROVE  epoch' = epoch /\ sreg' = PushInto(sreg, sync[c].defs)
  BY <1>2 DEF Push
<1>3. ASSUME NEW c \in Clients, SyncDiff(c) PROVE epoch' = epoch /\ sreg' = Digested(sreg)
  BY <1>3 DEF SyncDiff
<1>4. ASSUME NEW n \in 1 .. MaxCalls, HandleAppend(n)
      PROVE  epoch' = epoch /\ sreg' = Digested(sreg)
  BY <1>4 DEF HandleAppend
<1>5. ASSUME NEW c \in Clients, NEW t \in Types, NEW a \in Schemas, Define(c, t, a)
      PROVE  epoch' = epoch /\ sreg' = sreg
  BY <1>5 DEF Define
<1>6. ASSUME NEW c \in Clients, NEW size \in Batches, IssueAppend(c, size)
      PROVE  epoch' = epoch /\ sreg' = sreg
  BY <1>6 DEF IssueAppend
<1>7. ASSUME NEW c \in Clients, IssueSubscribe(c) \/ Expire(c) \/ SyncStart(c) \/ SyncFails(c)
      PROVE  epoch' = epoch /\ sreg' = sreg
  BY <1>7 DEF IssueSubscribe, Expire, SyncStart, SyncFails
<1>8. ASSUME NEW n \in 1 .. MaxCalls,
             \/ Mint(n) \/ TokenArrives(n) \/ Refuse(n) \/ HandleSubscribe(n)
             \/ RefreshOn401(n) \/ Unauthorized(n) \/ Answer(n) \/ Lose(n)
      PROVE  epoch' = epoch /\ sreg' = sreg
  BY <1>8 DEF Mint, TokenArrives, Refuse, HandleSubscribe, RefreshOn401, Unauthorized, Answer,
      Lose
<1>9. CASE UNCHANGED vars
  BY <1>9 DEF vars, SregKinds
<1>10. QED
  BY <1>1, <1>2, <1>3, <1>4, <1>5, <1>6, <1>7, <1>8, <1>9
  DEF Next, ClientStep, SyncStep, SregKinds

\* What the server knows of a type stays, as long as it runs.
LEMMA SregGrows ==
    ASSUME GatewayAssumption, TypeOK, [Next]_vars, epoch' = epoch
    PROVE  /\ Known(sreg.map) \subseteq Known(sreg'.map)
           /\ \A t \in Known(sreg.map) : sreg'.map[t] = sreg.map[t]
<1>1. sreg \in Registry /\ epoch \in Nat /\ \A c \in Clients : sync[c].defs \in SUBSET Types
  BY DEF TypeOK
<1>2. CASE sreg' = sreg
  BY <1>2
<1>3. CASE sreg' = Digested(sreg)
  BY <1>1, <1>3, RegistryTypes
<1>4. ASSUME NEW c \in Clients, sreg' = PushInto(sreg, sync[c].defs)
      PROVE  /\ Known(sreg.map) \subseteq Known(sreg'.map)
             /\ \A t \in Known(sreg.map) : sreg'.map[t] = sreg.map[t]
  BY <1>1, <1>4, PushTypes
<1>5. QED BY <1>1, <1>2, <1>3, <1>4, SregStep DEF SregKinds

\* What a step does to the registry of a client.
LEMMA CregStep ==
    ASSUME TypeOK, [Next]_vars, NEW d \in Clients
    PROVE  \/ creg'[d] = creg[d] \/ creg'[d] = Digested(creg[d])
           \/ \E t \in Types, a \in Schemas : creg'[d] = Register(creg[d], t, a)
<1> USE DEF server, syncing
<1>0. creg \in [Clients -> Registry]
  BY DEF TypeOK
<1>1. ASSUME NEW c \in Clients, NEW t \in Types, NEW a \in Schemas, Define(c, t, a)
      PROVE  creg'[d] = creg[d] \/ creg'[d] = Register(creg[d], t, a)
  BY <1>0, <1>1 DEF Define
<1>2. ASSUME NEW c \in Clients,
             SyncStart(c) \/ \E size \in Batches : IssueAppend(c, size)
      PROVE  creg'[d] = creg[d] \/ creg'[d] = Digested(creg[d])
  BY <1>0, <1>2 DEF SyncStart, IssueAppend
<1>3. ASSUME NEW c \in Clients, IssueSubscribe(c) \/ Expire(c) \/ SyncStep(c)
      PROVE  creg'[d] = creg[d]
  BY <1>3 DEF IssueSubscribe, Expire, SyncStep, SyncDiff, Push, SyncFails
<1>4. ASSUME NEW n \in 1 .. MaxCalls, ClientStep(n) \/ Lose(n) PROVE creg'[d] = creg[d]
  BY <1>4 DEF ClientStep, Mint, TokenArrives, Refuse, HandleAppend, HandleSubscribe,
      RefreshOn401, Unauthorized, Answer, Lose
<1>5. ASSUME NEW m \in Modes, Serve(m) PROVE creg'[d] = creg[d]
  BY <1>5 DEF Serve
<1>6. CASE UNCHANGED vars
  BY <1>6 DEF vars
<1>7. QED BY <1>1, <1>2, <1>3, <1>4, <1>5, <1>6 DEF Next

\* A memoised digest is that of the definitions, or absent.
LEMMA CacheStep ==
    ASSUME GatewayAssumption, TypeOK, CacheInv, [Next]_vars
    PROVE  CacheInv'
<1>1. /\ sreg \in Registry /\ \A c \in Clients : creg[c] \in Registry
      /\ \A c \in Clients : sync[c].defs \in SUBSET Types
  BY DEF TypeOK
<1>2. \A reg \in Registry : Coherent(reg) => Coherent(Digested(reg))
  BY RegistryTypes DEF Coherent
<1>3. \A reg \in Registry, t \in Types, a \in Schemas :
          Coherent(reg) => Coherent(Register(reg, t, a))
  BY RegisterTypes DEF Coherent
<1>4. \A reg \in Registry, defs \in SUBSET Types : Coherent(reg) => Coherent(PushInto(reg, defs))
  BY PushTypes DEF Coherent
<1>5. Coherent(NewRegistry(Boot))
  BY DEF Coherent, NewRegistry
<1>6. Coherent(sreg')
  BY <1>1, <1>2, <1>4, <1>5, SregStep DEF CacheInv, SregKinds
<1>7. \A c \in Clients : Coherent(creg'[c])
  BY <1>1, <1>2, <1>3, CregStep DEF CacheInv
<1>8. QED BY <1>6, <1>7 DEF CacheInv, Coherent

\* The digest of a call is that of what its client had defined when it was issued.
LEMMA GateStep ==
    ASSUME GatewayAssumption, TypeOK, StageInv, CacheInv, DigestInv, GateDecides, Kinds
    PROVE  DigestInv' /\ GateDecides'
<1>1. CASE Quiet
  BY <1>1 DEF Quiet, DigestInv, GateDecides
<1>2. ASSUME NEW c \in Clients, NEW n \in Nat, Opens(c, n) PROVE DigestInv' /\ GateDecides'
  <2>1. Digest(creg[c]) = creg[c].map
    <3>1. creg[c] \in Registry /\ creg[c].cache \in {None, creg[c].map}
      BY DEF TypeOK, CacheInv, Coherent
    <3>2. QED BY <3>1, RegistryTypes
  <2>2. QED BY <1>2, <2>1 DEF Opens, DigestInv, GateDecides
<1>3. ASSUME NEW n \in DOMAIN call, CallStep(n) PROVE DigestInv' /\ GateDecides'
  <2>1. Touched(n)
    BY <1>3, MovedFacts
  <2>2. Digest(sreg) = sreg.map
    <3>1. sreg \in Registry /\ sreg.cache \in {None, sreg.map}
      BY DEF TypeOK, CacheInv, Coherent
    <3>2. QED BY <3>1, RegistryTypes
  <2> DEFINE Good ==
        /\ call'[n].op = "append" /\ call'[n].pc \in {"mint", "arrive", "request", "refused"}
              => call'[n].digest = call'[n].mine
        /\ call'[n].out \in {"appended", "unwritten"} => call'[n].mine = call'[n].theirs
        /\ call'[n].out = "stale" => call'[n].mine # call'[n].theirs
  <2>3. Good
    <3>1. CASE Minted(n)
      BY <2>1, <3>1 DEF Minted, Moves, Touched, DigestInv, GateDecides
    <3>2. CASE Arrived(n)
      BY <2>1, <3>2 DEF Arrived, Moves, Same, Touched, DigestInv, GateDecides
    <3>3. CASE TurnedAway(n)
      BY <2>1, <3>3 DEF TurnedAway, Moves, Same, Touched, DigestInv, GateDecides
    <3>4. CASE SentAgain(n)
      BY <2>1, <3>4 DEF SentAgain, Moves, Touched, DigestInv, GateDecides
    <3>5. CASE Dropped(n) \/ GivenUp(n) \/ Lost(n)
      BY <2>1, <3>5 DEF Dropped, GivenUp, Lost, Over, Moves
    <3>6. CASE Taken(n)
      BY <2>1, <3>6 DEF Taken, Over, Moves, Touched, GateDecides
    <3>7. ASSUME NEW o \in {"appended", "unwritten", "stale", "served"}, Handled(n, o) PROVE Good
      <4>1. o # "served" => call[n].op = "append"
        BY <2>1, <3>7 DEF Handled, Touched, Call
      <4>2. o # "served" => call[n].digest = call[n].mine
        BY <3>7, <4>1 DEF Handled, Moves, DigestInv
      <4>3. QED BY <2>1, <2>2, <3>7, <4>1, <4>2 DEF Handled, Moves, Touched, Gate
    <3>8. QED BY <1>3, <3>1, <3>2, <3>3, <3>4, <3>5, <3>6, <3>7 DEF CallStep
  <2>4. QED BY <2>1, <2>3 DEF Touched, DigestInv, GateDecides
<1>4. QED BY <1>1, <1>2, <1>3 DEF Kinds
----------------------------------------------------------------------------
\* Tokens.

\* The second try of a cookie page carries the token of the server that was running when it
\* asked for one.
AuthInv ==
    \A n \in DOMAIN call :
        /\ call[n].try = 2 /\ call[n].born = epoch =>
              /\ call[n].pc \in {"arrive", "request"} => call[n].tok = bearer
              /\ call[n].pc # "refused"
        /\ call[n].out = "AuthFailed" => call[n].born < epoch

\* AuthFailed takes a restart after the call was issued.
LEMMA AuthStep ==
    ASSUME GatewayAssumption, StageInv, BornInv, AuthInv, Kinds
    PROVE  AuthInv'
<1>1. CASE Quiet
  <2>1. CASE epoch' = epoch /\ bearer' = bearer
    BY <1>1, <2>1 DEF Quiet, AuthInv
  <2>2. CASE epoch' = epoch + 1
    BY <1>1, <2>2 DEF Quiet, AuthInv, BornInv
  <2>3. QED BY <1>1, <2>1, <2>2 DEF Quiet
<1>2. ASSUME NEW c \in Clients, NEW n \in Nat, Opens(c, n) PROVE AuthInv'
  BY <1>2 DEF Opens, AuthInv
<1>3. ASSUME NEW n \in DOMAIN call, CallStep(n) PROVE AuthInv'
  <2>1. Touched(n) /\ UNCHANGED <<epoch, bearer>> /\ call[n].born \in Nat
        /\ call[n].born <= epoch /\ epoch \in Nat
    BY <1>3, MovedFacts DEF BornInv
  <2> DEFINE Good ==
        /\ call'[n].try = 2 /\ call'[n].born = epoch =>
              /\ call'[n].pc \in {"arrive", "request"} => call'[n].tok = bearer
              /\ call'[n].pc # "refused"
        /\ call'[n].out = "AuthFailed" => call'[n].born < epoch
  <2>2. Good
    <3>1. CASE Minted(n)
      <4>1. call[n].try = 2 => call[n].client \notin Room
        BY DEF StageInv, GatewayAssumption
      <4>2. QED BY <2>1, <3>1, <4>1 DEF Minted, Moves, Touched, AuthInv
    <3>2. CASE Arrived(n)
      BY <2>1, <3>2 DEF Arrived, Moves, Same, Touched, AuthInv
    <3>3. CASE TurnedAway(n)
      BY <2>1, <3>3 DEF TurnedAway, Moves, Same, Touched, AuthInv, Verified
    <3>4. CASE SentAgain(n)
      BY <2>1, <3>4 DEF SentAgain, Moves, Touched, AuthInv
    <3>5. CASE GivenUp(n)
      BY <2>1, <3>5 DEF GivenUp, Over, Moves, Touched, AuthInv
    <3>6. CASE Dropped(n) \/ Lost(n)
      BY <2>1, <3>6 DEF Dropped, Lost, Over, Moves
    <3>7. CASE Taken(n)
      BY <2>1, <3>7 DEF Taken, Over, Moves, Touched, AuthInv
    <3>8. ASSUME NEW o \in {"appended", "unwritten", "stale", "served"}, Handled(n, o) PROVE Good
      BY <3>8 DEF Handled, Moves
    <3>9. QED BY <1>3, <3>1, <3>2, <3>3, <3>4, <3>5, <3>6, <3>7, <3>8 DEF CallStep
  <2>3. QED BY <2>1, <2>2 DEF Touched, AuthInv
<1>4. QED BY <1>1, <1>2, <1>3 DEF Kinds

\* Unless one arrived late, the cache holds no token that was refused ...
CacheClean ==
    \A m \in DOMAIN call :
        call[m].out = "unauthorized" /\ call[m].client \notin Bare /\ ~late[call[m].client]
            => cached[call[m].client] # call[m].tok

\* ... and a request under way carries none that was refused before it began.
CarryClean ==
    \A n \in DOMAIN call : \A m \in call[n].after :
        /\ call[n].pc \in {"request", "refused"} /\ call[m].out = "unauthorized"
        /\ call[n].client \notin Bare /\ ~late[call[n].client]
        => call[n].tok # call[m].tok

TokenInv == CacheClean /\ CarryClean

\* The cache of client c after a step in which call n moves.
LEMMA TokenMoves ==
    ASSUME TypeOK, StageInv, NEW n \in DOMAIN call, CallStep(n)
    PROVE  \/ /\ UNCHANGED late /\ \A c \in Clients : cached'[c] \in {cached[c], None}
              /\ call'[n].out = "unauthorized" =>
                    /\ cached'[call[n].client] = None /\ call[n].pc = "refused"
                    /\ call'[n].tok = call[n].tok
              /\ call'[n].pc \in {"request", "refused"} =>
                    call[n].pc = "request" /\ call'[n].tok = call[n].tok
           \/ Arrived(n)
<1>1. Touched(n) /\ call[n].out # "unauthorized"
  BY MovedFacts DEF StageInv
<1>2. CASE Minted(n) \/ TurnedAway(n) \/ SentAgain(n)
  BY <1>1, <1>2 DEF Minted, TurnedAway, SentAgain, Moves, Same, Still
<1>3. CASE Dropped(n)
  BY <1>1, <1>3 DEF Dropped, Over, Moves, Touched
<1>4. CASE GivenUp(n) \/ Taken(n) \/ Lost(n)
  BY <1>1, <1>4 DEF GivenUp, Taken, Lost, Over, Moves
<1>5. CASE \E o \in {"appended", "unwritten", "stale", "served"} : Handled(n, o)
  BY <1>5 DEF Handled, Moves
<1>6. QED BY <1>2, <1>3, <1>4, <1>5 DEF CallStep

\* A refused token leaves the cache, and comes back only if it was late.
LEMMA TokenStep ==
    ASSUME GatewayAssumption, TypeOK, StageInv, AfterInv, TokenInv, RefusedTokenDropped,
           Kinds
    PROVE  TokenInv' /\ RefusedTokenDropped'
<1>0. \A m \in DOMAIN call :
          call[m] \in Call /\ call[m].tok # None /\ call[m].client \in Clients
  <2>1. \A m \in DOMAIN call : call[m] \in Call
    BY DEF TypeOK
  <2>2. QED BY <2>1 DEF Call, Token, GatewayAssumption
<1>1. CASE Quiet
  <2>1. UNCHANGED <<call, late>> /\ \A c \in Clients : cached'[c] \in {cached[c], None}
    BY <1>1 DEF Quiet, Still
  <2>2. RefusedTokenDropped'
    BY <2>1 DEF RefusedTokenDropped
  <2>3. CacheClean' /\ CarryClean'
    BY <1>0, <2>1 DEF TokenInv, CacheClean, CarryClean
  <2>4. QED BY <2>2, <2>3 DEF TokenInv
<1>2. ASSUME NEW c \in Clients, NEW n \in Nat, Opens(c, n)
      PROVE  TokenInv' /\ RefusedTokenDropped'
  <2>1. /\ n \notin DOMAIN call /\ DOMAIN call' = DOMAIN call \cup {n} /\ UNCHANGED late
        /\ \A m \in DOMAIN call : call'[m] = call[m]
        /\ call'[n].client = c /\ call'[n].out = "none" /\ call'[n].after = Answered(c)
        /\ \A d \in Clients : cached'[d] \in {cached[d], None}
        /\ call'[n].pc \in {"mint", "request"}
        /\ call'[n].pc = "request" /\ c \notin Bare => call'[n].tok = cached'[c]
    BY <1>2 DEF Opens, Still
  <2>2. \A m \in Answered(c) : m \in DOMAIN call /\ call[m].client = c
    BY DEF Answered
  <2>3. \A k \in DOMAIN call : \A m \in call[k].after : m \in DOMAIN call
    BY DEF AfterInv
  <2>4. ASSUME NEW m \in Answered(c), call'[n].pc \in {"request", "refused"},
               call[m].out = "unauthorized", c \notin Bare, ~late[c]
        PROVE  call'[n].tok # call[m].tok
    BY <1>0, <2>1, <2>2, <2>4 DEF TokenInv, CacheClean
  <2>5. TokenInv'
    <3>1. CacheClean'
      BY <1>0, <2>1 DEF TokenInv, CacheClean
    <3>2. \A k \in DOMAIN call : \A m \in call'[k].after :
             /\ call'[k].pc \in {"request", "refused"} /\ call'[m].out = "unauthorized"
             /\ call'[k].client \notin Bare /\ ~late'[call'[k].client]
             => call'[k].tok # call'[m].tok
      BY <2>1, <2>3 DEF TokenInv, CarryClean
    <3>3. \A m \in call'[n].after :
             /\ call'[n].pc \in {"request", "refused"} /\ call'[m].out = "unauthorized"
             /\ call'[n].client \notin Bare /\ ~late'[call'[n].client]
             => call'[n].tok # call'[m].tok
      BY <2>1, <2>2, <2>4
    <3>4. CarryClean'
      BY <2>1, <3>2, <3>3 DEF CarryClean
    <3>5. QED BY <3>1, <3>4 DEF TokenInv
  <2>6. RefusedTokenDropped'
    BY <2>1, <2>3 DEF RefusedTokenDropped
  <2>7. QED BY <2>5, <2>6
<1>3. ASSUME NEW n \in DOMAIN call, CallStep(n) PROVE TokenInv' /\ RefusedTokenDropped'
  <2>1. /\ Touched(n) /\ call[n].pc # "done" /\ DOMAIN call' = DOMAIN call
        /\ call'[n].client = call[n].client /\ call'[n].after = call[n].after
        /\ \A m \in DOMAIN call : m # n => call'[m] = call[m]
    BY <1>3, MovedFacts DEF Touched
  <2>2. \A k \in DOMAIN call : \A m \in call[k].after :
            m \in DOMAIN call /\ m # n /\ call[m].pc = "done" /\ call'[m] = call[m]
               /\ call[m].client = call[k].client
    BY <2>1 DEF AfterInv
  <2>3. \A c \in Clients : ~late'[c] => ~late[c]
    BY <1>3, TokenMoves DEF Arrived
  <2>4. RefusedTokenDropped'
    <3>1. \A k \in DOMAIN call : k # n => \A m \in call'[k].after :
             /\ call'[k].out = "unauthorized" /\ call'[m].out = "unauthorized"
             /\ call'[k].client \notin Bare /\ ~late'[call'[k].client]
             => call'[k].tok # call'[m].tok
      BY <1>0, <2>1, <2>2, <2>3 DEF RefusedTokenDropped
    <3>2. ASSUME NEW m \in call'[n].after, call'[n].out = "unauthorized",
                 call'[m].out = "unauthorized", call'[n].client \notin Bare,
                 ~late'[call'[n].client]
          PROVE  call'[n].tok # call'[m].tok
      <4>1. call[n].pc = "refused" /\ call'[n].tok = call[n].tok
        BY <1>3, <2>1, <3>2, TokenMoves DEF Arrived, Moves, Same, StageInv
      <4>2. QED BY <1>0, <2>1, <2>2, <2>3, <3>2, <4>1 DEF TokenInv, CarryClean
    <3>3. QED BY <2>1, <3>1, <3>2 DEF RefusedTokenDropped
  <2>5. CASE Arrived(n)
    <3>1. /\ call[n].pc = "arrive" /\ call'[n].pc = "request" /\ call'[n].tok = call[n].tok
          /\ call'[n].out = call[n].out /\ call[n].out = "none"
          /\ cached'[call[n].client] = call[n].tok
          /\ ~late'[call[n].client] =>
                ~late[call[n].client] /\ call[n].tok \notin Refused(call[n].client)
          /\ \A c \in Clients : c # call[n].client =>
                cached'[c] = cached[c] /\ late'[c] = late[c]
      BY <1>0, <2>5 DEF Arrived, Moves, Same, StageInv
    <3>2. \A m \in DOMAIN call :
             call[m].out = "unauthorized" => call[m].tok \in Refused(call[m].client)
      BY DEF StageInv, Refused, Answered
    <3>3. CacheClean'
      <4>1. SUFFICES ASSUME NEW m \in DOMAIN call, m # n, call[m].out = "unauthorized",
                            call[m].client \notin Bare, ~late'[call[m].client]
                     PROVE  cached'[call[m].client] # call[m].tok
        BY <2>1, <3>1 DEF CacheClean
      <4>2. CASE call[m].client = call[n].client
        BY <3>1, <3>2, <4>1, <4>2
      <4>3. CASE call[m].client # call[n].client
        BY <1>0, <3>1, <4>1, <4>3 DEF TokenInv, CacheClean
      <4>4. QED BY <4>2, <4>3
    <3>4. CarryClean'
      <4>1. SUFFICES ASSUME NEW k \in DOMAIN call, NEW m \in call[k].after,
                            call'[k].pc \in {"request", "refused"},
                            call[m].out = "unauthorized", call[k].client \notin Bare,
                            ~late'[call[k].client]
                     PROVE  call'[k].tok # call[m].tok
        BY <2>1, <2>2 DEF CarryClean
      <4>2. CASE k = n
        BY <2>2, <3>1, <3>2, <4>1, <4>2
      <4>3. CASE k # n
        BY <1>0, <2>1, <2>3, <4>1, <4>3 DEF TokenInv, CarryClean
      <4>4. QED BY <4>2, <4>3
    <3>5. QED BY <2>4, <3>3, <3>4 DEF TokenInv
  <2>6. CASE ~Arrived(n)
    <3>1. /\ UNCHANGED late /\ \A c \in Clients : cached'[c] \in {cached[c], None}
          /\ call'[n].out = "unauthorized" => cached'[call[n].client] = None
          /\ call'[n].out = "unauthorized" => call'[n].tok = call[n].tok
          /\ call'[n].pc \in {"request", "refused"} =>
                call[n].pc = "request" /\ call'[n].tok = call[n].tok
      BY <1>3, <2>6, TokenMoves
    <3>2. CacheClean'
      BY <1>0, <2>1, <3>1 DEF TokenInv, CacheClean
    <3>3. CarryClean'
      BY <2>1, <2>2, <3>1 DEF TokenInv, CarryClean
    <3>4. QED BY <2>4, <3>2, <3>3 DEF TokenInv
  <2>7. QED BY <2>5, <2>6
<1>4. QED BY <1>1, <1>2, <1>3 DEF Kinds
----------------------------------------------------------------------------
\* The tip of a client.

\* An answered call keeps its place in the store.
LEMMA DoneStays ==
    ASSUME TypeOK, NEW n \in DOMAIN call, CallStep(n), NEW m \in DOMAIN call,
           call[m].pc = "done"
    PROVE  call'[m] = call[m] /\ Positions(m)' = Positions(m)
<1>0. log \in Seq(Nat) /\ Touched(n) /\ m # n
  BY MovedFacts DEF TypeOK
<1>1. call'[m] = call[m]
  BY <1>0 DEF Touched
<1>2. CASE UNCHANGED log
  BY <1>1, <1>2 DEF Positions
<1>3. ASSUME NEW o \in {"appended", "unwritten"}, Handled(n, o)
      PROVE  Positions(m)' = Positions(m)
  <2>0. call[n].size \in Nat /\ n \in Nat
    BY <1>0 DEF Touched, Call, TypeOK
  <2>1. PICK size \in 0 .. call[n].size : log' = log \o Lines(n, size)
    BY <1>3 DEF Handled
  <2>4. size \in Nat
    BY <2>0
  <2>2. /\ DOMAIN log' = 1 .. Len(log) + size /\ DOMAIN log = 1 .. Len(log)
        /\ \A i \in DOMAIN log : log'[i] = log[i]
        /\ \A i \in Len(log) + 1 .. Len(log) + size : log'[i] = n
        /\ Len(log) \in Nat
    <3>1. Extended(log, log \o Lines(n, size), size, n)
      BY <1>0, <2>0, <2>4, BatchAppended
    <3>2. Extended(log, log', size, n)
      BY <2>1, <3>1, Zenon
    <3>3. QED BY <3>2 DEF Extended
  <2>3. QED BY <1>0, <1>1, <2>0, <2>1, <2>2 DEF Positions
<1>4. QED
  BY <1>1, <1>2, <1>3 DEF CallStep, Minted, Arrived, TurnedAway, Dropped, SentAgain, GivenUp,
      Taken, Lost, Handled, Over, Still

\* latestCursor is the end of the last batch that was answered.
LEMMA TipStep ==
    ASSUME TypeOK, StageInv, AfterInv, LatestCursorOwn, Kinds
    PROVE  LatestCursorOwn'
<1>1. CASE Quiet
  BY <1>1 DEF Quiet, Still, LatestCursorOwn, Acked, Answered, LastOf, Positions
<1>2. ASSUME NEW c \in Clients, NEW n \in Nat, Opens(c, n) PROVE LatestCursorOwn'
  <2>1. /\ n \notin DOMAIN call /\ DOMAIN call' = DOMAIN call \cup {n}
        /\ UNCHANGED <<tip, log>> /\ \A m \in DOMAIN call : call'[m] = call[m]
        /\ call'[n].pc # "done"
    BY <1>2 DEF Opens, Still
  <2>2. \A d \in Clients : Acked(d)' = Acked(d) /\ Acked(d) \subseteq DOMAIN call
    BY <2>1 DEF Acked, Answered
  <2>3. \A m : LastOf(m)' = LastOf(m)
    BY <2>1 DEF LastOf, Positions
  <2>4. QED BY <2>1, <2>2, <2>3 DEF LatestCursorOwn
<1>3. ASSUME NEW n \in DOMAIN call, CallStep(n) PROVE LatestCursorOwn'
  <2>1. /\ Touched(n) /\ call[n].pc # "done" /\ DOMAIN call' = DOMAIN call
        /\ call'[n].client = call[n].client /\ call[n].client \in Clients
        /\ call'[n].size = call[n].size /\ call'[n].after = call[n].after
        /\ \A m \in DOMAIN call : m # n => call'[m] = call[m]
    BY <1>3, MovedFacts DEF Touched
  <2>2. \A d \in Clients : \A m \in Acked(d) :
            /\ m \in DOMAIN call /\ m # n /\ call[m].pc = "done" /\ call'[m] = call[m]
            /\ LastOf(m)' = LastOf(m)
    <3>1. ASSUME NEW d \in Clients, NEW m \in Acked(d)
          PROVE  m \in DOMAIN call /\ call[m].pc = "done"
      BY <3>1 DEF Acked, Answered
    <3>2. ASSUME NEW d \in Clients, NEW m \in Acked(d)
          PROVE  call'[m] = call[m] /\ Positions(m)' = Positions(m)
      BY <1>3, <3>1, <3>2, DoneStays
    <3>3. ASSUME NEW d \in Clients, NEW m \in Acked(d) PROVE LastOf(m)' = LastOf(m)
      BY <3>2 DEF LastOf
    <3>4. QED BY <2>1, <3>1, <3>2, <3>3
  <2>3. \A d \in Clients : \A m \in Acked(d) : n \notin call[m].after
    BY <2>1, <2>2 DEF AfterInv
  <2>4. CASE Taken(n) /\ call[n].out = "appended" /\ call[n].size > 0
    <3>0. tip \in [Clients -> Nat] /\ n \notin call[n].after
      BY <2>1 DEF TypeOK, AfterInv
    <3>1. /\ tip' = [tip EXCEPT ![call[n].client] = LastOf(n)] /\ UNCHANGED log
          /\ call'[n].pc = "done" /\ call'[n].out = "appended"
      BY <2>4 DEF Taken, Over, Moves
    <3>2. /\ Acked(call[n].client)' = Acked(call[n].client) \cup {n}
          /\ \A d \in Clients : d # call[n].client => Acked(d)' = Acked(d)
      BY <2>1, <2>2, <2>4, <3>1 DEF Acked, Answered
    <3>3. LastOf(n)' = LastOf(n)
      BY <3>1 DEF LastOf, Positions
    <3>4. ASSUME NEW d \in Clients, d = call[n].client
          PROVE  /\ n \in Acked(d)' /\ tip'[d] = LastOf(n)'
                 /\ \A m \in Acked(d)' : n \notin call'[m].after
      BY <2>1, <2>2, <2>3, <3>0, <3>1, <3>2, <3>3, <3>4
    <3>5. ASSUME NEW d \in Clients, d # call[n].client
          PROVE  /\ tip'[d] = tip[d] /\ Acked(d)' = Acked(d)
                 /\ \A m \in Acked(d) : LastOf(m)' = LastOf(m) /\ call'[m] = call[m]
      BY <2>2, <3>0, <3>1, <3>2, <3>5
    <3>6. QED BY <3>4, <3>5 DEF LatestCursorOwn
  <2>5. CASE ~(Taken(n) /\ call[n].out = "appended" /\ call[n].size > 0)
    <3>1. /\ tip' = tip
          /\ ~(call'[n].pc = "done" /\ call'[n].out = "appended" /\ call'[n].size > 0)
      BY <1>3, <2>1, <2>5 DEF CallStep, Minted, Arrived, TurnedAway, Dropped, SentAgain, GivenUp,
          Taken, Lost, Handled, Over, Moves, Still
    <3>2. \A d \in Clients : Acked(d)' = Acked(d)
      BY <2>1, <2>2, <3>1 DEF Acked, Answered
    <3>3. QED BY <2>2, <3>1, <3>2 DEF LatestCursorOwn
  <2>6. QED BY <2>4, <2>5
<1>4. QED BY <1>1, <1>2, <1>3 DEF Kinds
----------------------------------------------------------------------------
\* The syncs.

SyncedInv == \A c \in Clients : synced[c].epoch <= epoch

\* A sync that ends speaks of the server that is running, and of types it knows now.
LEMMA SyncedStep ==
    ASSUME GatewayAssumption, TypeOK, CacheInv, [Next]_vars, NEW d \in Clients
    PROVE  \/ synced'[d] = synced[d]
           \/ /\ epoch' = epoch /\ synced'[d].epoch = epoch
              /\ Known(synced'[d].map) \subseteq Known(sreg'.map)
<1> USE DEF server, syncing
<1>0. /\ synced \in [Clients -> [epoch : Nat, map : Map]] /\ sreg \in Registry
      /\ sync \in [Clients -> SyncState]
  BY DEF TypeOK, SyncState
<1>1. ASSUME NEW c \in Clients, NEW map, SyncEnds(c, map)
      PROVE  \/ synced'[d] = synced[d]
             \/ synced'[d].epoch = epoch /\ synced'[d].map = map
  BY <1>0, <1>1 DEF SyncEnds
<1>2. ASSUME NEW c \in Clients, SyncDiff(c)
      PROVE  \/ synced'[d] = synced[d]
             \/ /\ epoch' = epoch /\ synced'[d].epoch = epoch
                /\ Known(synced'[d].map) \subseteq Known(sreg'.map)
  <2>1. Digest(sreg) = sreg.map /\ sreg'.map = sreg.map /\ epoch' = epoch
    BY <1>0, <1>2, RegistryTypes DEF SyncDiff, CacheInv, Coherent
  <2>2. CASE Digest(sreg) = sync[c].digest /\ SyncEnds(c, sync[c].digest)
    BY <1>1, <2>1, <2>2
  <2>3. CASE ToPush(c) = {} /\ SyncEnds(c, creg[c].map)
    BY <1>1, <2>1, <2>3 DEF ToPush
  <2>4. CASE UNCHANGED synced
    BY <2>4
  <2>5. QED BY <1>2, <2>2, <2>3, <2>4 DEF SyncDiff
<1>3. ASSUME NEW c \in Clients, Push(c)
      PROVE  \/ synced'[d] = synced[d]
             \/ /\ epoch' = epoch /\ synced'[d].epoch = epoch
                /\ Known(synced'[d].map) \subseteq Known(sreg'.map)
  <2> DEFINE map == [t \in Types |-> IF t \in sync[c].defs THEN creg[c].map[t] ELSE Absent]
  <2>1. SyncEnds(c, map) /\ sreg' = PushInto(sreg, sync[c].defs) /\ epoch' = epoch
    BY <1>3 DEF Push
  <2>2. sync[c].defs \in SUBSET Types
    BY <1>0 DEF SyncState
  <2>3. Known(map) \subseteq sync[c].defs
    BY DEF Known
  <2>4. sync[c].defs \subseteq Known(sreg'.map)
    BY <1>0, <2>1, <2>2, PushTypes
  <2> HIDE DEF map
  <2>5. QED BY <1>1, <2>1, <2>3, <2>4
<1>4. ASSUME NEW c \in Clients,
             \/ \E t \in Types, a \in Schemas : Define(c, t, a)
             \/ \E size \in Batches : IssueAppend(c, size)
             \/ IssueSubscribe(c) \/ Expire(c) \/ SyncStart(c) \/ SyncFails(c)
      PROVE  synced' = synced
  BY <1>4 DEF Define, IssueAppend, IssueSubscribe, Expire, SyncStart, SyncFails
<1>5. ASSUME NEW n \in 1 .. MaxCalls, ClientStep(n) \/ Lose(n) PROVE synced' = synced
  BY <1>5 DEF ClientStep, Mint, TokenArrives, Refuse, HandleAppend, HandleSubscribe,
      RefreshOn401, Unauthorized, Answer, Lose
<1>6. ASSUME NEW m \in Modes, Serve(m) PROVE synced' = synced
  BY <1>6 DEF Serve
<1>7. CASE UNCHANGED vars
  BY <1>7 DEF vars
<1>8. QED BY <1>2, <1>3, <1>4, <1>5, <1>6, <1>7 DEF Next, SyncStep

\* What a sync taught the server stays known as long as that server runs.
LEMMA SyncStepKeeps ==
    ASSUME GatewayAssumption, TypeOK, CacheInv, SyncedInv, SyncedTypesKnown, [Next]_vars
    PROVE  SyncedInv' /\ SyncedTypesKnown'
<1>0. epoch \in Nat /\ \A c \in Clients : synced[c].epoch \in Nat
  BY DEF TypeOK
<1>1. epoch' \in {epoch, epoch + 1}
  BY SregStep
<1>2. SyncedInv'
  BY <1>0, <1>1, SyncedStep DEF SyncedInv
<1>3. ASSUME NEW c \in Clients, synced'[c].epoch = epoch'
      PROVE  Known(synced'[c].map) \subseteq Known(sreg'.map)
  <2>1. CASE synced'[c] = synced[c]
    <3>1. epoch' = epoch
      BY <1>0, <1>1, <1>3, <2>1 DEF SyncedInv
    <3>2. QED BY <1>3, <2>1, <3>1, SregGrows DEF SyncedTypesKnown
  <2>2. QED BY <2>1, SyncedStep
<1>4. QED BY <1>2, <1>3 DEF SyncedTypesKnown
----------------------------------------------------------------------------
\* The inductive invariant.

IInv ==
    /\ TypeOK /\ StageInv /\ AfterInv /\ BornInv
    /\ LogInv /\ AppendInv
    /\ CacheInv /\ DigestInv /\ GateDecides
    /\ AuthInv /\ TokenInv /\ RefusedTokenDropped
    /\ LatestCursorOwn /\ SyncedInv /\ SyncedTypesKnown

\* The inductive invariant holds at first.
LEMMA IInvInit == GatewayAssumption /\ Init => IInv
<1> SUFFICES ASSUME GatewayAssumption, Init PROVE IInv
  OBVIOUS
<1>1. TypeOK
  BY TypeInit
<1>2. call = <<>> /\ log = <<>> /\ epoch = 1 /\ tip = [c \in Clients |-> 0]
  BY DEF Init
<1>3. StageInv /\ AfterInv /\ BornInv /\ AppendInv /\ DigestInv /\ GateDecides
      /\ AuthInv /\ TokenInv /\ RefusedTokenDropped
  BY <1>2 DEF StageInv, AfterInv, BornInv, AppendInv, DigestInv, GateDecides, AuthInv,
      TokenInv, CacheClean, CarryClean, RefusedTokenDropped
<1>4. LogInv
  BY <1>2 DEF LogInv
<1>5. LatestCursorOwn
  BY <1>2 DEF LatestCursorOwn, Acked, Answered
<1>6. CacheInv
  BY DEF Init, CacheInv, Coherent, NewRegistry
<1>7. SyncedInv /\ SyncedTypesKnown
  BY DEF Init, SyncedInv, SyncedTypesKnown
<1>8. QED BY <1>1, <1>3, <1>4, <1>5, <1>6, <1>7 DEF IInv

\* Every step keeps it.
LEMMA IInvStep == GatewayAssumption /\ IInv /\ [Next]_vars => IInv'
<1> SUFFICES ASSUME GatewayAssumption, IInv, [Next]_vars PROVE IInv'
  OBVIOUS
<1> USE DEF IInv
<1>1. TypeOK'
  BY TypeStep
<1>2. Kinds
  BY StepKinds DEF Kinds
<1>3. StageInv' /\ AfterInv' /\ BornInv'
  BY <1>2, StageStep, AfterStep, BornStep
<1>4. LogInv' /\ AppendInv'
  BY <1>2, LogStep
<1>5. CacheInv' /\ DigestInv' /\ GateDecides'
  BY <1>2, CacheStep, GateStep
<1>6. AuthInv' /\ TokenInv' /\ RefusedTokenDropped'
  BY <1>2, AuthStep, TokenStep
<1>7. LatestCursorOwn'
  BY <1>2, TipStep
<1>8. SyncedInv' /\ SyncedTypesKnown'
  BY SyncStepKeeps
<1>9. QED BY <1>1, <1>3, <1>4, <1>5, <1>6, <1>7, <1>8

\* So it always holds.
LEMMA IInvAlways == Spec => []IInv
  BY IInvInit, IInvStep, GatewayAssumption, PTL DEF Spec
----------------------------------------------------------------------------
\* Every variable stays within the data of the code.
THEOREM GatewayTypeCorrect == Spec => []TypeOK
<1>1. IInv => TypeOK
  BY DEF IInv
<1>2. QED BY <1>1, IInvAlways, PTL

\* However often a call is sent, lost or refused, no event of its batch is in the store twice;
\* the batch is there in one piece, and whole unless the store failed to write it.
THEOREM GatewayAppendsOnce == Spec => []AppendedOnce
<1>1. IInv => AppendedOnce
  BY BlocksAreWhole DEF IInv
<1>2. QED BY <1>1, IInvAlways, PTL

\* The gate accepts exactly the appends whose definitions are the server's.
THEOREM GatewayGateDecides == Spec => []GateDecides
<1>1. IInv => GateDecides
  BY DEF IInv
<1>2. QED BY <1>1, IInvAlways, PTL

\* A page that gets its token by cookie is refused for good only if the server was replaced
\* under it.
THEOREM GatewayAuthFailedExplained == Spec => []AuthFailedExplained
<1>1. IInv => AuthFailedExplained
  BY DEF IInv, AuthInv, AuthFailedExplained
<1>2. QED BY <1>1, IInvAlways, PTL

\* No client is refused twice for one token in calls one after the other, but for the late
\* arrival.
THEOREM GatewayRefusedTokenDropped == Spec => []RefusedTokenDropped
<1>1. IInv => RefusedTokenDropped
  BY DEF IInv
<1>2. QED BY <1>1, IInvAlways, PTL

\* latestCursor is the end of a batch of the client's own that was acknowledged, and that no
\* append of its own that began later has overtaken.
THEOREM GatewayLatestCursor == Spec => []LatestCursorOwn
<1>1. IInv => LatestCursorOwn
  BY DEF IInv
<1>2. QED BY <1>1, IInvAlways, PTL

\* What was synchronised with the server that is running is known to it.
THEOREM GatewaySyncedTypesKnown == Spec => []SyncedTypesKnown
<1>1. IInv => SyncedTypesKnown
  BY DEF IInv
<1>2. QED BY <1>1, IInvAlways, PTL

\* A push changes nothing of what the server knew.
THEOREM GatewayPushKeeps == Spec => PushKeeps
<1>1. IInv /\ [Next]_vars =>
          [epoch' = epoch => \A t \in Known(sreg.map) : sreg'.map[t] = sreg.map[t]]_vars
  BY SregGrows, GatewayAssumption DEF IInv
<1>2. QED BY <1>1, IInvAlways, PTL DEF PushKeeps, Spec
=============================================================================
