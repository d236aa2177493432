------------------------- MODULE CloudStore_proofs --------------------------
(***************************************************************************)
(* Proofs about CloudStore, for every page size, every retry budget and    *)
(* any number of events and faults.                                        *)
(***************************************************************************)
EXTENDS CloudStore, TLAPS

Saw(n) == \E i \in DOMAIN out : out[i] = n

\* What floor is for the starts that fix it; from "latest" the drain has no page.
StartInv ==
    /\ cursor \in Nat => cursor <= len
    /\ phase # "off" /\ cursor # Latest => floor = IF cursor = Earliest THEN 0 ELSE cursor
    /\ phase = "off" => out = <<>>
    /\ phase = "drain" /\ cursor = Latest => out = <<>> /\ taken = given

\* lastDelivered is the last event that went out.
LastInv ==
    /\ out = <<>> <=> delivered = Latest
    /\ out # <<>> => delivered = out[Len(out)] /\ delivered \in 1 .. len

\* A connection, or a drain that was not restarted, goes on where the last event was.
AtInv ==
    phase = "live" \/ (phase = "drain" /\ ~again) => (out # <<>> => taken = delivered)

\* All that is owed up to where the client has read was seen.
CoverInv ==
    phase \in {"drain", "live"} => \A n \in Base + 1 .. taken : Saw(n)

IInv ==
    /\ TypeOK /\ StartInv /\ LastInv /\ AtInv /\ CoverInv
    /\ NothingLost /\ NothingTwice
----------------------------------------------------------------------------
\* What the server makes of a cursor that names no event of the future.
LEMMA FromBounds ==
    ASSUME CloudAssumption, NEW c \in Cursor, len \in Nat, c \in Nat => c <= len
    PROVE  /\ From(c) \in 0 .. len
           /\ c = Earliest => From(c) = 0
           /\ c = Latest => From(c) = len
           /\ c \in Nat => From(c) = c
  BY DEF CloudAssumption, Cursor, From

\* Nothing that was seen is forgotten by a step that leaves the history alone.
LEMMA HistoryFrame ==
    ASSUME IInv, UNCHANGED <<cursor, floor, out, delivered>>, len' \in Nat, len <= len',
           again => again', again' \in BOOLEAN
    PROVE  /\ LastInv' /\ NothingLost' /\ NothingTwice'
           /\ out # <<>> \/ cursor # Latest \/ len' = len => Base' = Base
           /\ out = <<>> /\ cursor = Latest => Base' = len'
<1>1. out # <<>> \/ cursor # Latest \/ len' = len => Base' = Base
  BY DEF Base
<1>2. out = <<>> /\ cursor = Latest => Base' = len'
  BY DEF Base
<1>3. LastInv'
  BY DEF IInv, TypeOK, LastInv
<1>4. NothingLost'
  BY <1>1 DEF IInv, TypeOK, NothingLost
<1>5. NothingTwice'
  BY DEF IInv, TypeOK, NothingTwice
<1>6. QED BY <1>1, <1>2, <1>3, <1>4, <1>5

\* Reading the next event shows it to the consumer, right after all that precede it.
LEMMA TakeNextStep ==
    ASSUME IInv, phase \in {"drain", "live"}, TakeNext
    PROVE  IInv'
<1>1. /\ TypeOK /\ StartInv /\ LastInv /\ AtInv /\ CoverInv
      /\ NothingLost /\ NothingTwice
      /\ out \in Seq(Nat) /\ taken \in Nat /\ len \in Nat /\ given \in Nat
      /\ taken < given /\ given <= len
  BY DEF IInv, TypeOK, TakeNext
<1>2. /\ taken' = taken + 1 /\ out' = Append(out, taken + 1) /\ delivered' = taken + 1
      /\ retries' = 0
      /\ UNCHANGED <<len, phase, cursor, given, armed, hung, floor, again, faults>>
  BY DEF TakeNext
<1>3. /\ out' \in Seq(Nat) /\ out' # <<>> /\ Len(out') = Len(out) + 1
      /\ DOMAIN out' = 1 .. Len(out) + 1 /\ DOMAIN out = 1 .. Len(out) /\ Len(out) \in Nat
      /\ out'[Len(out) + 1] = taken + 1
      /\ \A i \in DOMAIN out : out'[i] = out[i] /\ out[i] \in Nat
  BY <1>1, <1>2
<1>4. TypeOK'
  BY <1>1, <1>2, <1>3, CloudAssumption DEF TypeOK, CloudAssumption
<1>5. StartInv'
  BY <1>1, <1>2 DEF StartInv
<1>6. LastInv'
  BY <1>1, <1>2, <1>3, CloudAssumption DEF LastInv, CloudAssumption
<1>7. AtInv'
  BY <1>2 DEF AtInv
<1>8. Base \in Int /\ Base' \in Int /\ (Base' = Base \/ Base' = taken)
  <2>1. CASE cursor # Latest
    BY <1>1, <1>2, <2>1 DEF Base, TypeOK
  <2>2. CASE cursor = Latest /\ out = <<>>
    BY <1>1, <1>2, <1>3, <2>2 DEF Base
  <2>3. CASE cursor = Latest /\ out # <<>>
    BY <1>1, <1>2, <1>3, <2>3 DEF Base
  <2>4. QED BY <2>1, <2>2, <2>3
<1>9. \A n \in Base' + 1 .. taken : Saw(n)
  <2>1. \A n \in Base + 1 .. taken : Saw(n)
    BY <1>1 DEF CoverInv
  <2>2. CASE Base' = Base  BY <2>1, <2>2
  <2>3. CASE Base' = taken  BY <1>1, <2>3
  <2>4. QED BY <1>8, <2>2, <2>3
<1>10. CoverInv'
  <2>1. ASSUME NEW n \in Base' + 1 .. taken' PROVE \E i \in DOMAIN out' : out'[i] = n
    <3>1. CASE n = taken + 1
      BY <1>3, <3>1
    <3>2. CASE n # taken + 1
      <4>1. n \in Base' + 1 .. taken
        <5>1. taken \in Int /\ taken' = taken + 1
          BY <1>1, <1>2
        <5>2. Base' + 1 \in Int
          BY <1>8
        <5>3. QED BY <5>1, <5>2, <2>1, <3>2
      <4>2. PICK i \in DOMAIN out : out[i] = n
        BY <1>9, <4>1 DEF Saw
      <4>3. i \in DOMAIN out' /\ out'[i] = n
        BY <1>3, <4>2
      <4>4. QED BY <4>3
    <3>3. QED BY <3>1, <3>2
  <2>2. QED BY <2>1 DEF CoverInv, Saw
<1>11. NothingLost'
  <2>1. SUFFICES ASSUME NEW i \in DOMAIN out', NEW n \in Base' + 1 .. out'[i] - 1
                 PROVE  \E j \in 1 .. i - 1 : out'[j] = n
    BY DEF NothingLost
  <2>2. CASE i = Len(out) + 1
    <3>1. n \in Base' + 1 .. taken
      <4>1. taken \in Int /\ out'[i] = taken + 1
        BY <1>1, <1>3, <2>2
      <4>2. Base' + 1 \in Int
        BY <1>8
      <4>3. QED BY <2>1, <4>1, <4>2
    <3>2. PICK j \in DOMAIN out : out[j] = n
      BY <1>9, <3>1 DEF Saw
    <3>3. j \in 1 .. i - 1 /\ out'[j] = n
      BY <1>3, <2>2, <3>2
    <3>4. QED BY <3>3
  <2>3. CASE i \in DOMAIN out
    <3>1. out # <<>>
      BY <1>3, <2>3
    <3>2. Base' = Base
      BY <1>1, <1>2, <1>3, <3>1 DEF Base
    <3>3. n \in Base + 1 .. out[i] - 1
      BY <1>3, <2>1, <2>3, <3>2
    <3>4. PICK j \in 1 .. i - 1 : out[j] = n
      BY <1>1, <2>3, <3>3 DEF NothingLost
    <3>5. j \in DOMAIN out
      BY <1>3, <2>3, <3>4
    <3>6. out'[j] = n
      BY <1>3, <3>4, <3>5
    <3>7. QED BY <3>4, <3>6
  <2>4. QED BY <1>3, <2>2, <2>3
<1>12. NothingTwice'
  <2>1. SUFFICES ASSUME ~again, NEW i \in DOMAIN out', NEW j \in DOMAIN out', i < j
                 PROVE  out'[i] < out'[j]
    BY <1>2 DEF NothingTwice
  <2>2. i \in DOMAIN out /\ i \in Nat /\ j \in Nat
    BY <1>3, <2>1
  <2>3. CASE j \in DOMAIN out
    BY <1>1, <1>3, <2>1, <2>2, <2>3 DEF NothingTwice
  <2>4. CASE j = Len(out) + 1
    <3>1. out # <<>> /\ taken = out[Len(out)]
      BY <1>1, <1>3, <2>1, <2>2 DEF AtInv, LastInv
    <3>2. out[i] <= out[Len(out)]
      <4>1. CASE i = Len(out)  BY <1>3, <2>2, <4>1
      <4>2. CASE i # Len(out)
        <5>1. Len(out) \in DOMAIN out /\ i < Len(out)
          BY <1>3, <2>2, <4>2
        <5>2. out[i] < out[Len(out)]
          BY <1>1, <2>1, <2>2, <5>1 DEF NothingTwice
        <5>3. QED BY <1>3, <2>2, <5>1, <5>2
      <4>3. QED BY <4>1, <4>2
    <3>3. QED BY <1>1, <1>3, <2>2, <2>4, <3>1, <3>2
  <2>5. QED BY <1>3, <2>3, <2>4
<1>13. QED BY <1>4, <1>5, <1>6, <1>7, <1>10, <1>11, <1>12 DEF IInv

\* Before the first call nothing is known and nothing was seen.
LEMMA InitStep == ASSUME Init PROVE IInv
<1>1. TypeOK
  <2>1. /\ len \in Nat /\ given \in 0 .. len /\ taken \in 0 .. given
        /\ retries \in 0 .. MaxRetries /\ faults \in 0 .. MaxFaults /\ floor \in Nat \cup {-1}
    BY CloudAssumption DEF CloudAssumption, Init
  <2>2. /\ phase \in Phases /\ cursor \in Cursor /\ delivered \in Nat \cup {Latest}
        /\ armed \in BOOLEAN /\ hung \in BOOLEAN /\ again \in BOOLEAN
    BY DEF Init, Phases, Cursor
  <2>3. out \in Seq(Nat)
    BY DEF Init
  <2>4. QED BY <2>1, <2>2, <2>3 DEF TypeOK
<1>2. StartInv
  BY CloudAssumption DEF CloudAssumption, Init, StartInv
<1>3. LastInv /\ AtInv /\ CoverInv
  BY DEF Init, LastInv, AtInv, CoverInv
<1>4. NothingLost /\ NothingTwice
  BY DEF Init, NothingLost, NothingTwice
<1>5. QED BY <1>1, <1>2, <1>3, <1>4 DEF IInv

\* An event appended on the server moves the end of the log, and what "latest" means.
LEMMA ArriveStep == ASSUME IInv, Arrive PROVE IInv'
<1>1. /\ TypeOK /\ StartInv /\ LastInv /\ AtInv /\ CoverInv /\ len \in Nat
      /\ again \in BOOLEAN
  BY DEF IInv, TypeOK
<1>2. /\ len' = len + 1
      /\ UNCHANGED <<phase, cursor, given, taken, delivered, armed, hung, retries, out, floor,
                     again, faults>>
  BY DEF Arrive
<1>3. TypeOK' /\ StartInv' /\ AtInv'
  BY <1>1, <1>2 DEF TypeOK, StartInv, AtInv, Cursor
<1>4. LastInv' /\ NothingLost' /\ NothingTwice'
  BY <1>1, <1>2, HistoryFrame
<1>5. CoverInv'
  <2>1. CASE out # <<>> \/ cursor # Latest
    BY <1>1, <1>2, <2>1, HistoryFrame DEF CoverInv, Saw
  <2>2. CASE out = <<>> /\ cursor = Latest
    <3>1. Base' = len + 1 /\ taken' \in Nat /\ taken' <= len
      BY <1>1, <1>2, <2>2, HistoryFrame DEF TypeOK
    <3>2. QED BY <1>1, <3>1 DEF CoverInv
  <2>3. QED BY <2>1, <2>2
<1>6. QED BY <1>3, <1>4, <1>5 DEF IInv

\* A call of subscribe fixes what is owed, and starts where nothing is owed before.
LEMMA SubscribeStep ==
    ASSUME IInv, NEW c \in {Earliest, Latest} \cup 1 .. len, NEW drain \in BOOLEAN,
           Subscribe(c, drain)
    PROVE  IInv'
<1>1. TypeOK /\ StartInv /\ LastInv /\ len \in Nat /\ out = <<>> /\ delivered = Latest
  BY DEF IInv, TypeOK, StartInv, LastInv, Subscribe
<1>2. /\ phase' = (IF drain THEN "drain" ELSE "connect") /\ cursor' = c
      /\ given' = From(c) /\ taken' = From(c) /\ floor' = IF c = Latest THEN -1 ELSE From(c)
      /\ UNCHANGED <<len, delivered, armed, hung, retries, out, again, faults>>
  BY DEF Subscribe
<1>3. /\ c \in Cursor /\ From(c) \in 0 .. len /\ (c \in Nat => c <= len)
      /\ (c = Earliest => From(c) = 0) /\ (c = Latest => From(c) = len)
      /\ (c \in Nat => From(c) = c)
  <2>1. c \in Cursor /\ (c \in Nat => c <= len)
    BY <1>1, CloudAssumption DEF CloudAssumption, Cursor
  <2>2. QED BY <1>1, <2>1, FromBounds, CloudAssumption
<1>4. TypeOK'
  BY <1>1, <1>2, <1>3 DEF TypeOK, Phases
<1>5. StartInv'
  BY <1>1, <1>2, <1>3, CloudAssumption DEF CloudAssumption, StartInv, Cursor
<1>6. LastInv' /\ AtInv' /\ NothingLost' /\ NothingTwice'
  BY <1>1, <1>2 DEF LastInv, AtInv, NothingLost, NothingTwice
<1>7. Base' = taken' /\ taken' \in Nat
  BY <1>1, <1>2, <1>3 DEF Base
<1>8. CoverInv'
  <2>1. \A t \in Nat : \A n \in t + 1 .. t : FALSE
    OBVIOUS
  <2>2. \A n \in Base' + 1 .. taken' : FALSE
    BY <1>7, <2>1
  <2>3. QED BY <2>2 DEF CoverInv
<1>9. QED BY <1>4, <1>5, <1>6, <1>8 DEF IInv

\* A page, or an event sent, is more to read: it changes nothing that was read.
LEMMA MoreStep ==
    ASSUME IInv, FetchPage \/ Send
    PROVE  IInv'
<1>1. /\ TypeOK /\ StartInv /\ LastInv /\ AtInv /\ CoverInv /\ len \in Nat
      /\ given \in Nat /\ taken \in Nat /\ again \in BOOLEAN
  BY DEF IInv, TypeOK
<1>2. UNCHANGED <<len, phase, cursor, taken, delivered, armed, hung, retries, out, floor,
                  again, faults>>
  BY DEF FetchPage, Send
<1>3. /\ given' \in 0 .. len /\ given < given'
      /\ phase \in {"drain", "live"} /\ (phase = "drain" => cursor # Latest)
  BY <1>1, CloudAssumption DEF CloudAssumption, FetchPage, Send, TypeOK
<1>4. TypeOK'
  BY <1>1, <1>2, <1>3 DEF TypeOK
<1>5. StartInv' /\ AtInv'
  BY <1>1, <1>2, <1>3 DEF StartInv, AtInv
<1>6. LastInv' /\ NothingLost' /\ NothingTwice' /\ Base' = Base
  BY <1>1, <1>2, HistoryFrame
<1>7. CoverInv'
  <2>1. \A n \in Base + 1 .. taken : Saw(n)
    BY <1>1, <1>3 DEF CoverInv
  <2>2. \A n \in Base' + 1 .. taken' : Saw(n)'
    BY <1>2, <1>6, <2>1 DEF Saw
  <2>3. QED BY <2>2 DEF CoverInv
<1>8. QED BY <1>4, <1>5, <1>6, <1>7 DEF IInv

\* The steps that only change the stage, or what is known of the connection.
LEMMA PhaseStep ==
    ASSUME IInv, DrainEnds \/ Beat \/ Hang \/ Disconnect \/ Watchdog \/ Permanent
    PROVE  IInv'
<1>1. /\ TypeOK /\ StartInv /\ LastInv /\ AtInv /\ CoverInv /\ len \in Nat
      /\ given \in Nat /\ taken \in Nat /\ again \in BOOLEAN /\ retries \in 0 .. MaxRetries
  BY DEF IInv, TypeOK
<1>2. /\ UNCHANGED <<len, cursor, taken, delivered, out, floor, again>>
      /\ phase # "off" /\ phase' \in {phase, "connect", "failed"}
      /\ phase' \in {"drain", "live"} => phase' = phase
      /\ given' \in taken .. given /\ (phase' = "drain" => phase = "drain" /\ given' = given)
  <2>1. CASE DrainEnds
    BY <1>1, <2>1 DEF DrainEnds, conn, seen, TypeOK
  <2>2. CASE Beat
    BY <1>1, <2>2 DEF Beat, TypeOK
  <2>3. CASE Hang
    BY <1>1, <2>3 DEF Hang, TypeOK
  <2>4. CASE Disconnect \/ Watchdog
    BY <1>1, <2>4 DEF Disconnect, Watchdog, Reconnect, TypeOK
  <2>5. CASE Permanent
    BY <1>1, <2>5 DEF Permanent, conn, seen, TypeOK
  <2>6. QED BY <2>1, <2>2, <2>3, <2>4, <2>5
<1>3. armed' \in BOOLEAN /\ hung' \in BOOLEAN
  BY <1>1 DEF TypeOK, DrainEnds, Beat, Hang, Disconnect, Watchdog, Reconnect, Permanent, conn
<1>4. retries' \in 0 .. MaxRetries
  BY <1>1, CloudAssumption
  DEF CloudAssumption, DrainEnds, Beat, Hang, Disconnect, Watchdog, Reconnect, Permanent
<1>5. faults' \in 0 .. MaxFaults
  BY <1>1, CloudAssumption
  DEF CloudAssumption, TypeOK, DrainEnds, Beat, Hang, Disconnect, Watchdog, Permanent,
      BreaksAnew, Strikes
<1>6. TypeOK'
  BY <1>1, <1>2, <1>3, <1>4, <1>5 DEF TypeOK, Phases
<1>7. StartInv' /\ AtInv'
  BY <1>1, <1>2 DEF StartInv, AtInv
<1>8. LastInv' /\ NothingLost' /\ NothingTwice' /\ Base' = Base
  BY <1>1, <1>2, HistoryFrame
<1>9. CoverInv'
  BY <1>1, <1>2, <1>8 DEF CoverInv, Saw
<1>10. QED BY <1>6, <1>7, <1>8, <1>9 DEF IInv

\* A failed page sends the drain back to the cursor of the call, where nothing is owed
\* before, or fails the stream.
LEMMA FetchFailsStep == ASSUME IInv, FetchFails PROVE IInv'
<1>1. /\ TypeOK /\ StartInv /\ LastInv /\ AtInv /\ CoverInv /\ len \in Nat
      /\ again \in BOOLEAN /\ cursor \in Cursor /\ phase = "drain"
  BY DEF IInv, TypeOK, FetchFails
<1>2. /\ UNCHANGED <<len, cursor, delivered, armed, hung, out, floor>>
      /\ faults < MaxFaults /\ faults' = faults + 1
  BY DEF FetchFails, Strikes
<1>3. /\ From(cursor) \in 0 .. len
      /\ (cursor = Earliest => From(cursor) = 0) /\ (cursor = Latest => From(cursor) = len)
      /\ (cursor \in Nat => From(cursor) = cursor)
  BY <1>1, FromBounds, CloudAssumption DEF StartInv
<1>4. CASE retries < MaxRetries
  <2>1. /\ retries' = retries + 1 /\ given' = From(cursor) /\ taken' = From(cursor)
        /\ again' = (again \/ out # <<>>) /\ phase' = phase
    BY <1>4 DEF FetchFails
  <2>2. TypeOK'
    BY <1>1, <1>2, <1>3, <1>4, <2>1, CloudAssumption DEF TypeOK, CloudAssumption
  <2>3. StartInv' /\ AtInv'
    BY <1>1, <1>2, <2>1 DEF StartInv, AtInv
  <2>4. LastInv' /\ NothingLost' /\ NothingTwice' /\ Base' = Base
    BY <1>1, <1>2, <2>1, HistoryFrame
  <2>5. Base = From(cursor)
    BY <1>1, <1>3, CloudAssumption DEF CloudAssumption, Base, StartInv, Cursor
  <2>6. CoverInv'
    BY <1>3, <2>1, <2>4, <2>5 DEF CoverInv
  <2>7. QED BY <2>2, <2>3, <2>4, <2>6 DEF IInv
<1>5. CASE ~(retries < MaxRetries)
  <2>1. phase' = "failed" /\ UNCHANGED <<retries, given, taken, again>>
    BY <1>5 DEF FetchFails
  <2>2. TypeOK'
    BY <1>1, <1>2, <2>1, CloudAssumption DEF TypeOK, CloudAssumption, Phases
  <2>3. StartInv' /\ AtInv' /\ CoverInv'
    BY <1>1, <1>2, <2>1 DEF StartInv, AtInv, CoverInv
  <2>4. LastInv' /\ NothingLost' /\ NothingTwice'
    BY <1>1, <1>2, <2>1, HistoryFrame
  <2>5. QED BY <2>2, <2>3, <2>4 DEF IInv
<1>6. QED BY <1>4, <1>5

\* A new connection goes on right after the last event delivered.
LEMMA ConnectStep == ASSUME IInv, Connect PROVE IInv'
<1> DEFINE c == IF delivered = Latest THEN cursor ELSE delivered
<1>1. /\ TypeOK /\ StartInv /\ LastInv /\ NothingLost /\ len \in Nat
      /\ again \in BOOLEAN /\ cursor \in Cursor /\ out \in Seq(Nat)
  BY DEF IInv, TypeOK
<1>2. /\ phase = "connect" /\ phase' = "live" /\ given' = From(c) /\ taken' = From(c)
      /\ armed' = FALSE /\ hung' = FALSE
      /\ floor' = IF floor = -1 THEN From(c) ELSE floor
      /\ UNCHANGED <<len, cursor, delivered, retries, out, again, faults>>
  BY DEF Connect, ConnectAt
<1>3. /\ c \in Cursor /\ From(c) \in 0 .. len
      /\ (c = Earliest => From(c) = 0) /\ (c = Latest => From(c) = len)
      /\ (c \in Nat => From(c) = c)
  <2>1. c \in Cursor /\ (c \in Nat => c <= len)
    BY <1>1, CloudAssumption DEF CloudAssumption, Cursor, StartInv, LastInv
  <2>2. QED BY <1>1, <2>1, FromBounds, CloudAssumption
<1>4. TypeOK'
  <2>1. given' \in 0 .. len' /\ taken' \in 0 .. given' /\ floor' \in Nat \cup {-1}
    BY <1>1, <1>2, <1>3 DEF TypeOK
  <2>2. phase' \in Phases /\ armed' \in BOOLEAN /\ hung' \in BOOLEAN
    BY <1>2 DEF Phases
  <2>3. QED BY <1>1, <1>2, <2>1, <2>2 DEF TypeOK
<1>5. cursor # Latest => floor' = floor /\ floor = IF cursor = Earliest THEN 0 ELSE cursor
  BY <1>1, <1>2, CloudAssumption DEF CloudAssumption, StartInv, Cursor
<1>6. StartInv'
  BY <1>1, <1>2, <1>5 DEF StartInv
<1>7. Base' = Base
  BY <1>2, <1>5 DEF Base
<1>8. LastInv' /\ NothingTwice'
  BY <1>2 DEF IInv, LastInv, NothingTwice
<1>9. NothingLost'
  BY <1>1, <1>2, <1>7 DEF NothingLost
<1>10. AtInv'
  BY <1>1, <1>2, <1>3, CloudAssumption DEF CloudAssumption, AtInv, LastInv
<1>11. CoverInv'
  <2>1. CASE out = <<>>
    <3>1. Base = From(c) /\ From(c) \in Nat
      BY <1>1, <1>3, <1>5, <2>1, CloudAssumption DEF CloudAssumption, Base, LastInv, Cursor
    <3>2. QED BY <1>2, <1>7, <3>1 DEF CoverInv
  <2>2. CASE out # <<>>
    <3>1. /\ Len(out) \in DOMAIN out /\ delivered = out[Len(out)]
          /\ taken' = delivered /\ delivered \in Nat
      BY <1>1, <1>2, <1>3, <2>2, CloudAssumption DEF CloudAssumption, LastInv
    <3>2. Base + 1 \in Int
      BY <1>1, <2>2 DEF Base, TypeOK
    <3>3. ASSUME NEW n \in Base + 1 .. delivered PROVE Saw(n)
      <4>1. CASE n = delivered
        BY <3>1, <4>1 DEF Saw
      <4>2. CASE n # delivered
        <5>1. n \in Base + 1 .. delivered - 1
          BY <3>1, <3>2, <4>2
        <5>2. PICK j \in 1 .. Len(out) - 1 : out[j] = n
          BY <1>1, <3>1, <5>1 DEF NothingLost
        <5>3. j \in DOMAIN out
          BY <1>1, <5>2
        <5>4. QED BY <5>2, <5>3 DEF Saw
      <4>3. QED BY <4>1, <4>2
    <3>4. QED BY <1>2, <1>7, <3>1, <3>3 DEF CoverInv, Saw
  <2>3. QED BY <2>1, <2>2
<1>12. QED BY <1>4, <1>6, <1>8, <1>9, <1>10, <1>11 DEF IInv

\* Every step keeps the invariant.
LEMMA NextStep == ASSUME IInv, [Next]_vars PROVE IInv'
<1>1. CASE Arrive  BY <1>1, ArriveStep
<1>2. ASSUME NEW c \in {Earliest, Latest} \cup 1 .. len, NEW drain \in BOOLEAN,
             Subscribe(c, drain)
      PROVE  IInv'
  BY <1>2, SubscribeStep
<1>3. CASE FetchPage \/ Send  BY <1>3, MoreStep
<1>4. CASE DrainEmit \/ Receive  BY <1>4, TakeNextStep DEF DrainEmit, Receive
<1>5. CASE DrainEnds \/ Beat \/ Hang \/ Disconnect \/ Watchdog \/ Permanent
  BY <1>5, PhaseStep
<1>6. CASE FetchFails  BY <1>6, FetchFailsStep
<1>7. CASE Connect  BY <1>7, ConnectStep
<1>8. CASE UNCHANGED vars
  <2>1. TypeOK' /\ StartInv' /\ AtInv'
    BY <1>8 DEF vars, IInv, TypeOK, StartInv, AtInv
  <2>2. LastInv' /\ NothingLost' /\ NothingTwice' /\ Base' = Base
    BY <1>8, HistoryFrame DEF vars, IInv, TypeOK
  <2>3. CoverInv'
    BY <1>8, <2>2 DEF vars, IInv, CoverInv, Saw
  <2>4. QED BY <2>1, <2>2, <2>3 DEF IInv
<1>9. QED BY <1>1, <1>2, <1>3, <1>4, <1>5, <1>6, <1>7, <1>8 DEF Next, Client, Environment
----------------------------------------------------------------------------
\* The inductive invariant: what the client has read up to is what the consumer has seen,
\* over every page and connection.
THEOREM CloudInvariance == Spec => []IInv
<1>1. Init => IInv
  BY InitStep
<1>2. IInv /\ [Next]_vars => IInv'
  BY NextStep
<1>3. QED BY <1>1, <1>2, PTL DEF Spec

\* Type correctness of the state of a subscription in CloudStore.ts.
THEOREM CloudTypeCorrect == Spec => []TypeOK
<1>1. IInv => TypeOK
  BY DEF IInv
<1>2. QED BY <1>1, CloudInvariance, PTL

\* However often pages fail and connections break, the consumer of a subscription misses
\* no event between two it has seen, nor before the first one if its start is fixed.
THEOREM CloudNothingLost == Spec => []NothingLost
<1>1. IInv => NothingLost
  BY DEF IInv
<1>2. QED BY <1>1, CloudInvariance, PTL

\* Without a restart of the drain it sees no event twice, and all in log order.
THEOREM CloudNothingTwice == Spec => []NothingTwice
<1>1. IInv => NothingTwice
  BY DEF IInv
<1>2. QED BY <1>1, CloudInvariance, PTL
=============================================================================
