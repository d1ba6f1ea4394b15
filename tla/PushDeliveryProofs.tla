------------------------- MODULE PushDeliveryProofs -------------------------
(***************************************************************************)
(* For packets of any length, reads of any size, any number of sessions    *)
(* and of push threads: handlers see the pushes in the order in which they *)
(* were sent, a session's thread is given those of its session, all of     *)
(* them where nothing is encrypted and the receive buffer was empty at its *)
(* start, and the thread of an earlier session calls one more handler at   *)
(* most.                                                                   *)
(*                                                                         *)
(* The invariant: bytes come in the order in which they were sent, in the  *)
(* receive buffer and behind it on the way; whatever a push thread has     *)
(* shown, holds or has queued was sent before all of them; so a packet     *)
(* that is cut off the buffer whole goes behind everything in the queue,   *)
(* and leaves nothing of itself behind.                                    *)
(*                                                                         *)
(* The last section puts the two directions of a connection together.      *)
(***************************************************************************)
EXTENDS MCTransport, SendPathProofs

USE PushDeliveryAssumption DEF Nothing

Connection ==
    /\ live => session > 0
    /\ ~live => wire = <<>>
    /\ parsing => live

\* Executors are started one after the other, and all but the last are told to quit.
Ranked(e) ==
    /\ e > current => /\ pc[e] = "none" /\ queue[e] = <<>> /\ given[e] = <<>>
                      /\ shown[e] = <<>> /\ late[e] = 0
    /\ e < current => quit[e]
    /\ pc[e] \notin {"check", "call"} <=> hand[e] = Nothing

\* An executor that was dismissed with nothing in hand shows nothing more.
Lately(e) ==
    /\ ~Dismissed(e) => late[e] = 0
    /\ late[e] <= 1
    /\ pc[e] \in {"check", "call"} => late[e] = 0

Before(b, c) == b.packet < c.packet \/ (b.packet = c.packet /\ b.at < c.at)

Rising(s) == \A i, j \in DOMAIN s : i < j => Before(s[i], s[j])

BytesInOrder ==
    /\ Rising(recvBuf) /\ Rising(wire)
    /\ \A i \in DOMAIN recvBuf, j \in DOMAIN wire : Before(recvBuf[i], wire[j])
    /\ \A i \in DOMAIN recvBuf : recvBuf[i].at <= sent[recvBuf[i].packet].len
    /\ \A i \in DOMAIN wire : wire[i].at <= sent[wire[i].packet].len

Ahead(n) ==
    /\ \A i \in DOMAIN recvBuf : n < recvBuf[i].packet
    /\ \A i \in DOMAIN wire : n < wire[i].packet

Sorted(e) ==
    /\ InOrder(shown[e]) /\ InOrder(queue[e])
    /\ \A i \in DOMAIN shown[e], j \in DOMAIN queue[e] :
          queue[e][j] # Nothing => shown[e][i] < queue[e][j]
    /\ hand[e] # Nothing =>
          /\ \A i \in DOMAIN shown[e] : shown[e][i] < hand[e]
          /\ \A j \in DOMAIN queue[e] : queue[e][j] # Nothing => hand[e] < queue[e][j]
    /\ \A i \in DOMAIN shown[e] : Ahead(shown[e][i])
    /\ \A j \in DOMAIN queue[e] : Ahead(queue[e][j])
    /\ Ahead(hand[e])

\* What is in the buffer and on the way, and what the present thread was given, is
\* of the present session, unless a session began with a dirty buffer.
OfSession ==
    /\ auto /\ ~live => given[current] = <<>>
    /\ ~dirty =>
          /\ \A i \in DOMAIN recvBuf : sent[recvBuf[i].packet].session = session
          /\ \A i \in DOMAIN wire : sent[wire[i].packet].session = session

PushInv ==
    /\ PushTypeOK /\ Connection
    /\ \A e \in Executors : Ranked(e) /\ Lately(e) /\ Sorted(e)
    /\ BytesInOrder /\ OfSession /\ OwnSession

-----------------------------------------------------------------------------
(***************************************************************************)
(* Types.                                                                  *)
(***************************************************************************)
Items == Pushes \union {Nothing}

\* What the connection and the threads make of each packet that is sent.
ConnTypes ==
    /\ status \in {"DOWN", "CONNECTED", "READY", "CLOSING", "CLOSED"}
    /\ encrypted \in BOOLEAN /\ auto \in BOOLEAN /\ live \in BOOLEAN
    /\ session \in 0 .. MaxSessions /\ key \in 0 .. MaxSessions
    /\ fetched \subseteq Sessions /\ procRun \in BOOLEAN
    /\ parsing \in BOOLEAN /\ dirty \in BOOLEAN

ByteTypes ==
    /\ sent \in Seq(PacketType) /\ wire \in Seq(ByteType) /\ recvBuf \in Seq(ByteType)

ThreadTypes ==
    /\ current \in Executors
    /\ queue \in [Executors -> Seq(Items)] /\ quit \in [Executors -> BOOLEAN]
    /\ pc \in [Executors -> {"none", "get", "check", "call", "ended"}]
    /\ hand \in [Executors -> Items]
    /\ given \in [Executors -> Seq(Pushes)] /\ shown \in [Executors -> Seq(Pushes)]
    /\ late \in [Executors -> Nat]

LEMMA Types ==
    /\ PushTypeOK => ConnTypes /\ ByteTypes /\ ThreadTypes
    /\ ConnTypes' /\ ByteTypes' /\ ThreadTypes' => PushTypeOK'
BY DEF PushTypeOK, ConnTypes, ByteTypes, ThreadTypes, Items

LEMMA PushesAreNumbers ==
    ASSUME ByteTypes
    PROVE  /\ Len(sent) \in Nat /\ DOMAIN sent = 1 .. Len(sent)
           /\ Pushes \subseteq 1 .. Len(sent)
           /\ \A n \in DOMAIN sent : sent[n] \in PacketType /\ sent[n].len \in Nat \ {0}
<1>1. Len(sent) \in Nat /\ DOMAIN sent = 1 .. Len(sent)
  BY DEF ByteTypes
<1>2. \A n \in DOMAIN sent : sent[n] \in PacketType
  BY <1>1, ElementOfSeq DEF ByteTypes
<1>3. \A p \in PacketType : p.len \in Nat \ {0}
  BY DEF PacketType
<1> QED
  BY <1>1, <1>2, <1>3 DEF Pushes

LEMMA InitTypes == PushInit => PushTypeOK
<1> SUFFICES ASSUME PushInit PROVE PushTypeOK
  OBVIOUS
<1> USE DEF PushInit
<1>1. \A S : <<>> \in Seq(S)
  OBVIOUS
<1>2. ConnTypes
  <2>1. session \in 0 .. MaxSessions /\ key \in 0 .. MaxSessions /\ fetched \subseteq Sessions
    OBVIOUS
  <2>2. /\ encrypted \in BOOLEAN /\ auto \in BOOLEAN /\ live \in BOOLEAN
        /\ procRun \in BOOLEAN /\ parsing \in BOOLEAN /\ dirty \in BOOLEAN
    OBVIOUS
  <2> QED
    BY <2>1, <2>2 DEF ConnTypes
<1>3. ByteTypes
  BY <1>1 DEF ByteTypes
<1>4. ThreadTypes
  <2>1. current \in Executors
    BY DEF Executors
  <2>2. /\ pc \in [Executors -> {"none", "get", "check", "call", "ended"}]
        /\ quit \in [Executors -> BOOLEAN] /\ late \in [Executors -> Nat]
        /\ hand \in [Executors -> Items]
    BY DEF Items
  <2>3. queue \in [Executors -> Seq(Items)]
    BY <1>1
  <2>4. given \in [Executors -> Seq(Pushes)] /\ shown \in [Executors -> Seq(Pushes)]
    BY <1>1
  <2> QED
    BY <2>1, <2>2, <2>3, <2>4 DEF ThreadTypes
<1> QED
  BY <1>2, <1>3, <1>4 DEF PushTypeOK, ConnTypes, ByteTypes, ThreadTypes, Items

\* What CloseExecutor does: a marker goes into the queue of the present executor,
\* which may be replaced by the next.
LEMMA Closed ==
    ASSUME ThreadTypes, NEW replace \in BOOLEAN, CloseExecutor(replace)
    PROVE  /\ current \in Executors /\ current' \in Executors
           /\ quit' = [quit EXCEPT ![current] = TRUE] /\ quit' \in [Executors -> BOOLEAN]
           /\ queue' = [queue EXCEPT ![current] = Append(queue[current], Nothing)]
           /\ queue' \in [Executors -> Seq(Items)]
           /\ pc' \in [Executors -> {"none", "get", "check", "call", "ended"}]
           /\ \/ current' = current /\ pc' = pc
              \/ current' = current + 1 /\ pc' = [pc EXCEPT ![current + 1] = "get"]
           /\ replace => current' = current + 1
<1>1. /\ current \in Executors /\ current \in Nat
      /\ quit' = [quit EXCEPT ![current] = TRUE]
      /\ queue' = [queue EXCEPT ![current] = Append(queue[current], Nothing)]
  BY DEF ThreadTypes, CloseExecutor, Executors
<1>2. Append(queue[current], Nothing) \in Seq(Items)
  BY <1>1 DEF ThreadTypes, Items
<1>3. queue' \in [Executors -> Seq(Items)] /\ quit' \in [Executors -> BOOLEAN]
  BY <1>1, <1>2 DEF ThreadTypes
<1>4. CASE replace
  <2>1. /\ current < MaxExecutors /\ current' = current + 1
        /\ pc' = [pc EXCEPT ![current + 1] = "get"]
    BY <1>4 DEF CloseExecutor
  <2>2. current + 1 \in Executors
    BY <1>1, <2>1 DEF Executors
  <2> QED
    BY <1>1, <1>3, <2>1, <2>2 DEF ThreadTypes
<1>5. CASE ~replace
  BY <1>1, <1>3, <1>5 DEF CloseExecutor, ThreadTypes
<1> QED
  BY <1>4, <1>5

-----------------------------------------------------------------------------
(***************************************************************************)
(* What steps that leave the threads or the bytes alone keep.              *)
(***************************************************************************)
AheadNext(n) ==
    /\ \A i \in DOMAIN recvBuf' : n < recvBuf'[i].packet
    /\ \A i \in DOMAIN wire' : n < wire'[i].packet

\* Bytes are moved or lost, and none are new.
Moved ==
    /\ \A i \in DOMAIN recvBuf' :
          \/ \E j \in DOMAIN recvBuf : recvBuf'[i] = recvBuf[j]
          \/ \E j \in DOMAIN wire : recvBuf'[i] = wire[j]
    /\ \A i \in DOMAIN wire' : \E j \in DOMAIN wire : wire'[i] = wire[j]

LEMMA SameNumbers ==
    ASSUME sent' = sent PROVE Pushes' = Pushes /\ Items' = Items /\ ByteType' = ByteType
BY DEF Pushes, Items, ByteType

LEMMA ThreadTypesSame ==
    ASSUME ThreadTypes, sent' = sent,
           UNCHANGED <<current, queue, quit, pc, hand, given, shown, late>>
    PROVE  ThreadTypes'
BY SameNumbers DEF ThreadTypes

LEMMA MovedAhead ==
    ASSUME Moved, NEW n, Ahead(n) PROVE AheadNext(n)
BY DEF Moved, Ahead, AheadNext

LEMMA ThreadsSame ==
    ASSUME UNCHANGED <<current, queue, quit, pc, hand, given, shown, late>>,
           NEW e \in Executors, Ranked(e), Lately(e)
    PROVE  Ranked(e)' /\ Lately(e)'
BY DEF Ranked, Lately, Dismissed

LEMMA SortedSame ==
    ASSUME ThreadTypes, UNCHANGED <<shown, hand, queue>>, NEW e \in Executors, Sorted(e),
           \A n \in Items : Ahead(n) => AheadNext(n)
    PROVE  Sorted(e)'
<1>1. /\ shown[e] \in Seq(Pushes) /\ queue[e] \in Seq(Items) /\ hand[e] \in Items
  BY DEF ThreadTypes
<1>2. /\ \A i \in DOMAIN shown[e] : shown[e][i] \in Items
      /\ \A j \in DOMAIN queue[e] : queue[e][j] \in Items
  BY <1>1 DEF Items
<1>3. /\ \A i \in DOMAIN shown[e] : AheadNext(shown[e][i])
      /\ \A j \in DOMAIN queue[e] : AheadNext(queue[e][j])
      /\ AheadNext(hand[e])
  BY <1>1, <1>2 DEF Sorted
<1> QED
  BY <1>3 DEF Sorted, Ahead, AheadNext, InOrder

\* A marker put behind what is queued does not count.
LEMMA SortedMarker ==
    ASSUME ThreadTypes, NEW c \in Executors, NEW e \in Executors, Sorted(e), Moved,
           queue' = [queue EXCEPT ![c] = Append(queue[c], Nothing)],
           UNCHANGED <<shown, hand>>, ByteTypes, ByteTypes'
    PROVE  Sorted(e)'
<1>1. /\ queue[e] \in Seq(Items) /\ shown[e] \in Seq(Pushes)
      /\ queue \in [Executors -> Seq(Items)] /\ Nothing \in Items
  BY DEF ThreadTypes, Items
<1>2. CASE e # c
  <2>1. queue'[e] = queue[e]
    BY <1>1, <1>2
  <2> QED
    BY <2>1, MovedAhead DEF Sorted, Ahead, AheadNext, InOrder
<1>3. CASE e = c
  <2>1. /\ queue'[e] = Append(queue[e], Nothing) /\ Len(queue[e]) \in Nat
        /\ DOMAIN queue[e] = 1 .. Len(queue[e])
    BY <1>1, <1>3
  <2>2. /\ DOMAIN queue'[e] = 1 .. Len(queue[e]) + 1
        /\ queue'[e][Len(queue[e]) + 1] = Nothing
        /\ \A j \in 1 .. Len(queue[e]) : queue'[e][j] = queue[e][j]
    BY <1>1, <2>1
  <2>3. AheadNext(Nothing)
    <3>1. \A b \in ByteType' : Nothing < b.packet
      BY DEF ByteType, ByteTypes
    <3> QED
      BY <3>1 DEF AheadNext, ByteTypes
  <2>4. InOrder(queue'[e])
    BY <2>1, <2>2 DEF Sorted, InOrder
  <2>5. \A j \in DOMAIN queue'[e] : AheadNext(queue'[e][j])
    BY <2>1, <2>2, <2>3, MovedAhead DEF Sorted
  <2>6. \A i \in DOMAIN shown[e], j \in DOMAIN queue'[e] :
           queue'[e][j] # Nothing => shown[e][i] < queue'[e][j]
    BY <2>1, <2>2 DEF Sorted
  <2>7. hand[e] # Nothing =>
           \A j \in DOMAIN queue'[e] : queue'[e][j] # Nothing => hand[e] < queue'[e][j]
    BY <2>1, <2>2 DEF Sorted
  <2>8. /\ \A i \in DOMAIN shown[e] : AheadNext(shown[e][i])
        /\ AheadNext(hand[e])
    BY MovedAhead DEF Sorted
  <2> QED
    BY <2>4, <2>5, <2>6, <2>7, <2>8 DEF Sorted, Ahead, AheadNext, InOrder
<1> QED
  BY <1>2, <1>3

\* An executor is dismissed: the end of a session, and of the context.
LEMMA CloseKeeps ==
    ASSUME ThreadTypes, ByteTypes, ByteTypes', NEW replace \in BOOLEAN, CloseExecutor(replace),
           sent' = sent, Moved, UNCHANGED <<hand, given, shown, late>>,
           \A e \in Executors : Ranked(e) /\ Lately(e) /\ Sorted(e)
    PROVE  /\ ThreadTypes'
           /\ \A e \in Executors : Ranked(e)' /\ Lately(e)' /\ Sorted(e)'
           /\ replace => given'[current'] = <<>>
<1>1. /\ current \in Executors /\ current' \in Executors /\ current \in Nat
      /\ quit' = [quit EXCEPT ![current] = TRUE] /\ quit' \in [Executors -> BOOLEAN]
      /\ queue' = [queue EXCEPT ![current] = Append(queue[current], Nothing)]
      /\ queue' \in [Executors -> Seq(Items)]
      /\ pc' \in [Executors -> {"none", "get", "check", "call", "ended"}]
      /\ \/ current' = current /\ pc' = pc
         \/ current' = current + 1 /\ pc' = [pc EXCEPT ![current + 1] = "get"]
      /\ replace => current' = current + 1
  BY Closed DEF Executors
<1>2. ThreadTypes'
  BY <1>1, SameNumbers DEF ThreadTypes
<1>3. ASSUME NEW e \in Executors PROVE Ranked(e)' /\ Lately(e)'
  <2>1. Ranked(e) /\ Lately(e) /\ e \in Nat
    BY DEF Executors
  <2>2. /\ e # current => queue'[e] = queue[e] /\ quit'[e] = quit[e]
        /\ quit'[current]
    BY <1>1 DEF ThreadTypes
  <2>3. CASE current' = current /\ pc' = pc
    BY <1>1, <2>1, <2>2, <2>3 DEF Ranked, Lately, Dismissed
  <2>4. CASE current' = current + 1 /\ pc' = [pc EXCEPT ![current + 1] = "get"]
    <3>1. CASE e = current + 1
      <4>1. pc'[e] = "get" /\ hand[e] = Nothing /\ late[e] = 0
        BY <1>1, <2>1, <2>4, <3>1 DEF Ranked, ThreadTypes
      <4> QED
        BY <1>1, <2>1, <2>4, <3>1, <4>1 DEF Ranked, Lately
    <3>2. CASE e # current + 1
      <4>1. pc'[e] = pc[e]
        BY <2>4, <3>2 DEF ThreadTypes
      <4>2. Ranked(e)'
        BY <1>1, <2>1, <2>2, <2>4, <3>2, <4>1 DEF Ranked
      <4>3. Lately(e)'
        BY <1>1, <2>1, <2>2, <2>4, <3>2, <4>1 DEF Lately, Dismissed
      <4> QED
        BY <4>2, <4>3
    <3> QED
      BY <3>1, <3>2
  <2> QED
    BY <1>1, <2>3, <2>4
<1>4. ASSUME NEW e \in Executors PROVE Sorted(e)'
  BY <1>1, SortedMarker
<1>5. replace => given'[current'] = <<>>
  BY <1>1 DEF Ranked, Executors
<1> QED
  BY <1>2, <1>3, <1>4, <1>5

-----------------------------------------------------------------------------
(***************************************************************************)
(* The connection.                                                         *)
(***************************************************************************)
LEMMA BytesSame ==
    ASSUME ByteTypes, UNCHANGED <<sent, wire, recvBuf>>
    PROVE  /\ ByteTypes' /\ Moved /\ (BytesInOrder => BytesInOrder')
           /\ \A n : Ahead(n) => AheadNext(n)
<1>1. ByteTypes' /\ Moved
  BY DEF ByteTypes, ByteType, Moved
<1>2. BytesInOrder => BytesInOrder'
  BY DEF BytesInOrder, Rising, Before
<1> QED
  BY <1>1, <1>2, MovedAhead

\* Steps of the connection that touch neither bytes nor threads.
LEMMA CalmInvariant ==
    ASSUME PushInv, ConnTypes', Connection', OfSession', OwnSession',
           UNCHANGED <<sent, wire, recvBuf>>,
           UNCHANGED <<current, queue, quit, pc, hand, given, shown, late>>
    PROVE  PushInv'
<1>1. ConnTypes /\ ByteTypes /\ ThreadTypes
  BY Types DEF PushInv
<1>2. ByteTypes' /\ ThreadTypes' /\ BytesInOrder'
  BY <1>1, BytesSame, ThreadTypesSame DEF PushInv
<1>3. ASSUME NEW e \in Executors PROVE Ranked(e)' /\ Lately(e)' /\ Sorted(e)'
  <2>1. Ranked(e)' /\ Lately(e)'
    BY ThreadsSame DEF PushInv
  <2>2. Sorted(e)'
    BY <1>1, BytesSame, SortedSame DEF PushInv
  <2> QED
    BY <2>1, <2>2
<1> QED
  BY <1>2, <1>3, Types DEF PushInv

LEMMA ConnectInvariant == PushInv /\ Connect => PushInv'
<1> SUFFICES ASSUME PushInv, Connect PROVE PushInv'
  OBVIOUS
<1>1. /\ ~parsing /\ auto /\ ~live /\ session < MaxSessions
      /\ status' = "CONNECTED" /\ live' = TRUE /\ session' = session + 1
      /\ dirty' = (dirty \/ recvBuf # <<>>)
      /\ UNCHANGED <<encrypted, auto, key, fetched, procRun, parsing>>
      /\ UNCHANGED <<sent, wire, recvBuf>>
      /\ UNCHANGED <<current, queue, quit, pc, hand, given, shown, late>>
  BY DEF Connect, evars
<1>2. ConnTypes /\ ByteTypes /\ ThreadTypes /\ wire = <<>> /\ given[current] = <<>>
  BY <1>1, Types DEF PushInv, Connection, OfSession
<1>3. ConnTypes'
  <2>1. session' \in 0 .. MaxSessions
    BY <1>1, <1>2 DEF ConnTypes
  <2>2. dirty' \in BOOLEAN
    BY <1>1, <1>2 DEF ConnTypes
  <2> QED
    BY <1>1, <1>2, <2>1, <2>2 DEF ConnTypes
<1>4. Connection'
  <2>1. session' > 0
    BY <1>1, <1>2 DEF ConnTypes
  <2> QED
    BY <1>1, <2>1 DEF Connection
<1>5. OfSession'
  <2>1. ~dirty' => recvBuf' = <<>> /\ wire' = <<>>
    BY <1>1, <1>2
  <2> QED
    BY <1>1, <2>1 DEF OfSession
<1>6. OwnSession'
  BY <1>1, <1>2 DEF OwnSession
<1> QED
  BY <1>1, <1>3, <1>4, <1>5, <1>6, CalmInvariant

LEMMA CloseInvariant ==
    ASSUME PushInv, ConnectFail \/ Disconnect \/ (Close /\ status \notin {"CONNECTED", "READY"})
    PROVE  PushInv'
<1>1. ConnTypes /\ ByteTypes /\ ThreadTypes
  BY Types DEF PushInv
<1>2. PICK replace \in BOOLEAN :
         /\ CloseExecutor(replace)
         /\ auto' /\ ~live' => replace
         /\ ~replace => current' = current
         /\ live' = live \/ live' = FALSE
         /\ live' # live => wire' = <<>>
         /\ live' = live => wire' = wire
         /\ wire' \in {wire, <<>>} /\ ~parsing
         /\ status' \in {"DOWN", "CLOSED"} /\ key' = 0 /\ (auto' = auto \/ auto' = FALSE)
         /\ UNCHANGED <<encrypted, session, fetched, procRun, sent, recvBuf, parsing, dirty,
                        hand, given, shown, late>>
  <2>1. CASE ConnectFail
    BY <2>1 DEF ConnectFail, bvars
  <2>2. CASE Disconnect
    BY <1>1, <2>2 DEF Disconnect, ConnTypes, CloseExecutor
  <2>3. CASE Close /\ status \notin {"CONNECTED", "READY"}
    BY <2>3 DEF Close, bvars, CloseExecutor
  <2> QED
    BY <2>1, <2>2, <2>3
<1>3. ConnTypes' /\ Connection'
  <2>1. key' \in 0 .. MaxSessions
    BY <1>2
  <2>2. ConnTypes'
    BY <1>1, <1>2, <2>1 DEF ConnTypes, Sessions
  <2>3. Connection'
    <3>1. parsing' = parsing /\ ~parsing /\ session' = session
      BY <1>2
    <3>2. (live' => live) /\ (~live' => ~live \/ wire' = <<>>)
      BY <1>1, <1>2 DEF ConnTypes
    <3>3. wire = <<>> => wire' = <<>>
      BY <1>2
    <3> QED
      BY <3>1, <3>2, <3>3 DEF Connection, PushInv
  <2> QED
    BY <2>2, <2>3
<1>4. ByteTypes' /\ Moved
  <2>1. wire' \in Seq(ByteType)
    <3>1. wire \in Seq(ByteType) /\ <<>> \in Seq(ByteType)
      BY <1>1 DEF ByteTypes
    <3>2. wire' = wire \/ wire' = <<>>
      BY <1>2
    <3> QED
      BY <3>1, <3>2
  <2>2. ByteTypes'
    BY <1>1, <1>2, <2>1, SameNumbers DEF ByteTypes
  <2>3. \A i \in DOMAIN wire' : \E j \in DOMAIN wire : wire'[i] = wire[j]
    <3>1. CASE wire' = wire
      BY <3>1
    <3>2. CASE wire' = <<>>
      BY <3>2
    <3> QED
      BY <1>2, <3>1, <3>2
  <2> QED
    BY <1>2, <2>2, <2>3 DEF Moved
<1>5. BytesInOrder'
  BY <1>2 DEF PushInv, BytesInOrder, Rising, Before
<1>6. /\ ThreadTypes'
      /\ \A e \in Executors : Ranked(e)' /\ Lately(e)' /\ Sorted(e)'
      /\ replace => given'[current'] = <<>>
  BY <1>1, <1>2, <1>4, CloseKeeps DEF PushInv
<1>7. OfSession'
  BY <1>2, <1>6 DEF PushInv, OfSession
<1>8. OwnSession'
  BY <1>2, <1>6 DEF PushInv, OwnSession
<1> QED
  BY <1>3, <1>4, <1>5, <1>6, <1>7, <1>8, Types DEF PushInv

LEMMA CalmStepInvariant ==
    ASSUME PushInv,
           \/ \E s \in Sessions : HandleInitConnectRsp(s)
           \/ \E on \in BOOLEAN : SetProcRun(on)
           \/ Close /\ status \in {"CONNECTED", "READY"}
           \/ AwaitBytes
           \/ UNCHANGED pushVars
    PROVE  PushInv'
<1>1. ConnTypes
  BY Types DEF PushInv
<1>2. /\ UNCHANGED <<sent, wire, recvBuf>>
      /\ UNCHANGED <<current, queue, quit, pc, hand, given, shown, late>>
      /\ UNCHANGED <<live, session, dirty>> /\ (auto' = auto \/ auto' = FALSE)
      /\ parsing' = parsing \/ parsing' = FALSE
  <2>1. CASE \E s \in Sessions : HandleInitConnectRsp(s)
    BY <2>1 DEF HandleInitConnectRsp, bvars, evars
  <2>2. CASE \E on \in BOOLEAN : SetProcRun(on)
    BY <2>2 DEF SetProcRun, bvars, evars
  <2>3. CASE Close /\ status \in {"CONNECTED", "READY"}
    BY <2>3 DEF Close, bvars
  <2>4. CASE AwaitBytes
    BY <2>4 DEF AwaitBytes, cvars, evars
  <2>5. CASE UNCHANGED pushVars
    BY <2>5 DEF pushVars, cvars, bvars, evars
  <2> QED
    BY <2>1, <2>2, <2>3, <2>4, <2>5
<1>3. ConnTypes'
  <2>1. CASE \E s \in Sessions : HandleInitConnectRsp(s)
    <3>1. PICK s \in Sessions : HandleInitConnectRsp(s)
      BY <2>1
    <3>2. /\ fetched' = fetched \ {s} /\ key' = s /\ status' = "READY"
          /\ UNCHANGED <<encrypted, auto, live, session, procRun, parsing, dirty>>
      BY <3>1 DEF HandleInitConnectRsp, bvars
    <3>3. key' \in 0 .. MaxSessions /\ fetched' \subseteq Sessions
      BY <1>1, <3>2 DEF ConnTypes, Sessions
    <3> QED
      BY <1>1, <3>2, <3>3 DEF ConnTypes
  <2>2. CASE \E on \in BOOLEAN : SetProcRun(on)
    <3>1. /\ procRun' \in BOOLEAN
          /\ UNCHANGED <<encrypted, status, auto, live, session, key, fetched, parsing, dirty>>
      BY <2>2 DEF SetProcRun, bvars
    <3> QED
      BY <1>1, <3>1 DEF ConnTypes
  <2>3. CASE Close /\ status \in {"CONNECTED", "READY"}
    <3>1. /\ status' = "CLOSING" /\ auto' = FALSE /\ key' = 0
          /\ UNCHANGED <<encrypted, live, session, fetched, procRun, parsing, dirty>>
      BY <2>3 DEF Close, bvars
    <3>2. key' \in 0 .. MaxSessions
      BY <3>1
    <3> QED
      BY <1>1, <3>1, <3>2 DEF ConnTypes
  <2>4. CASE AwaitBytes
    BY <1>1, <2>4 DEF AwaitBytes, cvars, evars, ConnTypes
  <2>5. CASE UNCHANGED pushVars
    BY <1>1, <2>5 DEF pushVars, cvars, bvars, evars, ConnTypes
  <2> QED
    BY <2>1, <2>2, <2>3, <2>4, <2>5
<1>4. Connection'
  BY <1>1, <1>2 DEF PushInv, ConnTypes, Connection
<1>5. OfSession'
  BY <1>1, <1>2 DEF PushInv, ConnTypes, OfSession
<1>6. OwnSession'
  BY <1>2 DEF PushInv, OwnSession
<1> QED
  BY <1>2, <1>3, <1>4, <1>5, <1>6, CalmInvariant

-----------------------------------------------------------------------------
(***************************************************************************)
(* Bytes.                                                                  *)
(***************************************************************************)
LEMMA GatewaySendInvariant == PushInv /\ GatewaySend => PushInv'
<1> SUFFICES ASSUME PushInv, GatewaySend PROVE PushInv'
  OBVIOUS
<1>1. ConnTypes /\ ByteTypes /\ ThreadTypes /\ BytesInOrder
  BY Types DEF PushInv
<1>2. PICK body \in BodyLens :
         /\ sent' = Append(sent, [session |-> session, push |-> OnSession(session) # {},
                                  len |-> HeadLen + body])
         /\ wire' = wire \o Bytes(Len(sent) + 1, HeadLen + body)
  BY DEF GatewaySend
<1>3. /\ live /\ recvBuf' = recvBuf
      /\ UNCHANGED <<encrypted, status, auto, live, session, key, fetched, procRun, parsing,
                     dirty>>
      /\ UNCHANGED <<current, queue, quit, pc, hand, given, shown, late>>
  BY DEF GatewaySend, cvars, evars
<1>4. PICK len \in Nat \ {0}, packet \in PacketType, n0 \in Nat \ {0} :
         /\ len = HeadLen + body /\ n0 = Len(sent) + 1
         /\ packet = [session |-> session, push |-> OnSession(session) # {},
                      len |-> HeadLen + body]
  <2>1. HeadLen + body \in Nat \ {0}
    OBVIOUS
  <2>2. session \in Sessions
    BY <1>1, <1>3 DEF PushInv, Connection, ConnTypes, Sessions
  <2>3. [session |-> session, push |-> OnSession(session) # {}, len |-> HeadLen + body]
            \in PacketType
    BY <2>2 DEF PacketType
  <2> QED
    BY <1>1, <2>1, <2>3, PushesAreNumbers
<1>5. /\ sent' = Append(sent, packet) /\ packet.len = len /\ packet.session = session
      /\ wire' = wire \o Bytes(n0, len)
  BY <1>2, <1>4
<1>6. /\ sent' \in Seq(PacketType) /\ DOMAIN sent' = 1 .. n0 /\ DOMAIN sent = 1 .. n0 - 1
      /\ sent'[n0] = packet /\ \A i \in 1 .. n0 - 1 : sent'[i] = sent[i]
  BY <1>1, <1>4, <1>5, PushesAreNumbers DEF ByteTypes
<1>7. Pushes \subseteq Pushes' /\ ByteType \subseteq ByteType' /\ Items \subseteq Items'
  BY <1>4, <1>6 DEF Pushes, ByteType, Items
<1>8. /\ wire \in Seq(ByteType) /\ recvBuf \in Seq(ByteType)
      /\ wire \in Seq(ByteType') /\ recvBuf \in Seq(ByteType')
  BY <1>1, <1>7, SeqMonotonic DEF ByteTypes
<1> DEFINE new == Bytes(n0, len)
<1>9. new \in Seq(ByteType') /\ Len(new) = len
      /\ \A i \in 1 .. len : new[i].packet = n0 /\ new[i].at = i
  <2>1. \A i \in 1 .. len : [packet |-> n0, at |-> i] \in ByteType'
    BY <1>4, <1>6 DEF ByteType
  <2> QED
    BY <1>4, <2>1 DEF Bytes
<1> HIDE DEF new
<1>10. PICK lw \in Nat : lw = Len(wire)
  BY <1>8
<1>11. /\ wire' \in Seq(ByteType') /\ DOMAIN wire' = 1 .. lw + len
       /\ DOMAIN wire = 1 .. lw
       /\ \A i \in 1 .. lw : wire'[i] = wire[i]
       /\ \A i \in lw + 1 .. lw + len : wire'[i].packet = n0 /\ wire'[i].at = i - lw
  <2>1. wire' = wire \o new
    BY <1>5 DEF new
  <2>2. /\ wire' \in Seq(ByteType') /\ Len(wire') = lw + len
        /\ \A i \in 1 .. lw + len : wire'[i] = IF i <= lw THEN wire[i] ELSE new[i - lw]
    <3>1. /\ wire \o new \in Seq(ByteType') /\ Len(wire \o new) = Len(wire) + Len(new)
          /\ \A i \in 1 .. Len(wire) + Len(new) :
                (wire \o new)[i] = IF i <= Len(wire) THEN wire[i] ELSE new[i - Len(wire)]
      BY <1>8, <1>9, ConcatProperties
    <3> QED
      BY <1>9, <1>10, <2>1, <3>1
  <2>3. \A i \in lw + 1 .. lw + len : i - lw \in 1 .. len /\ ~(i <= lw)
    BY <1>4, <1>10
  <2> QED
    BY <1>8, <1>9, <1>10, <2>2, <2>3
<1>12. /\ \A i \in DOMAIN recvBuf : recvBuf[i].packet \in 1 .. n0 - 1 /\ recvBuf[i].at \in Nat
       /\ \A i \in DOMAIN wire : wire[i].packet \in 1 .. n0 - 1 /\ wire[i].at \in Nat
  <2>1. \A b \in ByteType : b.packet \in 1 .. n0 - 1 /\ b.at \in Nat
    BY <1>6 DEF ByteType
  <2> QED
    BY <1>8, <2>1
<1>13. ConnTypes' /\ ByteTypes' /\ ThreadTypes'
  <2>1. ByteTypes'
    BY <1>3, <1>6, <1>8, <1>11 DEF ByteTypes
  <2>2. ConnTypes'
    BY <1>1, <1>3 DEF ConnTypes
  <2>3. \A e \in Executors : /\ queue[e] \in Seq(Items') /\ hand[e] \in Items'
                             /\ given[e] \in Seq(Pushes') /\ shown[e] \in Seq(Pushes')
    BY <1>1, <1>7, SeqMonotonic DEF ThreadTypes
  <2>4. ThreadTypes'
    BY <1>1, <1>3, <2>3 DEF ThreadTypes
  <2> QED
    BY <2>1, <2>2, <2>4
<1>14. Connection'
  BY <1>3 DEF Connection, PushInv
<1>15. BytesInOrder'
  <2>1. Rising(wire')
    <3> SUFFICES ASSUME NEW i \in 1 .. lw + len, NEW j \in 1 .. lw + len, i < j
                 PROVE  Before(wire'[i], wire'[j])
      BY <1>11 DEF Rising
    <3>1. CASE j <= lw
      <4>1. i \in 1 .. lw /\ j \in 1 .. lw
        BY <1>10, <3>1
      <4>2. wire'[i] = wire[i] /\ wire'[j] = wire[j] /\ Rising(wire)
        BY <1>1, <1>11, <4>1 DEF BytesInOrder
      <4> QED
        BY <1>11, <4>1, <4>2 DEF Rising
    <3>2. CASE i <= lw /\ j > lw
      <4>1. wire'[i].packet < n0 /\ wire'[j].packet = n0
        BY <1>4, <1>11, <1>12, <3>2
      <4> QED
        BY <4>1 DEF Before
    <3>3. CASE i > lw
      BY <1>11, <3>3 DEF Before
    <3> QED
      BY <3>1, <3>2, <3>3
  <2>2. ASSUME NEW i \in DOMAIN recvBuf, NEW j \in 1 .. lw + len
        PROVE  Before(recvBuf[i], wire'[j])
    <3>1. CASE j <= lw
      BY <1>1, <1>11, <3>1 DEF BytesInOrder
    <3>2. CASE j > lw
      <4>1. recvBuf[i].packet < n0 /\ wire'[j].packet = n0
        BY <1>4, <1>11, <1>12, <3>2
      <4> QED
        BY <4>1 DEF Before
    <3> QED
      BY <3>1, <3>2
  <2>3. \A i \in DOMAIN recvBuf : recvBuf[i].at <= sent'[recvBuf[i].packet].len
    BY <1>1, <1>6, <1>12 DEF BytesInOrder
  <2>4. ASSUME NEW i \in 1 .. lw + len PROVE wire'[i].at <= sent'[wire'[i].packet].len
    <3>1. CASE i <= lw
      BY <1>1, <1>6, <1>11, <1>12, <3>1 DEF BytesInOrder
    <3>2. CASE i > lw
      BY <1>4, <1>5, <1>6, <1>11, <3>2
    <3> QED
      BY <3>1, <3>2
  <2>5. Rising(recvBuf')
    BY <1>1, <1>3 DEF BytesInOrder
  <2> QED
    BY <1>3, <1>11, <2>1, <2>2, <2>3, <2>4, <2>5 DEF BytesInOrder, Rising, Before
<1>16. ASSUME NEW e \in Executors PROVE Ranked(e)' /\ Lately(e)' /\ Sorted(e)'
  <2>1. Ranked(e)' /\ Lately(e)'
    BY <1>3, ThreadsSame DEF PushInv
  <2>2. ASSUME NEW n \in Items, Ahead(n) PROVE AheadNext(n)
    <3>1. n \in Nat /\ n < n0
      BY <1>1, <1>4, PushesAreNumbers DEF Items
    <3>2. ASSUME NEW i \in 1 .. lw + len PROVE n < wire'[i].packet
      <4>1. CASE i <= lw
        BY <1>11, <2>2, <4>1 DEF Ahead
      <4>2. CASE i > lw
        BY <1>11, <3>1, <4>2
      <4> QED
        BY <4>1, <4>2
    <3> QED
      BY <1>3, <1>11, <2>2, <3>2 DEF Ahead, AheadNext
  <2>3. Sorted(e)'
    BY <1>1, <1>3, <2>2, SortedSame DEF PushInv
  <2> QED
    BY <2>1, <2>3
<1>17. OfSession'
  <2>1. auto' /\ ~live' => given'[current'] = <<>>
    BY <1>3
  <2>2. ASSUME ~dirty
        PROVE  /\ \A i \in DOMAIN recvBuf : sent'[recvBuf[i].packet].session = session
               /\ \A i \in 1 .. lw + len : sent'[wire'[i].packet].session = session
    <3>1. \A i \in DOMAIN recvBuf : sent'[recvBuf[i].packet].session = session
      BY <1>6, <1>12, <2>2 DEF PushInv, OfSession
    <3>2. ASSUME NEW i \in 1 .. lw + len PROVE sent'[wire'[i].packet].session = session
      <4>1. CASE i <= lw
        <5>1. i \in DOMAIN wire /\ wire'[i] = wire[i]
          BY <1>11, <4>1
        <5>2. wire[i].packet \in 1 .. n0 - 1 /\ sent[wire[i].packet].session = session
          BY <1>12, <2>2, <5>1 DEF PushInv, OfSession
        <5>3. sent'[wire[i].packet] = sent[wire[i].packet]
          BY <1>6, <5>2
        <5> QED
          BY <5>1, <5>2, <5>3
      <4>2. CASE i > lw
        BY <1>5, <1>6, <1>11, <4>2
      <4> QED
        BY <4>1, <4>2
    <3> QED
      BY <3>1, <3>2
  <2> QED
    BY <1>3, <1>11, <2>1, <2>2 DEF OfSession
<1>18. OwnSession'
  <2>1. \A i \in DOMAIN given[current] : given[current][i] \in 1 .. n0 - 1
    <3>1. given[current] \in Seq(1 .. n0 - 1)
      BY <1>1, <1>6, PushesAreNumbers, SeqMonotonic DEF ThreadTypes
    <3> QED
      BY <3>1
  <2> QED
    BY <1>3, <1>6, <2>1 DEF PushInv, OwnSession
<1> QED
  BY <1>13, <1>14, <1>15, <1>16, <1>17, <1>18, Types DEF PushInv

\* A read: the first n bytes on the way go into the receive buffer, or are dropped.
Taken(n) ==
    /\ n \in 1 .. Len(wire) /\ sent' = sent
    /\ wire' = SubSeq(wire, n + 1, Len(wire))
    /\ recvBuf' = recvBuf \o SubSeq(wire, 1, n) \/ recvBuf' = recvBuf

LEMMA BytesTaken ==
    ASSUME ByteTypes, BytesInOrder, NEW n \in Nat, Taken(n)
    PROVE  ByteTypes' /\ BytesInOrder' /\ Moved
<1>1. PICK lw \in Nat, lr \in Nat : lw = Len(wire) /\ lr = Len(recvBuf)
  BY DEF ByteTypes
<1>0. /\ wire \in Seq(ByteType) /\ recvBuf \in Seq(ByteType) /\ ByteType' = ByteType
  BY SameNumbers DEF ByteTypes, Taken
<1>2. n \in 1 .. lw /\ DOMAIN wire = 1 .. lw /\ DOMAIN recvBuf = 1 .. lr
  BY <1>0, <1>1 DEF Taken
<1> DEFINE new == SubSeq(wire, 1, n)
<1>3. /\ new \in Seq(ByteType) /\ Len(new) = n /\ \A i \in 1 .. n : new[i] = wire[i]
      /\ wire' \in Seq(ByteType) /\ DOMAIN wire' = 1 .. lw - n
      /\ \A i \in 1 .. lw - n : wire'[i] = wire[n + i]
  <2>1. n \in 0 .. Len(wire)
    BY <1>1, <1>2
  <2>2. /\ new \in Seq(ByteType) /\ Len(new) = n /\ \A i \in 1 .. n : new[i] = wire[i]
        /\ wire' \in Seq(ByteType) /\ Len(wire') = Len(wire) - n
        /\ \A i \in 1 .. Len(wire) - n : wire'[i] = wire[n + i]
    BY <1>0, <2>1, Cut DEF Taken
  <2> QED
    BY <1>1, <2>2
<1> HIDE DEF new
<1>4. \A i \in 1 .. lw - n : n + i \in 1 .. lw
  BY <1>2
<1>5. Rising(wire')
  <2> SUFFICES ASSUME NEW i \in 1 .. lw - n, NEW j \in 1 .. lw - n, i < j
               PROVE  Before(wire'[i], wire'[j])
    BY <1>3 DEF Rising
  <2>1. /\ n + i \in 1 .. lw /\ n + j \in 1 .. lw /\ n + i < n + j
        /\ wire'[i] = wire[n + i] /\ wire'[j] = wire[n + j]
    BY <1>3, <1>4
  <2> QED
    BY <1>2, <2>1 DEF BytesInOrder, Rising
<1>6. CASE recvBuf' = recvBuf \o SubSeq(wire, 1, n)
  <2>1. /\ recvBuf' \in Seq(ByteType) /\ DOMAIN recvBuf' = 1 .. lr + n
        /\ \A i \in 1 .. lr : recvBuf'[i] = recvBuf[i]
        /\ \A i \in lr + 1 .. lr + n : i - lr \in 1 .. n /\ recvBuf'[i] = wire[i - lr]
    <3>1. recvBuf' = recvBuf \o new
      BY <1>6 DEF new
    <3>2. /\ recvBuf \o new \in Seq(ByteType)
          /\ Len(recvBuf \o new) = Len(recvBuf) + Len(new)
          /\ \A i \in 1 .. Len(recvBuf) + Len(new) :
                (recvBuf \o new)[i] = IF i <= Len(recvBuf) THEN recvBuf[i]
                                      ELSE new[i - Len(recvBuf)]
      BY <1>0, <1>3, ConcatProperties
    <3>3. /\ recvBuf' \in Seq(ByteType) /\ Len(recvBuf') = lr + n
          /\ \A i \in 1 .. lr + n : recvBuf'[i] = IF i <= lr THEN recvBuf[i] ELSE new[i - lr]
      BY <1>1, <1>3, <3>1, <3>2
    <3>4. \A i \in lr + 1 .. lr + n : i - lr \in 1 .. n /\ ~(i <= lr)
      BY <1>1, <1>2
    <3> QED
      BY <1>1, <1>2, <1>3, <3>3, <3>4
  <2>2. Rising(recvBuf')
    <3> SUFFICES ASSUME NEW i \in 1 .. lr + n, NEW j \in 1 .. lr + n, i < j
                 PROVE  Before(recvBuf'[i], recvBuf'[j])
      BY <2>1 DEF Rising
    <3>1. CASE j <= lr
      BY <1>2, <2>1, <3>1 DEF BytesInOrder, Rising
    <3>2. CASE i <= lr /\ j > lr
      BY <1>2, <2>1, <3>2 DEF BytesInOrder
    <3>3. CASE i > lr
      <4>1. i - lr \in 1 .. lw /\ j - lr \in 1 .. lw /\ i - lr < j - lr
        BY <1>2, <2>1, <3>3
      <4>2. recvBuf'[i] = wire[i - lr] /\ recvBuf'[j] = wire[j - lr]
        BY <2>1, <3>3
      <4> QED
        BY <1>2, <4>1, <4>2 DEF BytesInOrder, Rising
    <3> QED
      BY <3>1, <3>2, <3>3
  <2>3. ASSUME NEW i \in 1 .. lr + n, NEW j \in 1 .. lw - n
        PROVE  Before(recvBuf'[i], wire'[j])
    <3>1. n + j \in 1 .. lw /\ wire'[j] = wire[n + j]
      BY <1>3, <1>4
    <3>2. CASE i <= lr
      BY <1>2, <2>1, <3>1, <3>2 DEF BytesInOrder
    <3>3. CASE i > lr
      <4>1. i - lr \in 1 .. lw /\ i - lr < n + j /\ recvBuf'[i] = wire[i - lr]
        BY <1>2, <2>1, <3>3
      <4> QED
        BY <1>2, <3>1, <4>1 DEF BytesInOrder, Rising
    <3> QED
      BY <3>2, <3>3
  <2>4. Moved
    <3>1. ASSUME NEW i \in 1 .. lr + n
          PROVE  \/ \E j \in DOMAIN recvBuf : recvBuf'[i] = recvBuf[j]
                 \/ \E j \in DOMAIN wire : recvBuf'[i] = wire[j]
      <4>1. CASE i <= lr
        <5>1. i \in DOMAIN recvBuf /\ recvBuf'[i] = recvBuf[i]
          BY <1>2, <2>1, <4>1
        <5> QED
          BY <5>1
      <4>2. CASE i > lr
        <5>1. i - lr \in 1 .. lw /\ recvBuf'[i] = wire[i - lr]
          BY <1>2, <2>1, <4>2
        <5> QED
          BY <1>2, <5>1
      <4> QED
        BY <4>1, <4>2
    <3> QED
      BY <1>2, <1>3, <1>4, <2>1, <3>1 DEF Moved
  <2>5. /\ \A i \in DOMAIN recvBuf' : recvBuf'[i].at <= sent'[recvBuf'[i].packet].len
        /\ \A i \in DOMAIN wire' : wire'[i].at <= sent'[wire'[i].packet].len
    BY <2>4 DEF BytesInOrder, Moved, Taken
  <2>6. ByteTypes'
    BY <1>0, <1>3, <2>1 DEF ByteTypes, Taken
  <2>7. BytesInOrder'
    BY <1>3, <1>5, <2>1, <2>2, <2>3, <2>5 DEF BytesInOrder, Rising, Before
  <2> QED
    BY <2>4, <2>6, <2>7
<1>7. CASE recvBuf' = recvBuf
  <2>1. \A i \in 1 .. lr, j \in 1 .. lw - n : Before(recvBuf[i], wire'[j])
    BY <1>2, <1>3, <1>4 DEF BytesInOrder
  <2>2. Moved
    BY <1>2, <1>3, <1>4, <1>7 DEF Moved
  <2>3. /\ \A i \in DOMAIN recvBuf' : recvBuf'[i].at <= sent'[recvBuf'[i].packet].len
        /\ \A i \in DOMAIN wire' : wire'[i].at <= sent'[wire'[i].packet].len
    BY <2>2 DEF BytesInOrder, Moved, Taken
  <2>4. ByteTypes'
    BY <1>0, <1>3, <1>7 DEF ByteTypes, Taken
  <2>5. BytesInOrder'
    BY <1>2, <1>3, <1>5, <1>7, <2>1, <2>3 DEF BytesInOrder, Rising, Before
  <2> QED
    BY <2>2, <2>4, <2>5
<1> QED
  BY <1>6, <1>7 DEF Taken

LEMMA OnRecvInvariant ==
    ASSUME PushInv, \E n \in 1 .. Len(wire) : OnRecv(n) PROVE PushInv'
<1>1. PICK n \in 1 .. Len(wire) : OnRecv(n)
  OBVIOUS
<1>2. ConnTypes /\ ByteTypes /\ ThreadTypes /\ BytesInOrder
  BY Types DEF PushInv
<1>3. /\ live /\ wire' = SubSeq(wire, n + 1, Len(wire)) /\ sent' = sent
      /\ recvBuf' = recvBuf \o SubSeq(wire, 1, n) \/ recvBuf' = recvBuf
      /\ parsing' = TRUE \/ parsing' = parsing
      /\ UNCHANGED <<encrypted, status, auto, live, session, key, fetched, procRun, dirty>>
      /\ UNCHANGED <<current, queue, quit, pc, hand, given, shown, late>>
  BY <1>1 DEF OnRecv, cvars, evars
<1>4. ByteTypes' /\ BytesInOrder' /\ Moved
  <2>1. Taken(n) /\ n \in Nat
    BY <1>2, <1>3 DEF Taken, ByteTypes
  <2> QED
    BY <1>2, <2>1, BytesTaken
<1>5. ConnTypes' /\ ThreadTypes'
  <2>1. parsing' \in BOOLEAN
    BY <1>2, <1>3 DEF ConnTypes
  <2> QED
    BY <1>2, <1>3, <2>1, ThreadTypesSame DEF ConnTypes
<1>6. Connection'
  BY <1>3 DEF Connection, PushInv
<1>7. ASSUME NEW e \in Executors PROVE Ranked(e)' /\ Lately(e)' /\ Sorted(e)'
  <2>1. Ranked(e)' /\ Lately(e)'
    BY <1>3, ThreadsSame DEF PushInv
  <2>2. Sorted(e)'
    BY <1>2, <1>3, <1>4, MovedAhead, SortedSame DEF PushInv
  <2> QED
    BY <2>1, <2>2
<1>8. OfSession'
  BY <1>3, <1>4 DEF PushInv, OfSession, Moved
<1>9. OwnSession'
  BY <1>3 DEF PushInv, OwnSession
<1> QED
  BY <1>4, <1>5, <1>6, <1>7, <1>8, <1>9, Types DEF PushInv

\* The bytes of the buffer from the k-th on are left.
Dropped(k) ==
    /\ k \in 1 .. Len(recvBuf) /\ UNCHANGED <<sent, wire>>
    /\ recvBuf' = SubSeq(recvBuf, k + 1, Len(recvBuf))

LEMMA BytesDropped ==
    ASSUME ByteTypes, BytesInOrder, NEW k \in Nat, Dropped(k)
    PROVE  /\ ByteTypes' /\ BytesInOrder' /\ Moved
           /\ \A i \in DOMAIN recvBuf' :
                 k + i \in DOMAIN recvBuf /\ recvBuf'[i] = recvBuf[k + i] /\ i \in Nat \ {0}
<1>1. PICK lr \in Nat : lr = Len(recvBuf)
  BY DEF ByteTypes
<1>2. /\ recvBuf \in Seq(ByteType) /\ ByteType' = ByteType
      /\ wire' = wire /\ wire \in Seq(ByteType) /\ sent' = sent
  BY SameNumbers DEF ByteTypes, Dropped
<1>3. k \in 1 .. lr /\ DOMAIN recvBuf = 1 .. lr
  BY <1>1, <1>2 DEF Dropped
<1>4. /\ recvBuf' \in Seq(ByteType) /\ DOMAIN recvBuf' = 1 .. lr - k
      /\ \A i \in 1 .. lr - k : recvBuf'[i] = recvBuf[k + i]
  <2>1. k \in 0 .. Len(recvBuf)
    BY <1>1, <1>3
  <2>2. /\ recvBuf' \in Seq(ByteType) /\ Len(recvBuf') = Len(recvBuf) - k
        /\ \A i \in 1 .. Len(recvBuf) - k : recvBuf'[i] = recvBuf[k + i]
    BY <1>2, <2>1, Cut DEF Dropped
  <2> QED
    BY <1>1, <2>2
<1>5. \A i \in 1 .. lr - k : k + i \in 1 .. lr
  BY <1>3
<1>6. Moved
  BY <1>2, <1>3, <1>4, <1>5 DEF Moved
<1>7. Rising(recvBuf')
  <2> SUFFICES ASSUME NEW i \in 1 .. lr - k, NEW j \in 1 .. lr - k, i < j
               PROVE  Before(recvBuf'[i], recvBuf'[j])
    BY <1>4 DEF Rising
  <2>1. /\ k + i \in 1 .. lr /\ k + j \in 1 .. lr /\ k + i < k + j
        /\ recvBuf'[i] = recvBuf[k + i] /\ recvBuf'[j] = recvBuf[k + j]
    BY <1>4, <1>5
  <2> QED
    BY <1>3, <2>1 DEF BytesInOrder, Rising
<1>8. \A i \in 1 .. lr - k, j \in DOMAIN wire : Before(recvBuf'[i], wire[j])
  BY <1>3, <1>4, <1>5 DEF BytesInOrder
<1>9. /\ \A i \in DOMAIN recvBuf' : recvBuf'[i].at <= sent[recvBuf'[i].packet].len
      /\ \A i \in DOMAIN wire : wire[i].at <= sent[wire[i].packet].len
  BY <1>2, <1>3, <1>4, <1>5 DEF BytesInOrder
<1>10. Rising(wire)
  BY DEF BytesInOrder
<1>11. BytesInOrder'
  BY <1>2, <1>4, <1>7, <1>8, <1>9, <1>10 DEF BytesInOrder, Rising, Before
<1>12. ByteTypes'
  BY <1>2, <1>4 DEF ByteTypes, Dropped
<1> QED
  BY <1>3, <1>4, <1>5, <1>6, <1>11, <1>12

\* The packet that is cut off whole was sent before all that is left.
LEMMA WholePacket ==
    ASSUME ByteTypes, BytesInOrder, NEW len \in Nat, Dropped(len), Valid(recvBuf, len)
    PROVE  AheadNext(recvBuf[1].packet)
<1>1. PICK lr \in Nat : lr = Len(recvBuf)
  BY DEF ByteTypes
<1>2. recvBuf \in Seq(ByteType) /\ wire' = wire /\ wire \in Seq(ByteType)
  BY DEF ByteTypes, Dropped
<1>3. len \in 1 .. lr /\ DOMAIN recvBuf = 1 .. lr
  BY <1>1, <1>2 DEF Dropped
<1>4. PICK n \in DOMAIN sent, total \in Nat : n = recvBuf[1].packet /\ total = sent[n].len
  <2>1. recvBuf[1] \in ByteType
    BY <1>2, <1>3
  <2> QED
    BY <2>1, PushesAreNumbers DEF ByteType
<1>5. SubSeq(recvBuf, 1, len) = Bytes(n, total)
  BY <1>4 DEF Valid
<1>6. /\ Len(SubSeq(recvBuf, 1, len)) = len
      /\ \A i \in 1 .. len : SubSeq(recvBuf, 1, len)[i] = recvBuf[i]
  <2>1. len \in 0 .. Len(recvBuf)
    BY <1>1, <1>3
  <2> QED
    BY <1>2, <2>1, Cut
<1>7. DOMAIN Bytes(n, total) = 1 .. total
      /\ \A i \in 1 .. total : Bytes(n, total)[i] = [packet |-> n, at |-> i]
  BY DEF Bytes
<1>8. total = len
  <2>1. Len(Bytes(n, total)) = total
    BY <1>4, <1>7
  <2> QED
    BY <1>5, <1>6, <2>1
<1>9. recvBuf[len].packet = n /\ recvBuf[len].at = len /\ sent[n].len = len
  <2>1. len \in 1 .. len /\ len \in 1 .. total
    BY <1>3, <1>8
  <2>2. recvBuf[len] = [packet |-> n, at |-> len]
    BY <1>5, <1>6, <1>7, <2>1
  <2> QED
    BY <1>4, <1>8, <2>2
<1>10. n \in Nat /\ \A b \in ByteType : b.packet \in Nat /\ b.at \in Nat
  BY PushesAreNumbers DEF ByteType
<1>11. ASSUME NEW i \in DOMAIN recvBuf' PROVE n < recvBuf'[i].packet
  <2>1. len + i \in 1 .. lr /\ len < len + i /\ recvBuf'[i] = recvBuf[len + i]
    BY <1>1, <1>3, BytesDropped
  <2>2. Before(recvBuf[len], recvBuf[len + i])
    BY <1>3, <2>1 DEF BytesInOrder, Rising
  <2>3. recvBuf[len + i].at <= sent[recvBuf[len + i].packet].len
    BY <1>3, <2>1 DEF BytesInOrder
  <2>4. recvBuf[len + i] \in ByteType
    BY <1>2, <1>3, <2>1
  <2> QED
    BY <1>9, <1>10, <2>1, <2>2, <2>3, <2>4 DEF Before
<1>12. ASSUME NEW i \in DOMAIN wire PROVE n < wire[i].packet
  <2>1. Before(recvBuf[len], wire[i])
    BY <1>3 DEF BytesInOrder
  <2>2. wire[i].at <= sent[wire[i].packet].len
    BY DEF BytesInOrder
  <2>3. wire[i] \in ByteType
    BY <1>2
  <2> QED
    BY <1>9, <1>10, <2>1, <2>2, <2>3 DEF Before
<1> QED
  BY <1>2, <1>4, <1>11, <1>12 DEF AheadNext

\* A push put behind what was sent before it.
LEMMA SortedPush ==
    ASSUME ThreadTypes, NEW c \in Executors, NEW e \in Executors, Sorted(e), Moved,
           NEW n \in Nat,
           \A m \in Items : Ahead(m) => m < n, AheadNext(n),
           queue' = [queue EXCEPT ![c] = Append(queue[c], n)],
           UNCHANGED <<shown, hand>>
    PROVE  Sorted(e)'
<1>1. /\ queue[e] \in Seq(Items) /\ shown[e] \in Seq(Pushes) /\ hand[e] \in Items
      /\ queue \in [Executors -> Seq(Items)] /\ Pushes \subseteq Items
  BY DEF ThreadTypes, Items
<1>2. CASE e # c
  <2>1. queue'[e] = queue[e]
    BY <1>1, <1>2
  <2> QED
    BY <2>1, MovedAhead DEF Sorted, Ahead, AheadNext, InOrder
<1>3. CASE e = c
  <2>1. PICK lq \in Nat : lq = Len(queue[e]) /\ DOMAIN queue[e] = 1 .. lq
    BY <1>1
  <2>2. /\ DOMAIN queue'[e] = 1 .. lq + 1 /\ queue'[e][lq + 1] = n
        /\ \A j \in 1 .. lq : queue'[e][j] = queue[e][j]
    <3>1. queue'[e] = Append(queue[e], n)
      BY <1>1, <1>3
    <3> QED
      BY <1>1, <2>1, <3>1
  <2>3. /\ \A j \in 1 .. lq : queue[e][j] \in Items /\ queue[e][j] < n
        /\ \A i \in DOMAIN shown[e] : shown[e][i] \in Items /\ shown[e][i] < n
        /\ hand[e] < n
    BY <1>1, <2>1 DEF Sorted
  <2>4. InOrder(queue'[e])
    <3> SUFFICES ASSUME NEW i \in 1 .. lq + 1, NEW j \in 1 .. lq + 1, i < j,
                        queue'[e][i] # Nothing, queue'[e][j] # Nothing
                 PROVE  queue'[e][i] < queue'[e][j]
      BY <2>2 DEF InOrder
    <3>1. CASE j <= lq
      BY <2>1, <2>2, <3>1 DEF Sorted, InOrder
    <3>2. CASE j = lq + 1
      BY <2>1, <2>2, <2>3, <3>2
    <3> QED
      BY <2>1, <3>1, <3>2
  <2>5. \A j \in 1 .. lq + 1 : AheadNext(queue'[e][j])
    <3>1. \A j \in 1 .. lq : AheadNext(queue'[e][j])
      BY <2>1, <2>2, MovedAhead DEF Sorted
    <3> QED
      BY <2>1, <2>2, <3>1
  <2>6. \A i \in DOMAIN shown[e], j \in 1 .. lq + 1 :
           queue'[e][j] # Nothing => shown[e][i] < queue'[e][j]
    BY <2>1, <2>2, <2>3 DEF Sorted
  <2>7. hand[e] # Nothing =>
           \A j \in 1 .. lq + 1 : queue'[e][j] # Nothing => hand[e] < queue'[e][j]
    BY <2>1, <2>2, <2>3 DEF Sorted
  <2>8. /\ \A i \in DOMAIN shown[e] : AheadNext(shown[e][i])
        /\ AheadNext(hand[e])
    BY MovedAhead DEF Sorted
  <2> QED
    BY <2>2, <2>4, <2>5, <2>6, <2>7, <2>8 DEF Sorted, Ahead, AheadNext, InOrder
<1> QED
  BY <1>2, <1>3

LEMMA CutPacketInvariant == PushInv /\ CutPacket => PushInv'
<1> SUFFICES ASSUME PushInv, CutPacket PROVE PushInv'
  OBVIOUS
<1>1. ConnTypes /\ ByteTypes /\ ThreadTypes /\ BytesInOrder
  BY Types DEF PushInv
<1>2. PICK len \in Cuts(recvBuf) :
         /\ recvBuf' = SubSeq(recvBuf, len + 1, Len(recvBuf))
         /\ IF Valid(recvBuf, len) THEN Handle(recvBuf[1].packet)
            ELSE UNCHANGED <<queue, given, fetched>>
  BY DEF CutPacket
<1>3. /\ parsing /\ UNCHANGED <<encrypted, status, auto, live, session, key, procRun,
                                parsing, dirty>>
      /\ UNCHANGED <<sent, wire>>
      /\ UNCHANGED <<current, quit, pc, hand, shown, late>>
  BY DEF CutPacket
<1>4. recvBuf[1].packet \in DOMAIN sent /\ 1 \in DOMAIN recvBuf /\ len \in Nat
      /\ len \in 1 .. Len(recvBuf)
  <2>1. PICK lr \in Nat : lr = Len(recvBuf) /\ DOMAIN recvBuf = 1 .. lr
    BY <1>1 DEF ByteTypes
  <2>2. lr > HeadLen /\ len \in TotalLens(recvBuf) /\ lr >= len
    BY <2>1 DEF Cuts
  <2>3. recvBuf[1] \in ByteType /\ 1 \in 1 .. lr
    BY <1>1, <2>1, <2>2 DEF ByteTypes
  <2>4. recvBuf[1].packet \in DOMAIN sent
    BY <2>3 DEF ByteType
  <2>5. len \in Nat \ {0}
    <3>1. sent[recvBuf[1].packet].len \in Nat \ {0}
      BY <1>1, <2>4, PushesAreNumbers
    <3>2. \A g \in Garbage : g \in Nat \ {0}
      OBVIOUS
    <3>3. len = sent[recvBuf[1].packet].len \/ len \in Garbage
      BY <2>2 DEF TotalLens
    <3> QED
      BY <3>1, <3>2, <3>3
  <2> QED
    BY <2>1, <2>2, <2>3, <2>4, <2>5
<1>5. Dropped(len)
  BY <1>2, <1>3, <1>4 DEF Dropped
<1>6. ByteTypes' /\ BytesInOrder' /\ Moved
  BY <1>1, <1>4, <1>5, BytesDropped
<1>7. live /\ session \in Sessions
  BY <1>1, <1>3 DEF PushInv, Connection, ConnTypes, Sessions
<1>8. Connection'
  BY <1>3 DEF Connection, PushInv
<1>9. OfSession'
  BY <1>3, <1>6, <1>7 DEF PushInv, OfSession, Moved
<1>10. fetched' \subseteq Sessions
  BY <1>1, <1>2, <1>7 DEF ConnTypes, Handle
<1>11. ConnTypes'
  BY <1>1, <1>3, <1>10 DEF ConnTypes
<1>12. CASE UNCHANGED <<queue, given>>
  <2>1. ThreadTypes'
    BY <1>1, <1>3, <1>12, ThreadTypesSame
  <2>2. ASSUME NEW e \in Executors PROVE Ranked(e)' /\ Lately(e)' /\ Sorted(e)'
    <3>1. Ranked(e)' /\ Lately(e)'
      BY <1>3, <1>12, ThreadsSame DEF PushInv
    <3>2. Sorted(e)'
      BY <1>1, <1>3, <1>6, <1>12, MovedAhead, SortedSame DEF PushInv
    <3> QED
      BY <3>1, <3>2
  <2>3. OwnSession'
    BY <1>3, <1>12 DEF PushInv, OwnSession
  <2> QED
    BY <1>6, <1>8, <1>9, <1>11, <2>1, <2>2, <2>3, Types DEF PushInv
<1>13. CASE /\ Valid(recvBuf, len) /\ sent[recvBuf[1].packet].push
            /\ queue' = [queue EXCEPT ![current] = Append(queue[current], recvBuf[1].packet)]
            /\ given' = [given EXCEPT ![current] = Append(given[current], recvBuf[1].packet)]
  <2>1. PICK n \in Pushes : n = recvBuf[1].packet /\ n \in Nat
    BY <1>1, <1>4, <1>13, PushesAreNumbers DEF Pushes
  <2>2. /\ current \in Executors /\ current \in Nat
        /\ queue \in [Executors -> Seq(Items)] /\ given \in [Executors -> Seq(Pushes)]
    BY <1>1 DEF ThreadTypes, Executors
  <2>3. /\ queue' = [queue EXCEPT ![current] = Append(queue[current], n)]
        /\ given' = [given EXCEPT ![current] = Append(given[current], n)]
    BY <1>13, <2>1
  <2>4. ThreadTypes'
    <3>1. /\ Append(queue[current], n) \in Seq(Items)
          /\ Append(given[current], n) \in Seq(Pushes)
      BY <2>1, <2>2 DEF Items
    <3>2. queue' \in [Executors -> Seq(Items)] /\ given' \in [Executors -> Seq(Pushes)]
      BY <2>2, <2>3, <3>1
    <3> QED
      BY <1>1, <1>3, <3>2, SameNumbers DEF ThreadTypes
  <2>5. ASSUME NEW e \in Executors PROVE Ranked(e)' /\ Lately(e)'
    <3>1. e > current => queue'[e] = queue[e] /\ given'[e] = given[e]
      BY <2>2, <2>3
    <3>2. Ranked(e)'
      BY <1>3, <3>1 DEF PushInv, Ranked
    <3>3. Lately(e)'
      BY <1>3 DEF PushInv, Lately, Dismissed
    <3> QED
      BY <3>2, <3>3
  <2>6. AheadNext(n)
    BY <1>1, <1>4, <1>5, <1>13, <2>1, WholePacket
  <2>7. \A m \in Items : Ahead(m) => m < n
    BY <1>4, <2>1 DEF Ahead
  <2>8. ASSUME NEW e \in Executors PROVE Sorted(e)'
    BY <1>1, <1>3, <1>6, <2>1, <2>2, <2>3, <2>6, <2>7, SortedPush DEF PushInv
  <2>9. OwnSession'
    <3> SUFFICES ASSUME ~dirty, NEW i \in DOMAIN given'[current]
                 PROVE  sent[given'[current][i]].session = session
      BY <1>3 DEF OwnSession
    <3>1. given'[current] = Append(given[current], n) /\ given[current] \in Seq(Pushes)
      BY <2>2, <2>3
    <3>2. CASE i \in DOMAIN given[current]
      <4>1. given'[current][i] = given[current][i]
        BY <3>1, <3>2
      <4> QED
        BY <3>2, <4>1 DEF PushInv, OwnSession
    <3>3. CASE i \notin DOMAIN given[current]
      <4>1. given'[current][i] = n
        BY <3>1, <3>3
      <4>2. sent[n].session = session
        BY <1>4, <2>1 DEF PushInv, OfSession
      <4> QED
        BY <4>1, <4>2
    <3> QED
      BY <3>2, <3>3
  <2> QED
    BY <1>6, <1>8, <1>9, <1>11, <2>4, <2>5, <2>8, <2>9, Types DEF PushInv
<1> QED
  BY <1>2, <1>12, <1>13 DEF Handle

-----------------------------------------------------------------------------
(***************************************************************************)
(* The threads.                                                            *)
(***************************************************************************)
\* Packets are counted from 1.
LEMMA NothingAhead ==
    ASSUME PushTypeOK PROVE Ahead(Nothing)
<1>1. ByteTypes /\ \A b \in ByteType : Nothing < b.packet
  BY Types, PushesAreNumbers DEF ByteType
<1> QED
  BY <1>1 DEF Ahead, ByteTypes

LEMMA ThreadStepInvariant ==
    ASSUME PushInv, NEW x \in Executors,
           UNCHANGED <<encrypted, status, auto, live, session, key, fetched, procRun,
                       parsing, dirty>>,
           UNCHANGED <<sent, wire, recvBuf>>, UNCHANGED <<current, quit, given>>,
           ThreadTypes', \A e \in Executors : Ranked(e)' /\ Lately(e)' /\ Sorted(e)'
    PROVE  PushInv'
<1>1. ConnTypes /\ ByteTypes
  BY Types DEF PushInv
<1>2. ConnTypes' /\ Connection' /\ ByteTypes' /\ BytesInOrder' /\ OfSession'
  <2>1. ConnTypes'
    BY <1>1 DEF ConnTypes
  <2>2. ByteTypes' /\ BytesInOrder'
    BY <1>1, BytesSame DEF PushInv
  <2>3. Connection' /\ OfSession'
    BY DEF PushInv, Connection, OfSession
  <2> QED
    BY <2>1, <2>2, <2>3
<1>3. OwnSession'
  BY DEF PushInv, OwnSession
<1> QED
  BY <1>2, <1>3, Types DEF PushInv

LEMMA GetInvariant ==
    ASSUME PushInv, NEW x \in Executors, Get(x) PROVE PushInv'
<1>1. ConnTypes /\ ByteTypes /\ ThreadTypes
  BY Types DEF PushInv
<1>2. /\ pc[x] = "get" /\ queue[x] # <<>>
      /\ queue' = [queue EXCEPT ![x] = Tail(queue[x])]
      /\ IF quit[x] \/ Head(queue[x]) = Nothing
         THEN pc' = [pc EXCEPT ![x] = "ended"] /\ UNCHANGED hand
         ELSE /\ pc' = [pc EXCEPT ![x] = "check"]
              /\ hand' = [hand EXCEPT ![x] = Head(queue[x])]
      /\ UNCHANGED <<encrypted, status, auto, live, session, key, fetched, procRun>>
      /\ UNCHANGED <<sent, wire, recvBuf, parsing, dirty>>
      /\ UNCHANGED <<current, quit, given, shown, late>>
  BY DEF Get, cvars, bvars
<1>3. PICK lq \in Nat \ {0}, h \in Items :
         /\ lq = Len(queue[x]) /\ DOMAIN queue[x] = 1 .. lq /\ h = Head(queue[x])
         /\ h = queue[x][1]
  <2>1. queue[x] \in Seq(Items) /\ queue[x] # <<>>
    BY <1>1, <1>2 DEF ThreadTypes
  <2>2. Head(queue[x]) \in Items /\ Head(queue[x]) = queue[x][1]
    BY <2>1
  <2> QED
    BY <2>1, <2>2
<1>4. /\ queue' \in [Executors -> Seq(Items)] /\ DOMAIN queue'[x] = 1 .. lq - 1
      /\ \A i \in 1 .. lq - 1 : queue'[x][i] = queue[x][i + 1]
      /\ \A e \in Executors : e # x => queue'[e] = queue[e]
  <2>1. queue \in [Executors -> Seq(Items)]
    BY <1>1 DEF ThreadTypes
  <2>2. /\ Tail(queue[x]) \in Seq(Items) /\ DOMAIN Tail(queue[x]) = 1 .. lq - 1
        /\ \A i \in 1 .. lq - 1 : Tail(queue[x])[i] = queue[x][i + 1]
    BY <1>2, <1>3, <2>1
  <2> QED
    BY <1>2, <2>1, <2>2
<1>5. /\ pc' \in [Executors -> {"none", "get", "check", "call", "ended"}]
      /\ hand' \in [Executors -> Items]
      /\ \/ pc'[x] = "ended" /\ hand'[x] = hand[x]
         \/ pc'[x] = "check" /\ hand'[x] = h /\ ~quit[x] /\ h # Nothing
      /\ \A e \in Executors : e # x => pc'[e] = pc[e] /\ hand'[e] = hand[e]
  <2>1. CASE quit[x] \/ Head(queue[x]) = Nothing
    BY <1>1, <1>2, <2>1 DEF ThreadTypes
  <2>2. CASE ~(quit[x] \/ Head(queue[x]) = Nothing)
    <3>1. /\ pc' = [pc EXCEPT ![x] = "check"] /\ hand' = [hand EXCEPT ![x] = h]
          /\ ~quit[x] /\ h # Nothing
      BY <1>2, <1>3, <2>2
    <3>2. /\ pc \in [Executors -> {"none", "get", "check", "call", "ended"}]
          /\ hand \in [Executors -> Items]
      BY <1>1 DEF ThreadTypes
    <3> QED
      BY <3>1, <3>2
  <2> QED
    BY <2>1, <2>2
<1>6. ThreadTypes'
  BY <1>1, <1>2, <1>4, <1>5, SameNumbers DEF ThreadTypes
<1>7. /\ current \in Nat /\ \A e \in Executors : e \in Nat
      /\ Ranked(x) /\ Lately(x) /\ Sorted(x) /\ hand[x] = Nothing
      /\ ~(x > current) /\ (~quit[x] => late[x] = 0)
  <2>1. current \in Nat /\ \A e \in Executors : e \in Nat
    BY <1>1 DEF ThreadTypes, Executors
  <2>2. Ranked(x) /\ Lately(x) /\ Sorted(x)
    BY DEF PushInv
  <2>3. ~quit[x] => late[x] = 0
    BY <1>2, <2>1, <2>2 DEF Ranked, Lately, Dismissed
  <2> QED
    BY <1>2, <2>1, <2>2, <2>3 DEF Ranked
<1>8. ASSUME NEW e \in Executors PROVE Ranked(e)' /\ Lately(e)'
  <2>1. Ranked(e) /\ Lately(e)
    BY DEF PushInv
  <2>2. CASE e # x
    BY <1>2, <1>4, <1>5, <2>1, <2>2 DEF Ranked, Lately, Dismissed
  <2>3. CASE e = x
    BY <1>2, <1>5, <1>7, <2>1, <2>3 DEF Ranked, Lately, Dismissed
  <2> QED
    BY <2>2, <2>3
<1>9. \A n \in Items : Ahead(n) => AheadNext(n)
  BY <1>1, <1>2, BytesSame
<1>10. ASSUME NEW e \in Executors PROVE Sorted(e)'
  <2>1. Sorted(e) /\ UNCHANGED <<wire, recvBuf>> /\ shown' = shown
    BY <1>2 DEF PushInv
  <2>2. CASE e # x
    <3>1. queue'[e] = queue[e] /\ hand'[e] = hand[e]
      BY <1>4, <1>5, <2>2
    <3> QED
      BY <2>1, <3>1 DEF Sorted, Ahead, InOrder
  <2>3. CASE e = x
    <3>1. \A i \in 1 .. lq - 1 : i + 1 \in DOMAIN queue[x] /\ queue'[x][i] = queue[x][i + 1]
      BY <1>3, <1>4
    <3>2. InOrder(queue'[x])
      <4> SUFFICES ASSUME NEW i \in 1 .. lq - 1, NEW j \in 1 .. lq - 1, i < j,
                          queue'[x][i] # Nothing, queue'[x][j] # Nothing
                   PROVE  queue'[x][i] < queue'[x][j]
        BY <1>4 DEF InOrder
      <4>1. i + 1 < j + 1
        OBVIOUS
      <4> QED
        BY <1>7, <3>1, <4>1 DEF Sorted, InOrder
    <3>3. \A i \in DOMAIN shown[x], j \in 1 .. lq - 1 :
             queue'[x][j] # Nothing => shown[x][i] < queue'[x][j]
      BY <1>7, <3>1 DEF Sorted
    <3>4. hand'[x] # Nothing =>
             /\ \A i \in DOMAIN shown[x] : shown[x][i] < hand'[x]
             /\ \A j \in 1 .. lq - 1 : queue'[x][j] # Nothing => hand'[x] < queue'[x][j]
      <4> SUFFICES ASSUME hand'[x] # Nothing
                   PROVE  /\ \A i \in DOMAIN shown[x] : shown[x][i] < h
                          /\ \A j \in 1 .. lq - 1 : queue'[x][j] # Nothing => h < queue'[x][j]
        BY <1>5, <1>7
      <4>1. h = queue[x][1] /\ h # Nothing /\ 1 \in DOMAIN queue[x]
        BY <1>3, <1>5, <1>7
      <4>2. \A j \in 1 .. lq - 1 : 1 < j + 1
        OBVIOUS
      <4> QED
        BY <1>7, <3>1, <4>1, <4>2 DEF Sorted, InOrder
    <3>5. \A j \in 1 .. lq - 1 : Ahead(queue'[x][j])
      BY <1>7, <3>1 DEF Sorted
    <3>6. Ahead(hand'[x])
      BY <1>3, <1>5, <1>7 DEF Sorted
    <3>7. InOrder(shown[x]) /\ \A i \in DOMAIN shown[x] : Ahead(shown[x][i])
      BY <1>7 DEF Sorted
    <3> QED
      BY <1>4, <2>1, <2>3, <3>2, <3>3, <3>4, <3>5, <3>6, <3>7 DEF Sorted, Ahead, InOrder
  <2> QED
    BY <2>2, <2>3
<1> QED
  BY <1>2, <1>6, <1>8, <1>10, ThreadStepInvariant

LEMMA CheckInvariant ==
    ASSUME PushInv, NEW x \in Executors, Check(x) PROVE PushInv'
<1>1. ThreadTypes
  BY Types DEF PushInv
<1>2. /\ pc[x] = "check"
      /\ \/ pc' = [pc EXCEPT ![x] = "call"] /\ hand' = hand
         \/ pc' = [pc EXCEPT ![x] = "get"] /\ hand' = [hand EXCEPT ![x] = Nothing]
      /\ UNCHANGED <<encrypted, status, auto, live, session, key, fetched, procRun>>
      /\ UNCHANGED <<sent, wire, recvBuf, parsing, dirty>>
      /\ UNCHANGED <<current, queue, quit, given, shown, late>>
  BY DEF Check, cvars, bvars
<1>3. /\ pc' \in [Executors -> {"none", "get", "check", "call", "ended"}]
      /\ hand' \in [Executors -> Items]
      /\ \/ pc'[x] = "call" /\ hand'[x] = hand[x]
         \/ pc'[x] = "get" /\ hand'[x] = Nothing
      /\ \A e \in Executors : e # x => pc'[e] = pc[e] /\ hand'[e] = hand[e]
  <2>1. /\ pc \in [Executors -> {"none", "get", "check", "call", "ended"}]
        /\ hand \in [Executors -> Items] /\ Nothing \in Items
    BY <1>1 DEF ThreadTypes, Items
  <2> QED
    BY <1>2, <2>1
<1>4. ThreadTypes'
  BY <1>1, <1>2, <1>3, SameNumbers DEF ThreadTypes
<1>5. Ranked(x) /\ Lately(x) /\ Sorted(x)
  BY DEF PushInv
<1>6. ASSUME NEW e \in Executors PROVE Ranked(e)' /\ Lately(e)'
  <2>1. Ranked(e) /\ Lately(e)
    BY DEF PushInv
  <2>2. CASE e # x
    BY <1>2, <1>3, <2>1, <2>2 DEF Ranked, Lately, Dismissed
  <2>3. CASE e = x
    BY <1>2, <1>3, <2>1, <2>3 DEF Ranked, Lately, Dismissed
  <2> QED
    BY <2>2, <2>3
<1>7. ASSUME NEW e \in Executors PROVE Sorted(e)'
  <2>1. Sorted(e) /\ (hand'[e] = hand[e] \/ hand'[e] = Nothing)
    BY <1>3 DEF PushInv
  <2>2. Ahead(Nothing)
    BY <1>1, NothingAhead DEF PushInv
  <2> QED
    BY <1>2, <2>1, <2>2 DEF Sorted, Ahead, InOrder
<1> QED
  BY <1>2, <1>4, <1>6, <1>7, ThreadStepInvariant

LEMMA CallInvariant ==
    ASSUME PushInv, NEW x \in Executors, Call(x) PROVE PushInv'
<1>1. ThreadTypes
  BY Types DEF PushInv
<1>2. /\ pc[x] = "call" /\ hand' = [hand EXCEPT ![x] = Nothing]
      /\ pc' = [pc EXCEPT ![x] = "get"]
      /\ shown' = [shown EXCEPT ![x] = Append(shown[x], hand[x])]
      /\ late' = [late EXCEPT ![x] = late[x] + IF Dismissed(x) THEN 1 ELSE 0]
      /\ UNCHANGED <<encrypted, status, auto, live, session, key, fetched, procRun>>
      /\ UNCHANGED <<sent, wire, recvBuf, parsing, dirty>>
      /\ UNCHANGED <<current, queue, quit, given>>
  BY DEF Call, cvars, bvars
<1>3. /\ hand[x] \in Pushes /\ shown[x] \in Seq(Pushes) /\ late[x] \in Nat
      /\ Ranked(x) /\ Lately(x) /\ Sorted(x) /\ hand[x] # Nothing
  BY <1>1, <1>2 DEF PushInv, ThreadTypes, Items, Ranked
<1>4. /\ Append(shown[x], hand[x]) \in Seq(Pushes)
      /\ late[x] + (IF Dismissed(x) THEN 1 ELSE 0) \in Nat
  BY <1>3
<1>5. /\ pc' \in [Executors -> {"none", "get", "check", "call", "ended"}]
      /\ hand' \in [Executors -> Items] /\ shown' \in [Executors -> Seq(Pushes)]
      /\ late' \in [Executors -> Nat]
      /\ pc'[x] = "get" /\ hand'[x] = Nothing
      /\ late'[x] = late[x] + IF Dismissed(x) THEN 1 ELSE 0
      /\ shown'[x] = Append(shown[x], hand[x])
      /\ \A e \in Executors : e # x => /\ pc'[e] = pc[e] /\ hand'[e] = hand[e]
                                       /\ shown'[e] = shown[e] /\ late'[e] = late[e]
  <2>1. /\ pc \in [Executors -> {"none", "get", "check", "call", "ended"}]
        /\ hand \in [Executors -> Items] /\ Nothing \in Items
        /\ shown \in [Executors -> Seq(Pushes)] /\ late \in [Executors -> Nat]
    BY <1>1 DEF ThreadTypes, Items
  <2> QED
    BY <1>2, <1>4, <2>1
<1>6. ThreadTypes'
  BY <1>1, <1>2, <1>5, SameNumbers DEF ThreadTypes
<1>7. x \in Nat /\ current \in Nat /\ ~(x > current) /\ late[x] = 0
  <2>1. x \in Nat /\ current \in Nat
    BY <1>1 DEF ThreadTypes, Executors
  <2> QED
    BY <1>2, <1>3, <2>1 DEF Ranked, Lately
<1>8. ASSUME NEW e \in Executors PROVE Ranked(e)' /\ Lately(e)'
  <2>1. Ranked(e) /\ Lately(e)
    BY DEF PushInv
  <2>2. CASE e # x
    BY <1>2, <1>5, <2>1, <2>2 DEF Ranked, Lately, Dismissed
  <2>3. CASE e = x
    BY <1>2, <1>5, <1>7, <2>1, <2>3 DEF Ranked, Lately, Dismissed
  <2> QED
    BY <2>2, <2>3
<1>9. ASSUME NEW e \in Executors PROVE Sorted(e)'
  <2>1. CASE e # x
    BY <1>2, <1>5, <2>1 DEF PushInv, Sorted, Ahead, InOrder
  <2>2. CASE e = x
    <3>1. PICK ls \in Nat : ls = Len(shown[x]) /\ DOMAIN shown[x] = 1 .. ls
      BY <1>3
    <3>2. /\ DOMAIN shown'[x] = 1 .. ls + 1 /\ shown'[x][ls + 1] = hand[x]
          /\ \A i \in 1 .. ls : shown'[x][i] = shown[x][i]
      BY <1>3, <1>5, <3>1
    <3>3. InOrder(shown'[x])
      <4> SUFFICES ASSUME NEW i \in 1 .. ls + 1, NEW j \in 1 .. ls + 1, i < j,
                          shown'[x][i] # Nothing, shown'[x][j] # Nothing
                   PROVE  shown'[x][i] < shown'[x][j]
        BY <3>2 DEF InOrder
      <4>1. CASE j <= ls
        BY <1>3, <3>1, <3>2, <4>1 DEF Sorted, InOrder
      <4>2. CASE j = ls + 1
        BY <1>3, <3>1, <3>2, <4>2 DEF Sorted
      <4> QED
        BY <3>1, <4>1, <4>2
    <3>4. \A i \in 1 .. ls + 1, j \in DOMAIN queue[x] :
             queue[x][j] # Nothing => shown'[x][i] < queue[x][j]
      <4>1. ASSUME NEW i \in 1 .. ls + 1, NEW j \in DOMAIN queue[x], queue[x][j] # Nothing
            PROVE  shown'[x][i] < queue[x][j]
        <5>1. CASE i <= ls
          BY <1>3, <3>1, <3>2, <4>1, <5>1 DEF Sorted
        <5>2. CASE i = ls + 1
          BY <1>3, <3>2, <4>1, <5>2 DEF Sorted
        <5> QED
          BY <3>1, <5>1, <5>2
      <4> QED
        BY <4>1
    <3>5. \A i \in 1 .. ls + 1 : Ahead(shown'[x][i])
      <4>1. \A i \in 1 .. ls : Ahead(shown'[x][i])
        BY <1>3, <3>1, <3>2 DEF Sorted
      <4>2. Ahead(shown'[x][ls + 1])
        BY <1>3, <3>2 DEF Sorted
      <4> QED
        BY <3>1, <4>1, <4>2
    <3>6. Ahead(Nothing)
      BY <1>1, NothingAhead DEF PushInv
    <3>7. InOrder(queue[x]) /\ \A j \in DOMAIN queue[x] : Ahead(queue[x][j])
      BY <1>3 DEF Sorted
    <3> QED
      BY <1>2, <1>5, <2>2, <3>2, <3>3, <3>4, <3>5, <3>6, <3>7 DEF Sorted, Ahead, InOrder
  <2> QED
    BY <2>1, <2>2
<1> QED
  BY <1>2, <1>6, <1>8, <1>9, ThreadStepInvariant

-----------------------------------------------------------------------------
(***************************************************************************)
(* The theorems.                                                           *)
(***************************************************************************)
LEMMA InitInvariant == PushInit => PushInv
<1> SUFFICES ASSUME PushInit PROVE PushInv
  OBVIOUS
<1>1. PushTypeOK
  BY InitTypes
<1>2. Connection /\ BytesInOrder
  BY DEF PushInit, Connection, BytesInOrder, Rising
<1>3. given[current] = <<>> /\ recvBuf = <<>> /\ wire = <<>>
  BY DEF PushInit, Executors
<1>4. OwnSession
  BY <1>3 DEF OwnSession
<1>5. ASSUME NEW e \in Executors PROVE Ranked(e) /\ Lately(e) /\ Sorted(e)
  <2>1. /\ queue[e] = <<>> /\ given[e] = <<>> /\ shown[e] = <<>> /\ late[e] = 0
        /\ hand[e] = Nothing /\ current = 1 /\ e \in Nat /\ e >= 1
        /\ pc[e] = IF e = 1 THEN "get" ELSE "none"
    BY DEF PushInit, Executors
  <2>2. Ranked(e) /\ Lately(e)
    BY <2>1 DEF Ranked, Lately
  <2>3. Ahead(Nothing)
    BY DEF PushInit, Ahead
  <2> QED
    BY <2>1, <2>2, <2>3 DEF Sorted, InOrder
<1> QED
  BY <1>1, <1>2, <1>3, <1>4, <1>5 DEF PushInv, OfSession

LEMMA NextInvariant == PushInv /\ [PushNext]_pushVars => PushInv'
<1> SUFFICES ASSUME PushInv, [PushNext]_pushVars PROVE PushInv'
  OBVIOUS
<1>1. CASE Connect
  BY <1>1, ConnectInvariant
<1>2. CASE ConnectFail \/ Disconnect
  BY <1>2, CloseInvariant
<1>3. CASE Close
  BY <1>3, CloseInvariant, CalmStepInvariant
<1>4. CASE GatewaySend
  BY <1>4, GatewaySendInvariant
<1>5. CASE CutPacket
  BY <1>5, CutPacketInvariant
<1>6. CASE \/ AwaitBytes \/ UNCHANGED pushVars
           \/ \E s \in Sessions : HandleInitConnectRsp(s)
           \/ \E on \in BOOLEAN : SetProcRun(on)
  BY <1>6, CalmStepInvariant
<1>7. CASE \E n \in 1 .. Len(wire) : OnRecv(n)
  BY <1>7, OnRecvInvariant
<1>8. ASSUME NEW e \in Executors, Step(e) PROVE PushInv'
  BY <1>8, GetInvariant, CheckInvariant, CallInvariant DEF Step
<1> QED
  BY <1>1, <1>2, <1>3, <1>4, <1>5, <1>6, <1>7, <1>8 DEF PushNext

LEMMA Invariance == PushSpec => []PushInv
<1>1. PushInv /\ [PushNext]_pushVars => PushInv'
  BY NextInvariant
<1> QED
  BY InitInvariant, <1>1, PTL DEF PushSpec

\* Every variable keeps its type; in particular an executor is given nothing but
\* what the gateway has sent as pushes (open_context_base.py, packet_callback).
THEOREM PushTypeCorrect == PushSpec => []PushTypeOK
<1>1. PushInv => PushTypeOK
  BY DEF PushInv
<1> QED
  BY <1>1, Invariance, PTL

LEMMA InOrderJoined ==
    ASSUME NEW s \in Seq(Nat), NEW t \in Seq(Nat), InOrder(s), InOrder(t),
           \A i \in DOMAIN s, j \in DOMAIN t : s[i] # Nothing /\ t[j] # Nothing => s[i] < t[j]
    PROVE  InOrder(s \o t)
<1>1. PICK ls \in Nat, lt \in Nat : /\ ls = Len(s) /\ DOMAIN s = 1 .. ls
                                    /\ lt = Len(t) /\ DOMAIN t = 1 .. lt
  OBVIOUS
<1> DEFINE all == s \o t
<1>2. /\ DOMAIN all = 1 .. ls + lt
      /\ \A i \in 1 .. ls + lt : all[i] = IF i <= ls THEN s[i] ELSE t[i - ls]
  <2>1. /\ all \in Seq(Nat) /\ Len(all) = Len(s) + Len(t)
        /\ \A i \in 1 .. Len(s) + Len(t) : all[i] = IF i <= Len(s) THEN s[i] ELSE t[i - Len(s)]
    BY ConcatProperties
  <2> HIDE DEF all
  <2>2. DOMAIN all = 1 .. Len(all)
    BY <2>1
  <2> QED
    BY <1>1, <2>1, <2>2
<1> HIDE DEF all
<1>3. ASSUME NEW i \in 1 .. ls + lt, NEW j \in 1 .. ls + lt, i < j,
             all[i] # Nothing, all[j] # Nothing
      PROVE  all[i] < all[j]
  <2>1. CASE j <= ls
    <3>1. i \in DOMAIN s /\ j \in DOMAIN s /\ all[i] = s[i] /\ all[j] = s[j]
      BY <1>1, <1>2, <1>3, <2>1
    <3> QED
      BY <1>3, <3>1 DEF InOrder
  <2>2. CASE j > ls
    <3>1. j - ls \in DOMAIN t /\ all[j] = t[j - ls]
      BY <1>1, <1>2, <2>2
    <3>2. CASE i <= ls
      <4>1. i \in DOMAIN s /\ all[i] = s[i]
        BY <1>1, <1>2, <3>2
      <4> QED
        BY <1>3, <3>1, <4>1
    <3>3. CASE i > ls
      <4>1. i - ls \in DOMAIN t /\ all[i] = t[i - ls] /\ i - ls < j - ls
        BY <1>1, <1>2, <1>3, <3>3
      <4> QED
        BY <1>3, <3>1, <4>1 DEF InOrder
    <3> QED
      BY <1>1, <3>2, <3>3
  <2> QED
    BY <1>1, <2>1, <2>2
<1>4. InOrder(all)
  BY <1>2, <1>3 DEF InOrder
<1> QED
  BY <1>4 DEF all

\* A handler sees the pushes of a session in the order in which the gateway sent
\* them and none twice (callback_executor.py, run; utils.py, parse_rsp).
THEOREM HandlersInOrder == PushSpec => []ShownInOrder
<1>1. ASSUME PushInv PROVE ShownInOrder
  <2> SUFFICES ASSUME NEW e \in Executors
               PROVE  InOrder(shown[e] \o <<hand[e]>> \o queue[e])
    BY DEF ShownInOrder
  <2>1. ThreadTypes /\ Sorted(e)
    BY <1>1, Types DEF PushInv
  <2>2. Items \subseteq Nat
    BY <1>1, Types, PushesAreNumbers DEF PushInv, Items
  <2>3. /\ shown[e] \in Seq(Items) /\ hand[e] \in Nat /\ queue[e] \in Seq(Items)
    <3>1. /\ shown[e] \in Seq(Pushes) /\ hand[e] \in Items /\ queue[e] \in Seq(Items)
          /\ Pushes \subseteq Items
      BY <2>1 DEF ThreadTypes, Items
    <3> QED
      BY <2>2, <3>1, SeqMonotonic
  <2>4. shown[e] \in Seq(Nat) /\ queue[e] \in Seq(Nat)
    BY <2>2, <2>3, SeqMonotonic
  <2> DEFINE one == <<hand[e]>>
             front == shown[e] \o one
  <2>5. one \in Seq(Nat) /\ DOMAIN one = {1} /\ one[1] = hand[e] /\ InOrder(one)
    BY <2>3 DEF InOrder
  <2> HIDE DEF one
  <2>6. InOrder(front)
    BY <2>1, <2>4, <2>5, InOrderJoined DEF Sorted
  <2>7. /\ front \in Seq(Nat)
        /\ \A i \in DOMAIN front : \/ \E j \in DOMAIN shown[e] : front[i] = shown[e][j]
                                  \/ front[i] = hand[e]
    <3>1. PICK ls \in Nat : ls = Len(shown[e]) /\ DOMAIN shown[e] = 1 .. ls
      BY <2>4
    <3>2. /\ front \in Seq(Nat) /\ Len(front) = Len(shown[e]) + Len(one)
          /\ \A i \in 1 .. Len(shown[e]) + Len(one) :
                front[i] = IF i <= Len(shown[e]) THEN shown[e][i]
                           ELSE one[i - Len(shown[e])]
      BY <2>4, <2>5, ConcatProperties
    <3> HIDE DEF front
    <3>3. Len(one) = 1 /\ DOMAIN front = 1 .. Len(front)
      BY <2>5, <3>2
    <3>4. DOMAIN front = 1 .. ls + 1
          /\ \A i \in 1 .. ls + 1 : front[i] = IF i <= ls THEN shown[e][i] ELSE one[i - ls]
      BY <3>1, <3>2, <3>3
    <3>5. ASSUME NEW i \in 1 .. ls + 1
          PROVE  (\E j \in DOMAIN shown[e] : front[i] = shown[e][j]) \/ front[i] = hand[e]
      <4>1. CASE i <= ls
        <5>1. i \in DOMAIN shown[e] /\ front[i] = shown[e][i]
          BY <3>1, <3>4, <4>1
        <5> QED
          BY <5>1
      <4>2. CASE i = ls + 1
        BY <2>5, <3>1, <3>4, <4>2
      <4> QED
        BY <3>1, <4>1, <4>2
    <3> QED
      BY <3>2, <3>4, <3>5
  <2> HIDE DEF front
  <2>8. \A i \in DOMAIN front, j \in DOMAIN queue[e] :
           front[i] # Nothing /\ queue[e][j] # Nothing => front[i] < queue[e][j]
    BY <2>1, <2>7 DEF Sorted
  <2>9. InOrder(front \o queue[e])
    BY <2>1, <2>4, <2>6, <2>7, <2>8, InOrderJoined DEF Sorted
  <2> QED
    BY <2>9 DEF front, one
<1> QED
  BY <1>1, Invariance, PTL

\* The push thread of the present session is given nothing of an earlier one
\* (open_context_base.py, _reconnect, which replaces the executor).
THEOREM OwnSessionOnly == PushSpec => []OwnSession
<1>1. PushInv => OwnSession
  BY DEF PushInv
<1> QED
  BY <1>1, Invariance, PTL

\* The push thread of a session that has ended calls a handler once more at most
\* (callback_executor.py, close and run).
THEOREM OneLateAtMost == PushSpec => []OneLate
<1>1. PushInv => OneLate
  BY DEF PushInv, Lately, OneLate
<1> QED
  BY <1>1, Invariance, PTL

-----------------------------------------------------------------------------
(***************************************************************************)
(* No byte is lost.                                                        *)
(*                                                                         *)
(* What is in the receive buffer and behind it on the way is, in a session *)
(* that began with an empty buffer, a row of whole packets: a read moves   *)
(* the boundary between the two, and a cut takes the first packet off.     *)
(***************************************************************************)
Coming == recvBuf \o wire

PacketsWhole ==
    /\ Len(Coming) > 0 => Coming[1].at = 1
    /\ \A i \in 1 .. Len(Coming) : Coming[i].at = 1 =>
          LET n == Coming[i].packet  len == sent[n].len IN
          /\ i + len - 1 <= Len(Coming)
          /\ \A k \in 1 .. len : Coming[i + k - 1] = [packet |-> n, at |-> k]
          /\ i + len <= Len(Coming) => Coming[i + len].at = 1

\* Between two reads there is less than a packet in the buffer.
Cutting == ~parsing /\ recvBuf # <<>> => Len(recvBuf) < sent[recvBuf[1].packet].len

GivenAll ==
    {given[current][i] : i \in DOMAIN given[current]}
        = {n \in Pushes \intersect OnSession(session) : Arrived(n)}

StreamInv ==
    /\ live /\ auto => status \in {"CONNECTED", "READY"}
    /\ \A n \in DOMAIN sent : sent[n].session <= session
    /\ live /\ auto /\ ~dirty => PacketsWhole /\ Cutting /\ (~encrypted => GivenAll)

\* A packet has arrived when no byte of it is coming.
LEMMA ArrivedIn ==
    ASSUME NEW S, NEW r \in Seq(S), NEW w \in Seq(S), NEW n
    PROVE  (\A b \in {w, r} : \A i \in DOMAIN b : b[i].packet # n)
               <=> \A i \in 1 .. Len(r \o w) : (r \o w)[i].packet # n
<1>1. ASSUME \A b \in {w, r} : \A i \in DOMAIN b : b[i].packet # n,
             NEW i \in 1 .. Len(r \o w)
      PROVE  (r \o w)[i].packet # n
  <2>1. CASE i <= Len(r)
    BY <1>1, <2>1, Joined
  <2>2. CASE i > Len(r)
    <3>1. i \in Len(r) + 1 .. Len(r) + Len(w)
      BY <2>2, Joined
    <3>2. i - Len(r) \in DOMAIN w /\ (r \o w)[i] = w[i - Len(r)]
      BY <3>1, Joined
    <3> QED
      BY <1>1, <3>2
  <2> QED
    BY <2>1, <2>2, Joined
<1>2. ASSUME \A i \in 1 .. Len(r \o w) : (r \o w)[i].packet # n
      PROVE  \A b \in {w, r} : \A i \in DOMAIN b : b[i].packet # n
  <2>1. ASSUME NEW i \in DOMAIN r PROVE r[i].packet # n
    <3>1. i \in 1 .. Len(r \o w) /\ (r \o w)[i] = r[i]
      BY Joined
    <3> QED
      BY <1>2, <3>1
  <2>2. ASSUME NEW i \in DOMAIN w PROVE w[i].packet # n
    <3>1. Len(r) + i \in 1 .. Len(r \o w) /\ (r \o w)[Len(r) + i] = w[i]
      BY Joined
    <3> QED
      BY <1>2, <3>1
  <2> QED
    BY <2>1, <2>2
<1> QED
  BY <1>1, <1>2

LEMMA ComingAt ==
    ASSUME ByteTypes
    PROVE  /\ Len(recvBuf) \in Nat /\ Len(wire) \in Nat
           /\ DOMAIN recvBuf = 1 .. Len(recvBuf) /\ DOMAIN wire = 1 .. Len(wire)
           /\ Coming \in Seq(ByteType) /\ Len(Coming) = Len(recvBuf) + Len(wire)
           /\ \A i \in 1 .. Len(Coming) : Coming[i] \in ByteType
           /\ \A i \in 1 .. Len(recvBuf) : Coming[i] = recvBuf[i]
           /\ \A i \in 1 .. Len(wire) : Coming[Len(recvBuf) + i] = wire[i]
           /\ \A n : Arrived(n) <=> \A i \in 1 .. Len(Coming) : Coming[i].packet # n
<1>1. recvBuf \in Seq(ByteType) /\ wire \in Seq(ByteType)
  BY DEF ByteTypes
<1>2. \A n : Arrived(n) <=> \A i \in 1 .. Len(Coming) : Coming[i].packet # n
  BY <1>1, ArrivedIn DEF Arrived, Coming
<1>3. Coming \in Seq(ByteType)
  BY <1>1, Joined DEF Coming
<1>4. \A i \in 1 .. Len(Coming) : Coming[i] \in ByteType
  BY <1>3, ElementOfSeq
<1> QED
  BY <1>1, <1>2, <1>3, <1>4, Joined DEF Coming

LEMMA ComingAtNext ==
    ASSUME ByteTypes'
    PROVE  /\ Len(recvBuf') \in Nat /\ Len(wire') \in Nat
           /\ Coming' \in Seq(ByteType') /\ Len(Coming') = Len(recvBuf') + Len(wire')
           /\ \A i \in 1 .. Len(recvBuf') : Coming'[i] = recvBuf'[i]
           /\ \A i \in 1 .. Len(wire') : Coming'[Len(recvBuf') + i] = wire'[i]
           /\ \A n : Arrived(n)' <=> \A i \in 1 .. Len(Coming') : Coming'[i].packet # n
<1>1. recvBuf' \in Seq(ByteType') /\ wire' \in Seq(ByteType')
  BY DEF ByteTypes
<1>2. \A n : Arrived(n)' <=> \A i \in 1 .. Len(Coming') : Coming'[i].packet # n
  BY <1>1, ArrivedIn DEF Arrived, Coming
<1> QED
  BY <1>1, <1>2, Joined DEF Coming

\* The packet at the front of the buffer.
LEMMA FrontPacket ==
    ASSUME ByteTypes, PacketsWhole, recvBuf # <<>>
    PROVE  LET n == recvBuf[1].packet  len == sent[n].len IN
           /\ n \in DOMAIN sent /\ len \in Nat /\ HeadLen < len /\ len <= Len(Coming)
           /\ \A k \in 1 .. len : Coming[k] = [packet |-> n, at |-> k]
           /\ \A k \in 1 .. Len(recvBuf) : k <= len => recvBuf[k] = [packet |-> n, at |-> k]
           /\ len < Len(Coming) => Coming[len + 1].at = 1
<1> DEFINE n == recvBuf[1].packet
           len == sent[n].len
<1>1. recvBuf \in Seq(ByteType) /\ 1 \in 1 .. Len(recvBuf) /\ Len(recvBuf) \in Nat
  BY DEF ByteTypes
<1>2. n \in DOMAIN sent
  <2>1. recvBuf[1] \in ByteType
    BY <1>1, ElementOfSeq
  <2> QED
    BY <2>1 DEF ByteType
<1>3. len \in Nat /\ HeadLen < len
  <2>1. sent[n] \in PacketType
    BY <1>2, PushesAreNumbers
  <2> QED
    BY <2>1 DEF PacketType
<1>4. Len(Coming) \in Nat /\ 1 \in 1 .. Len(Coming) /\ Coming[1] = recvBuf[1]
  BY <1>1, ComingAt
<1>5. Coming[1].at = 1 /\ Coming[1].packet = n
  BY <1>4 DEF PacketsWhole
<1> HIDE DEF n
<1>6. /\ 1 + len - 1 <= Len(Coming)
      /\ \A k \in 1 .. len : Coming[1 + k - 1] = [packet |-> n, at |-> k]
      /\ 1 + len <= Len(Coming) => Coming[1 + len].at = 1
  BY <1>4, <1>5 DEF PacketsWhole
<1> HIDE DEF len
<1>7. /\ len <= Len(Coming) /\ \A k \in 1 .. len : Coming[k] = [packet |-> n, at |-> k]
      /\ len < Len(Coming) => Coming[len + 1].at = 1
  <2>1. 1 + len - 1 = len /\ 1 + len = len + 1 /\ \A k \in 1 .. len : 1 + k - 1 = k
    BY <1>3
  <2>2. len < Len(Coming) => len + 1 <= Len(Coming)
    BY <1>3, <1>4
  <2> QED
    BY <1>3, <1>6, <2>1, <2>2
<1>8. ASSUME NEW k \in 1 .. Len(recvBuf), k <= len
      PROVE  recvBuf[k] = [packet |-> n, at |-> k]
  <2>1. k \in 1 .. len
    BY <1>3, <1>8
  <2> QED
    BY <1>7, <2>1, ComingAt
<1> QED
  BY <1>2, <1>3, <1>7, <1>8 DEF n, len

\* Its length is what the head says, and it is cut when it is all there.
LEMMA FrontCuts ==
    ASSUME ByteTypes, PacketsWhole, recvBuf # <<>>
    PROVE  /\ Len(recvBuf) > HeadLen =>
                TotalLens(recvBuf) = {sent[recvBuf[1].packet].len}
           /\ \A k \in Cuts(recvBuf) :
                 k = sent[recvBuf[1].packet].len /\ k <= Len(recvBuf)
           /\ Len(recvBuf) >= sent[recvBuf[1].packet].len =>
                 Len(recvBuf) > HeadLen /\ Cuts(recvBuf) = TotalLens(recvBuf)
<1> DEFINE n == recvBuf[1].packet
           len == sent[n].len
<1>1. /\ len \in Nat /\ HeadLen < len /\ Len(recvBuf) \in Nat
      /\ \A k \in 1 .. Len(recvBuf) : k <= len => recvBuf[k] = [packet |-> n, at |-> k]
  BY FrontPacket, ComingAt
<1> HIDE DEF len
<1>2. ASSUME Len(recvBuf) > HeadLen PROVE TotalLens(recvBuf) = {len}
  <2>1. \A i \in 1 .. HeadLen : recvBuf[i] = [packet |-> recvBuf[1].packet, at |-> i]
    BY <1>1, <1>2
  <2> QED
    BY <2>1 DEF TotalLens, len
<1>3. \A k \in Cuts(recvBuf) : k = len /\ k <= Len(recvBuf)
  BY <1>1, <1>2 DEF Cuts
<1>4. Len(recvBuf) >= len => Len(recvBuf) > HeadLen /\ Cuts(recvBuf) = TotalLens(recvBuf)
  BY <1>1, <1>2 DEF Cuts
<1> QED
  BY <1>2, <1>3, <1>4 DEF len

-----------------------------------------------------------------------------
\* A packet is sent.
LEMMA SentWhole ==
    ASSUME ByteTypes, ByteTypes', NEW len \in Nat \ {0}, NEW p, p.len = len,
           NEW n0, n0 = Len(sent) + 1, sent' = Append(sent, p),
           wire' = wire \o Bytes(n0, len), recvBuf' = recvBuf
    PROVE  /\ PacketsWhole => PacketsWhole'
           /\ \A m \in DOMAIN sent : Arrived(m)' <=> Arrived(m)
           /\ ~Arrived(n0)'
<1> DEFINE new == Bytes(n0, len)
<1>1. /\ n0 \in Nat \ {0} /\ DOMAIN sent = 1 .. n0 - 1
      /\ sent'[n0].len = len /\ \A m \in 1 .. n0 - 1 : sent'[m] = sent[m]
  BY DEF ByteTypes
<1>2. /\ new \in Seq(ByteType') /\ Len(new) = len
      /\ \A i \in 1 .. len : new[i] = [packet |-> n0, at |-> i]
  <2>1. DOMAIN sent' = 1 .. n0
    BY DEF ByteTypes
  <2>2. \A i \in 1 .. len : [packet |-> n0, at |-> i] \in ByteType'
    BY <1>1, <2>1 DEF ByteType
  <2>3. new = [i \in 1 .. len |-> [packet |-> n0, at |-> i]]
    BY DEF Bytes
  <2>4. new \in [1 .. len -> ByteType'] /\ len \in Nat
    BY <2>2, <2>3
  <2>5. new \in Seq(ByteType')
    BY <2>4
  <2>6. DOMAIN new = 1 .. len
    BY <2>3
  <2>7. Len(new) = len
    BY <2>4, <2>5, <2>6
  <2>8. \A i \in 1 .. len : new[i] = [packet |-> n0, at |-> i]
    BY <2>3
  <2> HIDE DEF new
  <2> QED
    BY <2>5, <2>7, <2>8
<1> HIDE DEF new
<1> DEFINE lr == Len(recvBuf)
           lw == Len(wire)
           lc == Len(Coming)
<1>3. /\ lr \in Nat /\ lw \in Nat /\ lc \in Nat /\ lc = lr + lw
      /\ lr = Len(recvBuf) /\ lw = Len(wire) /\ lc = Len(Coming)
      /\ \A i \in 1 .. lr : Coming[i] = recvBuf[i]
      /\ \A i \in 1 .. lw : Coming[lr + i] = wire[i]
      /\ \A i \in 1 .. lc : Coming[i] \in ByteType
  BY ComingAt
<1> HIDE DEF lr, lw, lc
<1>4. /\ Len(wire') = lw + len /\ \A i \in 1 .. lw : wire'[i] = wire[i]
      /\ \A i \in 1 .. len : wire'[lw + i] = new[i]
  <2>1. wire \in Seq(ByteType')
    <3>1. ByteType \subseteq ByteType' /\ wire \in Seq(ByteType)
      BY <1>1 DEF ByteType, ByteTypes
    <3> QED
      BY <3>1, SeqMonotonic
  <2>2. wire' = wire \o new
    BY DEF new
  <2>3. /\ Len(wire \o new) = Len(wire) + Len(new)
        /\ \A i \in 1 .. Len(wire) : (wire \o new)[i] = wire[i]
        /\ \A i \in 1 .. Len(new) : (wire \o new)[Len(wire) + i] = new[i]
    <3> HIDE DEF new
    <3>1. new \in Seq(ByteType')
      BY <1>2
    <3> QED
      BY <2>1, <3>1, Joined
  <2> QED
    BY <1>2, <1>3, <2>2, <2>3
<1>5. /\ Len(Coming') = lr + (lw + len)
      /\ \A i \in 1 .. lr : Coming'[i] = recvBuf[i]
      /\ \A i \in 1 .. lw + len : Coming'[lr + i] = wire'[i]
      /\ \A n : Arrived(n)' <=> \A i \in 1 .. Len(Coming') : Coming'[i].packet # n
  BY <1>3, <1>4, ComingAtNext
<1>6. ASSUME NEW i \in 1 .. lc PROVE Coming'[i] = Coming[i]
  <2>1. CASE i <= lr
    <3>1. i \in 1 .. lr
      BY <1>3, <2>1
    <3> QED
      BY <1>3, <1>5, <3>1
  <2>2. CASE i > lr
    <3> DEFINE j == i - lr
    <3>1. j \in 1 .. lw /\ j \in 1 .. lw + len /\ i = lr + j
      BY <1>3, <2>2
    <3> HIDE DEF j
    <3>2. Coming'[lr + j] = wire'[j] /\ wire'[j] = wire[j]
      BY <1>4, <1>5, <3>1
    <3>3. Coming[lr + j] = wire[j]
      BY <1>3, <3>1
    <3> QED
      BY <3>1, <3>2, <3>3
  <2> QED
    BY <1>3, <2>1, <2>2
<1>7. ASSUME NEW i \in 1 .. len PROVE Coming'[lc + i] = [packet |-> n0, at |-> i]
  <2> DEFINE j == lw + i
  <2>1. j \in 1 .. lw + len /\ lc + i = lr + j
    BY <1>3
  <2>2. wire'[j] = [packet |-> n0, at |-> i]
    BY <1>2, <1>4
  <2> HIDE DEF j
  <2> QED
    BY <1>5, <2>1, <2>2
<1>8. Len(Coming') = lc + len
  BY <1>3, <1>5
<1>9. \A i \in 1 .. lc : Coming[i].packet \in 1 .. n0 - 1
  BY <1>1, <1>3 DEF ByteType
<1>10. ASSUME PacketsWhole PROVE PacketsWhole'
  <2>1. lc + len > 0 => Coming'[1].at = 1
    <3>1. CASE lc = 0
      <4>1. Coming'[lc + 1] = [packet |-> n0, at |-> 1] /\ lc + 1 = 1
        BY <1>7, <3>1
      <4> QED
        BY <4>1
    <3>2. CASE lc > 0
      BY <1>3, <1>6, <1>10, <3>2 DEF PacketsWhole
    <3> QED
      BY <1>3, <3>1, <3>2
  <2>2. ASSUME NEW i \in 1 .. lc + len, Coming'[i].at = 1
        PROVE  LET n == Coming'[i].packet  ln == sent'[n].len IN
               /\ i + ln - 1 <= lc + len
               /\ \A k \in 1 .. ln : Coming'[i + k - 1] = [packet |-> n, at |-> k]
               /\ i + ln <= lc + len => Coming'[i + ln].at = 1
    <3>1. CASE i <= lc
      <4> DEFINE n == Coming[i].packet
                 ln == sent[n].len
      <4>1. Coming'[i] = Coming[i] /\ i \in 1 .. lc /\ Coming[i].at = 1
        BY <1>6, <2>2, <3>1
      <4>2. n \in 1 .. n0 - 1 /\ sent'[n] = sent[n] /\ ln \in Nat
        BY <1>1, <1>9, <4>1, PushesAreNumbers
      <4>3. /\ i + ln - 1 <= lc
            /\ \A k \in 1 .. ln : Coming[i + k - 1] = [packet |-> n, at |-> k]
            /\ i + ln <= lc => Coming[i + ln].at = 1
        BY <1>3, <1>10, <4>1 DEF PacketsWhole
      <4> HIDE DEF n, ln
      <4>4. \A k \in 1 .. ln : i + k - 1 \in 1 .. lc
        BY <1>3, <4>1, <4>2, <4>3
      <4>5. \A k \in 1 .. ln : Coming'[i + k - 1] = [packet |-> n, at |-> k]
        BY <1>6, <4>3, <4>4
      <4>6. i + ln <= lc + len => Coming'[i + ln].at = 1
        <5>1. CASE i + ln <= lc
          <6>1. i + ln \in 1 .. lc
            BY <4>2, <5>1
          <6> QED
            BY <1>6, <4>3, <5>1, <6>1
        <5>2. CASE i + ln = lc + 1
          <6>1. Coming'[lc + 1] = [packet |-> n0, at |-> 1]
            BY <1>7
          <6> QED
            BY <5>2, <6>1
        <5>3. i + ln <= lc \/ i + ln = lc + 1
          BY <1>3, <4>1, <4>2, <4>3
        <5> QED
          BY <5>1, <5>2, <5>3
      <4>7. i + ln - 1 <= lc + len
        BY <1>3, <4>2, <4>3
      <4> QED
        BY <4>1, <4>2, <4>5, <4>6, <4>7 DEF n, ln
    <3>2. CASE i > lc
      <4> DEFINE j == i - lc
      <4>1. j \in 1 .. len /\ i = lc + j
        BY <1>3, <3>2
      <4> HIDE DEF j
      <4>2. Coming'[i] = [packet |-> n0, at |-> j]
        BY <1>7, <4>1
      <4>3. i = lc + 1 /\ Coming'[i].packet = n0
        BY <2>2, <4>1, <4>2
      <4>4. \A k \in 1 .. len : Coming'[i + k - 1] = [packet |-> n0, at |-> k]
        <5>1. ASSUME NEW k \in 1 .. len PROVE i + k - 1 = lc + k
          <6>1. lc \in Int
            BY <1>3
          <6>2. k \in Int
            BY <5>1
          <6>3. i = lc + 1
            BY <4>3
          <6> QED
            BY <6>1, <6>2, <6>3
        <5> QED
          BY <1>7, <5>1
      <4>5. i + len - 1 <= lc + len /\ ~(i + len <= lc + len)
        BY <1>3, <4>3
      <4> QED
        BY <1>1, <4>3, <4>4, <4>5
    <3>3. i <= lc \/ i > lc
      BY <1>3
    <3> QED
      BY <3>1, <3>2, <3>3
  <2> QED
    BY <1>8, <2>1, <2>2 DEF PacketsWhole
<1>11. ASSUME NEW m \in DOMAIN sent PROVE Arrived(m)' <=> Arrived(m)
  <2>1. Arrived(m) <=> \A i \in 1 .. lc : Coming[i].packet # m
    BY <1>3, ComingAt
  <2>2. Arrived(m)' <=> \A i \in 1 .. lc + len : Coming'[i].packet # m
    BY <1>5, <1>8
  <2>3. ASSUME NEW i \in 1 .. lc + len, ~(i \in 1 .. lc) PROVE Coming'[i].packet # m
    <3> DEFINE j == i - lc
    <3>1. j \in 1 .. len /\ i = lc + j
      BY <1>3, <2>3
    <3> HIDE DEF j
    <3>2. Coming'[i] = [packet |-> n0, at |-> j]
      BY <1>7, <3>1
    <3> QED
      BY <1>1, <3>2
  <2>4. \A i \in 1 .. lc : i \in 1 .. lc + len
    BY <1>3
  <2> QED
    BY <1>6, <2>1, <2>2, <2>3, <2>4
<1>12. ~Arrived(n0)'
  <2>1. Arrived(n0)' <=> \A i \in 1 .. lc + len : Coming'[i].packet # n0
    BY <1>5, <1>8
  <2>2. Coming'[lc + 1] = [packet |-> n0, at |-> 1]
    BY <1>7
  <2>3. lc + 1 \in 1 .. lc + len
    BY <1>3
  <2> QED
    BY <2>1, <2>2, <2>3
<1> QED
  BY <1>10, <1>11, <1>12

\* A read moves bytes from the one to the other.
LEMMA ReadMoves ==
    ASSUME ByteTypes, BytesInOrder, NEW n \in Nat, Taken(n),
           recvBuf' = recvBuf \o SubSeq(wire, 1, n)
    PROVE  Coming' = Coming
<1>1. ByteTypes' /\ ByteType' = ByteType
  BY BytesTaken, SameNumbers DEF Taken
<1> DEFINE lr == Len(recvBuf)
           lw == Len(wire)
<1>2. lr \in Nat /\ lw \in Nat /\ lr = Len(recvBuf) /\ lw = Len(wire) /\ n \in 1 .. lw
  BY ComingAt DEF Taken
<1> HIDE DEF lr, lw
<1> DEFINE new == SubSeq(wire, 1, n)
<1>3. /\ new \in Seq(ByteType) /\ Len(new) = n /\ \A i \in 1 .. n : new[i] = wire[i]
      /\ Len(wire') = lw - n /\ \A i \in 1 .. lw - n : wire'[i] = wire[n + i]
  <2>1. n \in 0 .. Len(wire) /\ wire \in Seq(ByteType)
    BY <1>2 DEF ByteTypes
  <2>2. /\ new \in Seq(ByteType) /\ Len(new) = n /\ \A i \in 1 .. n : new[i] = wire[i]
        /\ Len(wire') = Len(wire) - n
        /\ \A i \in 1 .. Len(wire) - n : wire'[i] = wire[n + i]
    BY <2>1, Cut DEF Taken
  <2> QED
    BY <1>2, <2>2
<1> HIDE DEF new
<1>4. /\ Len(recvBuf') = lr + n
      /\ \A i \in 1 .. lr + n : recvBuf'[i] = IF i <= lr THEN recvBuf[i] ELSE wire[i - lr]
  <2>1. recvBuf' = recvBuf \o new /\ recvBuf \in Seq(ByteType)
    BY DEF new, ByteTypes
  <2>2. /\ Len(recvBuf \o new) = Len(recvBuf) + Len(new)
        /\ \A i \in 1 .. Len(recvBuf) + Len(new) :
              (recvBuf \o new)[i] = IF i <= Len(recvBuf) THEN recvBuf[i]
                                    ELSE new[i - Len(recvBuf)]
    BY <1>3, <2>1, ConcatProperties
  <2>3. \A i \in 1 .. lr + n : ~(i <= lr) => i - lr \in 1 .. n
    BY <1>2
  <2> QED
    BY <1>2, <1>3, <2>1, <2>2, <2>3
<1>5. /\ Coming \in Seq(ByteType) /\ Len(Coming) = lr + lw
      /\ \A i \in 1 .. lr : Coming[i] = recvBuf[i]
      /\ \A i \in 1 .. lw : Coming[lr + i] = wire[i]
  BY <1>2, ComingAt
<1>6. /\ Coming' \in Seq(ByteType) /\ Len(Coming') = lr + n + (lw - n)
      /\ \A i \in 1 .. lr + n : Coming'[i] = recvBuf'[i]
      /\ \A i \in 1 .. lw - n : Coming'[lr + n + i] = wire'[i]
  <2>1. /\ Coming' \in Seq(ByteType') /\ Len(Coming') = Len(recvBuf') + Len(wire')
        /\ \A i \in 1 .. Len(recvBuf') : Coming'[i] = recvBuf'[i]
        /\ \A i \in 1 .. Len(wire') : Coming'[Len(recvBuf') + i] = wire'[i]
    BY <1>1, ComingAtNext
  <2> QED
    BY <1>1, <1>3, <1>4, <2>1
<1>7. ASSUME NEW i \in 1 .. lr + lw PROVE Coming'[i] = Coming[i]
  <2>1. CASE i <= lr
    <3>1. i \in 1 .. lr /\ i \in 1 .. lr + n
      BY <1>2, <2>1
    <3> QED
      BY <1>4, <1>5, <1>6, <2>1, <3>1
  <2>2. CASE i > lr /\ i <= lr + n
    <3> DEFINE j == i - lr
    <3>1. j \in 1 .. lw /\ i = lr + j /\ i \in 1 .. lr + n /\ ~(i <= lr)
      BY <1>2, <2>2
    <3>2. Coming'[i] = wire[j]
      BY <1>4, <1>6, <3>1
    <3> HIDE DEF j
    <3>3. Coming[lr + j] = wire[j]
      BY <1>5, <3>1
    <3> QED
      BY <3>1, <3>2, <3>3
  <2>3. CASE i > lr + n
    <3> DEFINE j == i - (lr + n)
               k == n + j
    <3>1. j \in 1 .. lw - n /\ i = lr + n + j /\ k \in 1 .. lw /\ i = lr + k
      BY <1>2, <2>3
    <3>2. wire'[j] = wire[k]
      BY <1>3, <3>1
    <3> HIDE DEF j, k
    <3>3. Coming'[lr + n + j] = wire'[j] /\ Coming[lr + k] = wire[k]
      BY <1>5, <1>6, <3>1
    <3> QED
      BY <3>1, <3>2, <3>3
  <2> QED
    BY <1>2, <2>1, <2>2, <2>3
<1> QED
  BY <1>2, <1>5, <1>6, <1>7, SeqEqual

\* A packet is cut off: it is the one at the front, it is valid, and it has arrived.
LEMMA CutWhole ==
    ASSUME ByteTypes, BytesInOrder, PacketsWhole, NEW len \in Cuts(recvBuf), Dropped(len)
    PROVE  LET n == recvBuf[1].packet IN
           /\ n \in DOMAIN sent /\ len \in Nat /\ recvBuf # <<>> /\ PacketsWhole'
           /\ SubSeq(recvBuf, 1, len) = Bytes(n, sent[n].len)
           /\ \A m \in DOMAIN sent : m # n => (Arrived(m)' <=> Arrived(m))
           /\ ~Arrived(n)
<1> DEFINE n == recvBuf[1].packet
<1>1. recvBuf # <<>> /\ Len(recvBuf) \in Nat
  BY ComingAt DEF Dropped
<1>2. len = sent[n].len /\ len <= Len(recvBuf) /\ n \in DOMAIN sent /\ len \in Nat \ {0}
  BY <1>1, FrontCuts, FrontPacket, PushesAreNumbers
<1>3. /\ \A k \in 1 .. len : Coming[k] = [packet |-> n, at |-> k]
      /\ \A k \in 1 .. len : recvBuf[k] = [packet |-> n, at |-> k]
      /\ len < Len(Coming) => Coming[len + 1].at = 1
  BY <1>1, <1>2, FrontPacket
<1>4. ByteTypes'
  BY <1>2, BytesDropped
<1> HIDE DEF n
<1> DEFINE lr == Len(recvBuf)
           lw == Len(wire)
           lc == Len(Coming)
<1>5. /\ lr \in Nat /\ lw \in Nat /\ lc \in Nat /\ lc = lr + lw
      /\ lr = Len(recvBuf) /\ lw = Len(wire) /\ lc = Len(Coming)
      /\ \A i \in 1 .. lr : Coming[i] = recvBuf[i]
      /\ \A i \in 1 .. lw : Coming[lr + i] = wire[i]
      /\ \A i \in 1 .. lc : Coming[i] \in ByteType
      /\ \A m : Arrived(m) <=> \A i \in 1 .. lc : Coming[i].packet # m
  BY ComingAt
<1> HIDE DEF lr, lw, lc
<1>6. /\ Len(recvBuf') = lr - len /\ wire' = wire /\ sent' = sent
      /\ \A i \in 1 .. lr - len : recvBuf'[i] = recvBuf[len + i]
  <2>1. len \in 0 .. Len(recvBuf) /\ recvBuf \in Seq(ByteType)
    BY <1>1, <1>2 DEF ByteTypes
  <2>2. /\ Len(SubSeq(recvBuf, len + 1, Len(recvBuf))) = Len(recvBuf) - len
        /\ \A i \in 1 .. Len(recvBuf) - len :
              SubSeq(recvBuf, len + 1, Len(recvBuf))[i] = recvBuf[len + i]
    BY <2>1, Cut
  <2> QED
    BY <1>5, <2>2 DEF Dropped
<1>7. /\ Len(Coming') = lc - len /\ lc - len \in Nat
      /\ \A i \in 1 .. lc - len : Coming'[i] = Coming[len + i]
  <2>1. /\ Len(Coming') = Len(recvBuf') + Len(wire')
        /\ \A i \in 1 .. Len(recvBuf') : Coming'[i] = recvBuf'[i]
        /\ \A i \in 1 .. Len(wire') : Coming'[Len(recvBuf') + i] = wire'[i]
    BY <1>4, ComingAtNext
  <2>2. /\ Len(Coming') = lr - len + lw
        /\ \A i \in 1 .. lr - len : Coming'[i] = recvBuf[len + i]
        /\ \A i \in 1 .. lw : Coming'[lr - len + i] = wire[i]
    BY <1>5, <1>6, <2>1
  <2>3. ASSUME NEW i \in 1 .. lc - len PROVE Coming'[i] = Coming[len + i]
    <3>1. CASE i <= lr - len
      <4>1. len + i \in 1 .. lr /\ i \in 1 .. lr - len
        BY <1>2, <1>5, <3>1
      <4>2. Coming[len + i] = recvBuf[len + i]
        BY <1>5, <4>1
      <4> QED
        BY <2>2, <4>1, <4>2
    <3>2. CASE i > lr - len
      <4> DEFINE j == i - (lr - len)
      <4>0. lr - len \in Nat /\ len \in Nat /\ lr \in Nat /\ lw \in Nat
        BY <1>2, <1>5
      <4>1. j \in 1 .. lw /\ i = lr - len + j /\ len + i = lr + j
        BY <4>0, <1>5, <3>2
      <4> HIDE DEF j
      <4>2. Coming'[lr - len + j] = wire[j] /\ Coming[lr + j] = wire[j]
        BY <1>5, <2>2, <4>1
      <4> QED
        BY <4>1, <4>2
    <3>3. i <= lr - len \/ i > lr - len
      BY <1>2, <1>5
    <3> QED
      BY <3>1, <3>2, <3>3
  <2>4. Len(Coming') = lc - len /\ lc - len \in Nat
    BY <1>2, <1>5, <2>2
  <2> QED
    BY <2>3, <2>4
<1>8. PacketsWhole'
  <2>1. lc - len > 0 => Coming'[1].at = 1
    BY <1>2, <1>3, <1>5, <1>7
  <2>2. ASSUME NEW i \in 1 .. lc - len, Coming'[i].at = 1
        PROVE  LET m == Coming'[i].packet  ln == sent[m].len IN
               /\ i + ln - 1 <= lc - len
               /\ \A k \in 1 .. ln : Coming'[i + k - 1] = [packet |-> m, at |-> k]
               /\ i + ln <= lc - len => Coming'[i + ln].at = 1
    <3> DEFINE m == Coming[len + i].packet
               ln == sent[m].len
    <3>1. len + i \in 1 .. lc /\ Coming'[i] = Coming[len + i] /\ Coming[len + i].at = 1
      <4>1. len + i \in 1 .. lc
        <5>1. len \in Nat /\ lc \in Nat
          BY <1>2, <1>5
        <5> QED
          BY <5>1, <1>7
      <4>2. Coming'[i] = Coming[len + i]
        BY <1>7
      <4> QED
        BY <2>2, <4>1, <4>2
    <3>2. ln \in Nat
      <4>1. m \in DOMAIN sent
        <5>1. Coming[len + i] \in ByteType
          BY <1>5, <3>1
        <5> QED
          BY <5>1 DEF ByteType
      <4> QED
        BY <4>1, PushesAreNumbers
    <3>3. /\ len + i + ln - 1 <= lc
          /\ \A k \in 1 .. ln : Coming[len + i + k - 1] = [packet |-> m, at |-> k]
          /\ len + i + ln <= lc => Coming[len + i + ln].at = 1
      BY <1>5, <3>1 DEF PacketsWhole
    <3> HIDE DEF m, ln
    <3>4. ASSUME NEW k \in 1 .. ln PROVE Coming'[i + k - 1] = [packet |-> m, at |-> k]
      <4>1. i + k - 1 \in 1 .. lc - len /\ len + (i + k - 1) = len + i + k - 1
        BY <1>2, <1>5, <3>2, <3>3
      <4> QED
        BY <1>7, <3>3, <4>1
    <3>5. i + ln <= lc - len => Coming'[i + ln].at = 1
      <4> SUFFICES ASSUME i + ln <= lc - len PROVE Coming'[i + ln].at = 1
        OBVIOUS
      <4>1. /\ i + ln \in 1 .. lc - len /\ len + (i + ln) = len + i + ln
            /\ len + i + ln <= lc
        BY <1>2, <1>5, <3>2
      <4> QED
        BY <1>7, <3>3, <4>1
    <3>6. i + ln - 1 <= lc - len
      BY <1>2, <1>5, <3>2, <3>3
    <3> QED
      BY <3>1, <3>4, <3>5, <3>6 DEF m, ln
  <2> QED
    BY <1>6, <1>7, <2>1, <2>2 DEF PacketsWhole
<1>9. SubSeq(recvBuf, 1, len) = Bytes(n, len)
  <2>1. len \in 0 .. Len(recvBuf) /\ recvBuf \in Seq(ByteType)
    BY <1>1, <1>2 DEF ByteTypes
  <2>2. /\ SubSeq(recvBuf, 1, len) \in Seq(ByteType) /\ Len(SubSeq(recvBuf, 1, len)) = len
        /\ \A i \in 1 .. len : SubSeq(recvBuf, 1, len)[i] = recvBuf[i]
    BY <2>1, Cut
  <2>3. /\ Bytes(n, len) \in Seq(ByteType) /\ Len(Bytes(n, len)) = len
        /\ \A i \in 1 .. len : Bytes(n, len)[i] = [packet |-> n, at |-> i]
    <3>1. \A i \in 1 .. len : [packet |-> n, at |-> i] \in ByteType
      BY <1>2 DEF ByteType
    <3> QED
      BY <1>2, <3>1 DEF Bytes
  <2> QED
    BY <1>3, <2>2, <2>3, SeqEqual
<1>10. ASSUME NEW m \in DOMAIN sent, m # n PROVE Arrived(m)' <=> Arrived(m)
  <2>1. Arrived(m) <=> \A i \in 1 .. lc : Coming[i].packet # m
    BY <1>5
  <2>2. Arrived(m)' <=> \A i \in 1 .. lc - len : Coming'[i].packet # m
    BY <1>4, <1>7, ComingAtNext
  <2>3. ASSUME NEW i \in 1 .. lc, Coming[i].packet = m
        PROVE  \E j \in 1 .. lc - len : Coming'[j].packet = m
    <3> DEFINE j == i - len
    <3>1. ~(i \in 1 .. len)
      <4>1. i \in 1 .. len => Coming[i] = [packet |-> n, at |-> i]
        BY <1>3
      <4>2. i \in 1 .. len => Coming[i].packet = n
        BY <4>1
      <4> QED
        BY <1>10, <2>3, <4>2
    <3>2. j \in 1 .. lc - len /\ i = len + j
      BY <1>2, <1>5, <3>1
    <3> HIDE DEF j
    <3>3. Coming'[j] = Coming[len + j]
      BY <1>7, <3>2
    <3> QED
      BY <2>3, <3>2, <3>3
  <2>4. \A i \in 1 .. lc - len : len + i \in 1 .. lc /\ Coming'[i] = Coming[len + i]
    BY <1>2, <1>5, <1>7
  <2> QED
    BY <2>1, <2>2, <2>3, <2>4
<1>11. ~Arrived(n)
  <2>1. Coming[1] = [packet |-> n, at |-> 1] /\ 1 \in 1 .. lc
    BY <1>2, <1>3, <1>5
  <2> QED
    BY <1>5, <2>1
<1> QED
  BY <1>1, <1>2, <1>8, <1>9, <1>10, <1>11 DEF n

\* The packet that was cut off is not coming any more.
LEMMA CutArrived ==
    ASSUME ByteTypes, BytesInOrder, NEW len \in Nat, Dropped(len), Valid(recvBuf, len)
    PROVE  \A n : n = recvBuf[1].packet => Arrived(n)'
<1> SUFFICES ASSUME NEW n, n = recvBuf[1].packet PROVE Arrived(n)'
  OBVIOUS
<1>1. AheadNext(recvBuf[1].packet)
  BY WholePacket
<1>2. ByteTypes' /\ sent' = sent /\ Len(sent) \in Nat /\ DOMAIN sent = 1 .. Len(sent)
  BY BytesDropped, PushesAreNumbers DEF Dropped
<1>3. ASSUME NEW b \in {wire', recvBuf'}, NEW i \in DOMAIN b PROVE b[i].packet # n
  <2>1. n < b[i].packet
    BY <1>1, <1>3 DEF AheadNext
  <2>2. b \in Seq(ByteType') /\ i \in 1 .. Len(b)
    BY <1>2 DEF ByteTypes
  <2>3. b[i].packet \in Int
    <3>1. b[i] \in ByteType'
      BY <2>2, ElementOfSeq
    <3> QED
      BY <1>2, <3>1 DEF ByteType
  <2> QED
    BY <2>1, <2>3
<1> QED
  BY <1>3 DEF Arrived

-----------------------------------------------------------------------------
(***************************************************************************)
(* Each step keeps the stream.                                             *)
(***************************************************************************)
LEMMA StreamSame ==
    ASSUME StreamInv, status' \in {"READY", status},
           UNCHANGED <<encrypted, live, auto, dirty, session, sent, wire, recvBuf, parsing,
                       current, given>>
    PROVE  StreamInv'
<1>1. PacketsWhole' <=> PacketsWhole
  BY DEF PacketsWhole, Coming
<1>2. Cutting' <=> Cutting
  BY DEF Cutting
<1>3. GivenAll' <=> GivenAll
  BY DEF GivenAll, Pushes, OnSession, Arrived
<1> QED
  BY <1>1, <1>2, <1>3 DEF StreamInv

\* A connection that is gone, or that the user has closed, promises nothing.
LEMMA StreamEnds ==
    ASSUME StreamInv, ~live' \/ ~auto', UNCHANGED <<sent, session>>
    PROVE  StreamInv'
BY DEF StreamInv

LEMMA ConnectStream == PushInv /\ StreamInv /\ Connect => StreamInv'
<1> SUFFICES ASSUME PushInv, StreamInv, Connect PROVE StreamInv'
  OBVIOUS
<1>1. /\ ByteTypes /\ ByteTypes' /\ session \in Nat
      /\ \A n \in DOMAIN sent : sent[n] \in PacketType
  <2>1. ByteTypes /\ session \in Nat
    BY Types DEF PushInv, ConnTypes
  <2> QED
    BY <2>1, PushesAreNumbers DEF Connect, ByteTypes, ByteType
<1>2. status' = "CONNECTED" /\ session' = session + 1 /\ sent' = sent
  BY DEF Connect
<1>3. ASSUME NEW n \in DOMAIN sent
      PROVE  sent[n].session <= session /\ sent[n].session \in Nat
  BY <1>1 DEF StreamInv, PacketType, Sessions
<1>4. ASSUME ~dirty' PROVE PacketsWhole' /\ Cutting' /\ GivenAll'
  <2>1. recvBuf' = <<>> /\ wire' = <<>>
    BY <1>4 DEF PushInv, Connection, Connect
  <2>2. Len(Coming') = 0
    BY <1>1, <2>1, ComingAtNext
  <2>3. PacketsWhole' /\ Cutting'
    BY <2>1, <2>2 DEF PacketsWhole, Cutting
  <2>4. given'[current'] = <<>>
    BY DEF PushInv, OfSession, Connect, evars
  <2>5. OnSession(session)' = {}
    BY <1>1, <1>2, <1>3 DEF OnSession
  <2> QED
    BY <2>3, <2>4, <2>5 DEF GivenAll
<1>5. \A n \in DOMAIN sent' : sent'[n].session <= session'
  BY <1>1, <1>2, <1>3
<1> QED
  BY <1>2, <1>4, <1>5 DEF StreamInv

LEMMA GatewaySendStream == PushInv /\ PushInv' /\ StreamInv /\ GatewaySend => StreamInv'
<1> SUFFICES ASSUME PushInv, PushInv', StreamInv, GatewaySend PROVE StreamInv'
  OBVIOUS
<1>1. PICK body \in BodyLens :
         /\ sent' = Append(sent, [session |-> session, push |-> OnSession(session) # {},
                                  len |-> HeadLen + body])
         /\ wire' = wire \o Bytes(Len(sent) + 1, HeadLen + body)
  BY DEF GatewaySend
<1>2. UNCHANGED <<encrypted, status, auto, live, session, recvBuf, parsing, dirty, current,
                  given>>
  BY DEF GatewaySend, cvars, evars
<1>3. ByteTypes /\ ByteTypes' /\ session \in Nat
  <2>1. ByteTypes /\ session \in Nat
    BY Types DEF PushInv, ConnTypes
  <2>2. PushTypeOK'
    BY DEF PushInv
  <2>3. ByteTypes'
    BY <2>2 DEF PushTypeOK, ByteTypes
  <2> QED
    BY <2>1, <2>3
<1>4. PICK m0 \in Nat : m0 = Len(sent) + 1 /\ DOMAIN sent = 1 .. m0 - 1
  <2>1. Len(sent) \in Nat /\ DOMAIN sent = 1 .. Len(sent)
    BY <1>3, PushesAreNumbers
  <2>2. Len(sent) + 1 \in Nat /\ Len(sent) + 1 - 1 = Len(sent)
    BY <2>1
  <2> QED
    BY <2>1, <2>2
<1>5. /\ DOMAIN sent' = 1 .. m0 /\ sent'[m0].session = session
      /\ \A n \in 1 .. m0 - 1 : sent'[n] = sent[n]
  BY <1>1, <1>3, <1>4 DEF ByteTypes
<1>6. /\ PacketsWhole => PacketsWhole'
      /\ \A m \in DOMAIN sent : Arrived(m)' <=> Arrived(m)
      /\ ~Arrived(m0)'
  <2> DEFINE p == [session |-> session, push |-> OnSession(session) # {},
                   len |-> HeadLen + body]
  <2>1. p.len = HeadLen + body /\ HeadLen + body \in Nat \ {0}
    OBVIOUS
  <2> HIDE DEF p
  <2>2. sent' = Append(sent, p) /\ wire' = wire \o Bytes(m0, HeadLen + body)
    BY <1>1, <1>4 DEF p
  <2> QED
    BY <1>2, <1>3, <1>4, <2>1, <2>2, SentWhole
<1>7. \A n \in DOMAIN sent' : sent'[n].session <= session'
  BY <1>2, <1>3, <1>4, <1>5 DEF StreamInv
<1>8. Cutting => Cutting'
  <2>1. ASSUME recvBuf # <<>> PROVE recvBuf[1].packet \in DOMAIN sent
    <3>1. recvBuf[1] \in ByteType
      BY <1>3, <2>1, ElementOfSeq DEF ByteTypes
    <3> QED
      BY <3>1 DEF ByteType
  <2> QED
    BY <1>2, <1>4, <1>5, <2>1 DEF Cutting
<1>9. GivenAll => GivenAll'
  <2>1. ASSUME NEW n
        PROVE  n \in Pushes' /\ n \in OnSession(session)' /\ Arrived(n)'
                  <=> n \in Pushes /\ n \in OnSession(session) /\ Arrived(n)
    <3>1. CASE n \in DOMAIN sent
      BY <1>2, <1>4, <1>5, <1>6, <3>1 DEF Pushes, OnSession
    <3>2. CASE n \notin DOMAIN sent
      <4>1. n \in DOMAIN sent' => n = m0
        BY <1>4, <1>5, <3>2
      <4> QED
        BY <1>6, <3>2, <4>1 DEF Pushes, OnSession
    <3> QED
      BY <3>1, <3>2
  <2> QED
    BY <1>2, <2>1 DEF GivenAll
<1> QED
  BY <1>2, <1>6, <1>7, <1>8, <1>9 DEF StreamInv

LEMMA OnRecvStream ==
    ASSUME PushInv, StreamInv, NEW n \in 1 .. Len(wire), OnRecv(n)
    PROVE  StreamInv'
<1>1. /\ ByteTypes /\ BytesInOrder /\ n \in Nat /\ Taken(n)
      /\ UNCHANGED <<encrypted, status, auto, live, session, sent, dirty, current, given>>
  <2>1. ByteTypes /\ BytesInOrder
    BY Types DEF PushInv
  <2> QED
    BY <2>1, ComingAt DEF OnRecv, Taken, cvars, evars
<1>2. ASSUME live, auto, ~dirty
      PROVE  PacketsWhole' /\ Cutting' /\ (~encrypted => GivenAll')
  <2>1. recvBuf' = recvBuf \o SubSeq(wire, 1, n) /\ parsing' = TRUE
    BY <1>2 DEF OnRecv, StreamInv
  <2>2. Coming' = Coming /\ ByteTypes'
    BY <1>1, <2>1, ReadMoves, BytesTaken
  <2>3. PacketsWhole'
    BY <1>1, <1>2, <2>2 DEF StreamInv, PacketsWhole
  <2>4. \A m : Arrived(m)' <=> Arrived(m)
    BY <1>1, <2>2, ComingAt, ComingAtNext
  <2>5. ~encrypted => GivenAll'
    BY <1>1, <1>2, <2>4 DEF StreamInv, GivenAll, Pushes, OnSession
  <2> QED
    BY <2>1, <2>3, <2>5 DEF Cutting
<1> QED
  BY <1>1, <1>2 DEF StreamInv

LEMMA CutPacketStream == PushInv /\ StreamInv /\ CutPacket => StreamInv'
<1> SUFFICES ASSUME PushInv, StreamInv, CutPacket PROVE StreamInv'
  OBVIOUS
<1>1. PICK len \in Cuts(recvBuf) :
         /\ recvBuf' = SubSeq(recvBuf, len + 1, Len(recvBuf))
         /\ IF Valid(recvBuf, len) THEN Handle(recvBuf[1].packet)
            ELSE UNCHANGED <<queue, given, fetched>>
  BY DEF CutPacket
<1>2. UNCHANGED <<encrypted, status, auto, live, session, sent, wire, parsing, dirty,
                  current>> /\ parsing
  BY DEF CutPacket
<1>3. ByteTypes /\ ThreadTypes /\ BytesInOrder /\ OfSession
  BY Types DEF PushInv
<1>4. ASSUME live, auto, ~dirty
      PROVE  PacketsWhole' /\ Cutting' /\ (~encrypted => GivenAll')
  <2> DEFINE n == recvBuf[1].packet
             now == given[current]
  <2>1. PacketsWhole /\ (~encrypted => GivenAll)
    BY <1>4 DEF StreamInv
  <2>2. recvBuf # <<>> /\ 1 \in DOMAIN recvBuf
    <3>1. Len(recvBuf) > HeadLen /\ Len(recvBuf) \in Nat
      BY <1>3, ComingAt DEF Cuts
    <3> QED
      BY <1>3, <3>1, ComingAt
  <2>3. Dropped(len)
    <3>1. /\ len = sent[n].len /\ len <= Len(recvBuf)
          /\ sent[n].len \in Nat /\ HeadLen < sent[n].len
      BY <1>3, <2>1, <2>2, FrontCuts, FrontPacket
    <3>2. len \in 1 .. Len(recvBuf)
      BY <1>3, <3>1, ComingAt
    <3> QED
      BY <1>1, <1>2, <3>2 DEF Dropped
  <2>4. /\ n \in DOMAIN sent /\ PacketsWhole'
        /\ SubSeq(recvBuf, 1, len) = Bytes(n, sent[n].len)
        /\ \A m \in DOMAIN sent : m # n => (Arrived(m)' <=> Arrived(m))
        /\ ~Arrived(n)
    BY <1>3, <2>1, <2>3, CutWhole
  <2>5. sent[n].session = session
    BY <1>3, <1>4, <2>2 DEF OfSession
  <2>6. len \in Nat
    BY <2>3, <1>3, ComingAt DEF Dropped
  <2>7. ASSUME ~encrypted PROVE GivenAll'
    <3>1. Valid(recvBuf, len)
      BY <2>4, <2>7 DEF Valid
    <3>2. Handle(n)
      BY <1>1, <3>1
    <3>3. \A m : m = n => Arrived(m)'
      BY <1>3, <2>3, <2>6, <3>1, CutArrived
    <3>4. now \in Seq(Pushes)
      BY <1>3 DEF ThreadTypes
    <3>5. {now[i] : i \in DOMAIN now}
             = {m \in Pushes \intersect OnSession(session) : Arrived(m)}
      BY <2>1, <2>7 DEF GivenAll
    <3>6. Pushes' = Pushes /\ OnSession(session)' = OnSession(session)
      BY <1>2 DEF Pushes, OnSession
    <3>7. CASE sent[n].push
      <4>1. n \in Pushes /\ n \in OnSession(session)
        BY <2>4, <2>5, <3>7 DEF Pushes, OnSession
      <4>2. given'[current'] = Append(now, n)
        BY <1>2, <1>3, <3>2, <3>7 DEF Handle, ThreadTypes
      <4> HIDE DEF n, now
      <4>3. {Append(now, n)[i] : i \in DOMAIN Append(now, n)}
               = {now[i] : i \in DOMAIN now} \union {n}
        <5>1. PICK l \in Nat : DOMAIN now = 1 .. l
          BY <3>4
        <5>2. /\ DOMAIN Append(now, n) = 1 .. l + 1 /\ Append(now, n)[l + 1] = n
              /\ \A i \in 1 .. l : Append(now, n)[i] = now[i]
          BY <3>4, <4>1, <5>1
        <5> QED
          BY <5>1, <5>2
      <4>4. ASSUME NEW m
            PROVE  m \in Pushes /\ m \in OnSession(session) /\ Arrived(m)'
                      <=> (m \in Pushes /\ m \in OnSession(session) /\ Arrived(m)) \/ m = n
        BY <2>4, <3>3, <4>1 DEF Pushes
      <4> QED
        BY <3>5, <3>6, <4>2, <4>3, <4>4 DEF GivenAll
    <3>8. CASE ~sent[n].push
      <4>1. given'[current'] = now /\ n \notin Pushes
        BY <1>2, <3>2, <3>8 DEF Handle, Pushes
      <4> HIDE DEF n, now
      <4>2. \A m \in Pushes : Arrived(m)' <=> Arrived(m)
        BY <2>4, <4>1 DEF Pushes
      <4> QED
        BY <3>5, <3>6, <4>1, <4>2 DEF GivenAll
    <3> QED
      BY <3>7, <3>8
  <2> QED
    BY <1>2, <2>4, <2>7 DEF Cutting
<1> QED
  BY <1>2, <1>4 DEF StreamInv

LEMMA AwaitBytesStream == PushInv /\ StreamInv /\ AwaitBytes => StreamInv'
<1> SUFFICES ASSUME PushInv, StreamInv, AwaitBytes PROVE StreamInv'
  OBVIOUS
<1>1. /\ ByteTypes
      /\ UNCHANGED <<encrypted, status, auto, live, session, sent, wire, recvBuf, dirty,
                     current, given>>
  BY Types DEF PushInv, AwaitBytes, cvars, evars
<1>2. PacketsWhole' <=> PacketsWhole
  BY <1>1 DEF PacketsWhole, Coming
<1>3. GivenAll' <=> GivenAll
  BY <1>1 DEF GivenAll, Pushes, OnSession, Arrived
<1>4. ASSUME PacketsWhole PROVE Cutting'
  <2> SUFFICES ASSUME recvBuf # <<>>
               PROVE  Len(recvBuf) < sent[recvBuf[1].packet].len
    BY <1>1 DEF Cutting
  <2>1. Len(recvBuf) \in Nat /\ sent[recvBuf[1].packet].len \in Nat
    BY <1>1, <1>4, ComingAt, FrontPacket
  <2>2. ~(Len(recvBuf) >= sent[recvBuf[1].packet].len)
    BY <1>1, <1>4, FrontCuts DEF AwaitBytes
  <2> QED
    BY <2>1, <2>2
<1> QED
  BY <1>1, <1>2, <1>3, <1>4 DEF StreamInv

LEMMA StreamNext == PushInv /\ PushInv' /\ StreamInv /\ [PushNext]_pushVars => StreamInv'
<1> SUFFICES ASSUME PushInv, PushInv', StreamInv, [PushNext]_pushVars PROVE StreamInv'
  OBVIOUS
<1> USE DEF cvars, bvars, evars
<1>1. CASE Connect
  BY <1>1, ConnectStream
<1>2. CASE ConnectFail
  BY <1>2, StreamEnds DEF ConnectFail
<1>3. CASE Disconnect
  BY <1>3, StreamEnds DEF Disconnect
<1>4. CASE Close
  BY <1>4, StreamEnds DEF Close
<1>5. CASE GatewaySend
  BY <1>5, GatewaySendStream
<1>6. CASE CutPacket
  BY <1>6, CutPacketStream
<1>7. CASE AwaitBytes
  BY <1>7, AwaitBytesStream
<1>8. ASSUME NEW s \in Sessions, HandleInitConnectRsp(s) PROVE StreamInv'
  BY <1>8, StreamSame DEF HandleInitConnectRsp
<1>9. ASSUME NEW on \in BOOLEAN, SetProcRun(on) PROVE StreamInv'
  BY <1>9, StreamSame DEF SetProcRun
<1>10. ASSUME NEW n \in 1 .. Len(wire), OnRecv(n) PROVE StreamInv'
  BY <1>10, OnRecvStream
<1>11. ASSUME NEW e \in Executors, Step(e) PROVE StreamInv'
  <2>1. CASE Get(e)
    BY <2>1, StreamSame DEF Get
  <2>2. CASE Check(e)
    BY <2>2, StreamSame DEF Check
  <2>3. CASE Call(e)
    BY <2>3, StreamSame DEF Call
  <2> QED
    BY <1>11, <2>1, <2>2, <2>3 DEF Step
<1>12. CASE UNCHANGED pushVars
  BY <1>12, StreamSame DEF pushVars
<1> QED
  BY <1>1, <1>2, <1>3, <1>4, <1>5, <1>6, <1>7, <1>8, <1>9, <1>10, <1>11, <1>12
     DEF PushNext

LEMMA StreamKept == PushSpec => []StreamInv
<1>1. PushInit => StreamInv
  BY DEF PushInit, StreamInv
<1>2. PushInv /\ StreamInv /\ [PushNext]_pushVars => StreamInv'
  BY NextInvariant, StreamNext
<1> QED
  BY <1>1, <1>2, Invariance, PTL DEF PushSpec

\* A session that began with an empty receive buffer loses no byte: its push thread
\* is given every push of it that has arrived whole, and less than a packet waits
\* in the buffer (open_context_base.py, _handle_recv; utils.py, parse_rsp).
THEOREM NothingLost == PushSpec => []StreamIntact
<1>1. ASSUME PushInv, StreamInv PROVE StreamIntact
  <2> SUFFICES ASSUME live, auto, ~dirty, ~encrypted, ~parsing
               PROVE  /\ GivenAll
                      /\ recvBuf # <<>> => recvBuf[Len(recvBuf)].at
                                               < sent[recvBuf[1].packet].len
    BY DEF StreamIntact, GivenAll
  <2>1. ByteTypes /\ PacketsWhole /\ Cutting /\ GivenAll
    BY <1>1, Types DEF PushInv, StreamInv
  <2>2. ASSUME recvBuf # <<>>
        PROVE  recvBuf[Len(recvBuf)].at < sent[recvBuf[1].packet].len
    <3> DEFINE l == Len(recvBuf)
               n == recvBuf[1].packet
               len == sent[n].len
    <3>1. l \in Nat /\ l < len /\ len \in Nat
      BY <2>1, <2>2, ComingAt, FrontPacket DEF Cutting
    <3>2. l \in 1 .. l
      BY <2>1, <2>2, <3>1 DEF ByteTypes
    <3>3. \A k \in 1 .. l : k <= len => recvBuf[k] = [packet |-> n, at |-> k]
      BY <2>1, <2>2, FrontPacket
    <3> HIDE DEF l, n, len
    <3>4. recvBuf[l] = [packet |-> n, at |-> l]
      BY <3>1, <3>2, <3>3
    <3>5. recvBuf[l].at = l
      BY <3>4
    <3> QED
      BY <3>1, <3>5 DEF l, n, len
  <2> QED
    BY <2>1, <2>2
<1> QED
  BY <1>1, Invariance, StreamKept, PTL

-----------------------------------------------------------------------------
(***************************************************************************)
(* The two directions together, as module MCTransport runs them.           *)
(***************************************************************************)
\* A behaviour of the two directions is one of each: what is proved of the send path
\* and of the push path is true of a connection that does both (network_manager.py,
\* do_send and _on_read, share nothing but the socket).
THEOREM BothDirections == Spec => SendSpec /\ PushSpec
<1>1. Init => SendInit /\ PushInit
  BY DEF Init
<1>2. [Next]_allVars => [SendNext]_sendVars /\ [PushNext]_pushVars
  BY DEF Next, allVars
<1> QED
  BY <1>1, <1>2, PTL DEF Spec, SendSpec, PushSpec

\* Bytes, packets, queues and threads of both directions keep their types.
THEOREM TransportTypeCorrect == Spec => []TypeOK
<1>1. SendTypeOK /\ PushTypeOK => TypeOK
  BY DEF TypeOK
<1> QED
  BY <1>1, BothDirections, SendTypeCorrect, PushTypeCorrect, PTL

=============================================================================
