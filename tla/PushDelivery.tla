---------------------------- MODULE PushDelivery ----------------------------
(***************************************************************************)
(* The way of a pushed packet from the gateway to the user's handler: the  *)
(* bytes of a connection, the receive buffer they are cut into packets     *)
(* from (open_context_base.py, _handle_recv; utils.py, parse_rsp), the     *)
(* queue and the thread that call the handlers (callback_executor.py), and *)
(* what becomes of all this when the session is replaced.                  *)
(*                                                                         *)
(* A packet is the number under which the gateway sent it, and a byte is   *)
(* the packet it belongs to and its place there; the unit of both is small *)
(* enough for a read to end inside a head. The life cycle of the           *)
(* connection is that of OpenContext, reduced to what this path sees of it.*)
(***************************************************************************)
EXTENDS Integers, Sequences, FiniteSets

CONSTANTS
    HeadLen,       \* length of a packet's head
    BodyLens,      \* lengths a body may have
    Garbage,       \* lengths a packet may seem to have if its head is none
    MaxSessions,   \* bound: connections opened
    MaxPackets,    \* bound: packets the gateway sends
    MaxExecutors   \* bound: executors started

ASSUME PushDeliveryAssumption ==
    /\ HeadLen \in Nat \ {0} /\ BodyLens \subseteq Nat \ {0}
    /\ Garbage \subseteq {n \in Nat : n >= HeadLen}
    /\ MaxSessions \in Nat /\ MaxPackets \in Nat /\ MaxExecutors \in Nat \ {0}

Executors == 1 .. MaxExecutors
Sessions  == 1 .. MaxSessions
Nothing   == 0      \* the item that wakes a thread to end it; no item in hand

VARIABLES
    encrypted, \* is_encrypt(), chosen when the context is built
    status,    \* _status: "DOWN", "CONNECTED", "READY", "CLOSING", "CLOSED"
    auto,      \* _auto_reconnect
    live,      \* the connection _conn_id stands
    session,   \* connections opened so far
    key,       \* _opend_conn_id, as the session it was given on, or 0
    fetched,   \* sessions whose InitConnect reply a connecting thread holds
    procRun,   \* _proc_run
    sent,      \* packets the gateway has sent: [session, push, len]
    wire,      \* bytes on the way
    recvBuf,   \* _recv_buf
    parsing,   \* the network thread is in _handle_recv, with the lock
    current,   \* _callback_executor
    queue,     \* the items of each executor
    quit,      \* its _quit
    pc,        \* its thread: "none", "get", "check", "call", "ended"
    hand,      \* the item its thread has taken
    given,     \* history: pushes put into its queue
    shown,     \* history: pushes its thread has called a handler with
    late,      \* history: how many of those after it was told to quit
    dirty      \* history: a connection was opened with bytes in _recv_buf

cvars == <<encrypted, status, auto, live, session, key, fetched, procRun>>
bvars == <<sent, wire, recvBuf, parsing, dirty>>
evars == <<current, queue, quit, pc, hand, given, shown, late>>
pushVars  == <<cvars, bvars, evars>>

PushInit ==
    /\ encrypted \in BOOLEAN
    /\ status = "DOWN" /\ auto = TRUE /\ live = FALSE
    /\ session = 0 /\ key = 0 /\ fetched = {} /\ procRun = TRUE
    /\ sent = <<>> /\ wire = <<>> /\ recvBuf = <<>> /\ parsing = FALSE
    /\ dirty = FALSE
    /\ current = 1
    /\ queue = [e \in Executors |-> <<>>]
    /\ quit = [e \in Executors |-> FALSE]
    /\ pc = [e \in Executors |-> IF e = 1 THEN "get" ELSE "none"]
    /\ hand = [e \in Executors |-> Nothing]
    /\ given = [e \in Executors |-> <<>>]
    /\ shown = [e \in Executors |-> <<>>]
    /\ late = [e \in Executors |-> 0]

-----------------------------------------------------------------------------
(***************************************************************************)
(* The connection.                                                         *)
(***************************************************************************)
\* Variant: the new executor takes over the thread and queue of the old one.
CloseExecutor_Reuse(replace) ==
    IF replace THEN UNCHANGED <<current, queue, quit, pc>>
    ELSE /\ quit' = [quit EXCEPT ![current] = TRUE]
         /\ queue' = [queue EXCEPT ![current] = Append(@, Nothing)]
         /\ UNCHANGED <<pc, current>>

\* Variant: the thread is told to quit and not woken.
CloseExecutor_NotWoken(replace) ==
    /\ quit' = [quit EXCEPT ![current] = TRUE]
    /\ IF replace
       THEN /\ current < MaxExecutors /\ current' = current + 1
            /\ pc' = [pc EXCEPT ![current + 1] = "get"]
       ELSE UNCHANGED <<current, pc>>
    /\ UNCHANGED queue

\* Variant: the marker is put and the flag is forgotten.
CloseExecutor_NoFlag(replace) ==
    /\ queue' = [queue EXCEPT ![current] = Append(@, Nothing)]
    /\ IF replace
       THEN /\ current < MaxExecutors /\ current' = current + 1
            /\ pc' = [pc EXCEPT ![current + 1] = "get"]
       ELSE UNCHANGED <<current, pc>>
    /\ quit' = quit

\* _close_callback_executor and CallbackExecutor.close.
CloseExecutor(replace) ==
    /\ quit' = [quit EXCEPT ![current] = TRUE]
    /\ queue' = [queue EXCEPT ![current] = Append(@, Nothing)]
    /\ IF replace
       THEN /\ current < MaxExecutors /\ current' = current + 1
            /\ pc' = [pc EXCEPT ![current + 1] = "get"]
       ELSE UNCHANGED <<current, pc>>

\* A connection is made: on_connect. Nobody empties _recv_buf.
Connect ==
    /\ ~parsing /\ auto /\ ~live /\ session < MaxSessions
    /\ status' = "CONNECTED" /\ live' = TRUE /\ session' = session + 1
    /\ dirty' = (dirty \/ recvBuf # <<>>)
    /\ UNCHANGED <<encrypted, auto, key, fetched, procRun, sent, wire, recvBuf, parsing,
                   evars>>

\* The connection could not be made: the end of _reconnect. (A connection that
\* stands and whose InitConnect is refused is in OpenContext.)
ConnectFail ==
    /\ ~parsing /\ auto /\ ~live /\ session < MaxSessions
    /\ CloseExecutor(TRUE)
    /\ status' = "DOWN" /\ key' = 0
    /\ UNCHANGED <<encrypted, auto, live, session, fetched, procRun, bvars, hand, given,
                   shown, late>>

\* _handle_init_connect_rsp, by the thread that holds the reply.
HandleInitConnectRsp(s) ==
    /\ ~parsing /\ s \in fetched
    /\ fetched' = fetched \ {s}
    /\ key' = s /\ status' = "READY"
    /\ UNCHANGED <<encrypted, auto, live, session, procRun, bvars, evars>>

\* on_disconnect: what was on the way is lost.
Disconnect ==
    /\ ~parsing /\ live
    /\ live' = FALSE /\ wire' = <<>> /\ key' = 0
    /\ status' = IF auto THEN "DOWN" ELSE "CLOSED"
    /\ CloseExecutor(auto)
    /\ UNCHANGED <<encrypted, auto, session, fetched, procRun, sent, recvBuf, parsing, dirty,
                   hand, given, shown, late>>

\* close() of the user; the socket is shut by the network thread, Disconnect.
Close ==
    /\ ~parsing /\ auto
    /\ auto' = FALSE /\ key' = 0
    /\ IF status \in {"CONNECTED", "READY"}
       THEN /\ status' = "CLOSING"
            /\ UNCHANGED <<current, queue, quit, pc>>
       ELSE /\ status' = "CLOSED" /\ CloseExecutor(FALSE)
    /\ UNCHANGED <<encrypted, live, session, fetched, procRun, bvars, hand, given, shown, late>>

\* start() and stop().
SetProcRun(on) ==
    /\ ~parsing /\ procRun = ~on /\ procRun' = on
    /\ UNCHANGED <<encrypted, status, auto, live, session, key, fetched, bvars, evars>>

-----------------------------------------------------------------------------
(***************************************************************************)
(* Bytes.                                                                  *)
(***************************************************************************)
Bytes(n, len) == [i \in 1 .. len |-> [packet |-> n, at |-> i]]

OnSession(s) == {n \in DOMAIN sent : sent[n].session = s}

\* The gateway answers InitConnect first and pushes from then on.
GatewaySend ==
    /\ live /\ Len(sent) < MaxPackets
    /\ \E body \in BodyLens :
          /\ sent' = Append(sent, [session |-> session,
                                   push    |-> OnSession(session) # {},
                                   len     |-> HeadLen + body])
          /\ wire' = wire \o Bytes(Len(sent) + 1, HeadLen + body)
    /\ UNCHANGED <<cvars, recvBuf, parsing, dirty, evars>>

\* _on_read and on_recv: a read returns any number of bytes.
OnRecv(n) ==
    /\ ~parsing /\ live /\ n \in 1 .. Len(wire)
    /\ wire' = SubSeq(wire, n + 1, Len(wire))
    /\ IF status \in {"CONNECTED", "READY"}
       THEN recvBuf' = recvBuf \o SubSeq(wire, 1, n) /\ parsing' = TRUE
       ELSE UNCHANGED <<recvBuf, parsing>>
    /\ UNCHANGED <<cvars, sent, dirty, evars>>

\* The lengths the packet at the front of b may have, as its head gives them: the
\* length it has, or anything if the bytes there are not a head.
TotalLens(b) ==
    IF \A i \in 1 .. HeadLen : b[i] = [packet |-> b[1].packet, at |-> i]
    THEN {sent[b[1].packet].len} ELSE Garbage

\* Variant: a packet is cut only when the next one has begun.
Cuts_NextBegun(b) ==
    IF Len(b) <= HeadLen THEN {} ELSE {n \in TotalLens(b) : Len(b) > n}

\* parse_rsp: the lengths at which a packet may be cut; with none, it says
\* NOT_ENOUGH_DATA.
Cuts(b) ==
    IF Len(b) <= HeadLen THEN {} ELSE {n \in TotalLens(b) : Len(b) >= n}

\* The digest in the head is that of the body, decrypted with the key of the
\* session (InitConnect with the RSA key).
Valid(b, len) ==
    LET n == b[1].packet IN
    /\ SubSeq(b, 1, len) = Bytes(n, sent[n].len)
    /\ ~encrypted \/ ~sent[n].push \/ key = sent[n].session

\* Variant: what is no push goes to the push thread as well.
Handle_All(n) ==
    /\ queue' = [queue EXCEPT ![current] = Append(@, n)]
    /\ given' = [given EXCEPT ![current] = Append(@, n)]
    /\ fetched' = IF sent[n].push THEN fetched ELSE fetched \union {session}

\* handle_push, or the entry of InitConnect in _req_map, which is gone with its
\* session.
Handle(n) ==
    IF sent[n].push
    THEN /\ queue' = [queue EXCEPT ![current] = Append(@, n)]
         /\ given' = [given EXCEPT ![current] = Append(@, n)]
         /\ UNCHANGED fetched
    ELSE /\ fetched' = IF sent[n].session = session THEN fetched \union {session}
                       ELSE fetched
         /\ UNCHANGED <<queue, given>>

\* One round of the loop of _handle_recv.
CutPacket ==
    /\ parsing
    /\ \E len \in Cuts(recvBuf) :
          /\ recvBuf' = SubSeq(recvBuf, len + 1, Len(recvBuf))
          /\ IF Valid(recvBuf, len) THEN Handle(recvBuf[1].packet)
             ELSE UNCHANGED <<queue, given, fetched>>
    /\ UNCHANGED <<encrypted, status, auto, live, session, key, procRun, sent, wire,
                   parsing, dirty, current, quit, pc, hand, shown, late>>

\* NOT_ENOUGH_DATA: the lock is released.
AwaitBytes ==
    /\ parsing /\ parsing' = FALSE
    /\ Len(recvBuf) > HeadLen => Cuts(recvBuf) # TotalLens(recvBuf)
    /\ UNCHANGED <<cvars, sent, wire, recvBuf, dirty, evars>>

-----------------------------------------------------------------------------
(***************************************************************************)
(* CallbackExecutor.run, and packet_callback.                              *)
(***************************************************************************)
\* Variant: the newest item is taken.
Get_Newest(e) ==
    /\ pc[e] = "get" /\ queue[e] # <<>>
    /\ queue' = [queue EXCEPT ![e] = SubSeq(@, 1, Len(@) - 1)]
    /\ LET item == queue[e][Len(queue[e])] IN
       IF quit[e] \/ item = Nothing
       THEN pc' = [pc EXCEPT ![e] = "ended"] /\ UNCHANGED hand
       ELSE pc' = [pc EXCEPT ![e] = "check"] /\ hand' = [hand EXCEPT ![e] = item]
    /\ UNCHANGED <<cvars, bvars, current, quit, given, shown, late>>

\* The item is taken and _quit is read: nobody else takes from the queue, so that
\* what comes between the two could as well come before both.
Get(e) ==
    /\ pc[e] = "get" /\ queue[e] # <<>>
    /\ queue' = [queue EXCEPT ![e] = Tail(@)]
    /\ IF quit[e] \/ Head(queue[e]) = Nothing
       THEN pc' = [pc EXCEPT ![e] = "ended"] /\ UNCHANGED hand
       ELSE /\ pc' = [pc EXCEPT ![e] = "check"]
            /\ hand' = [hand EXCEPT ![e] = Head(queue[e])]
    /\ UNCHANGED <<cvars, bvars, current, quit, given, shown, late>>

\* packet_callback drops the packet unless the session is READY, and recv_func,
\* next, unless it still is and the user has not called stop(). The thread does
\* nothing between the two, so that one step stands for both.
Check(e) ==
    /\ pc[e] = "check" /\ ~parsing
    /\ IF status = "READY" /\ procRun
       THEN /\ pc' = [pc EXCEPT ![e] = "call"]
            /\ UNCHANGED hand
       ELSE /\ pc' = [pc EXCEPT ![e] = "get"]
            /\ hand' = [hand EXCEPT ![e] = Nothing]
    /\ UNCHANGED <<cvars, bvars, current, queue, quit, given, shown, late>>

\* The thread belongs to an earlier session, or to a context that is closed.
Dismissed(e) == e # current \/ quit[e]

\* The handler is called, without the lock.
Call(e) ==
    /\ pc[e] = "call"
    /\ hand' = [hand EXCEPT ![e] = Nothing]
    /\ pc' = [pc EXCEPT ![e] = "get"]
    /\ shown' = [shown EXCEPT ![e] = Append(@, hand[e])]
    /\ late' = [late EXCEPT ![e] = @ + IF Dismissed(e) THEN 1 ELSE 0]
    /\ UNCHANGED <<cvars, bvars, current, queue, quit, given>>

Step(e) == Get(e) \/ Check(e) \/ Call(e)

PushNext ==
    \/ Connect \/ ConnectFail \/ Disconnect \/ Close \/ GatewaySend
    \/ CutPacket \/ AwaitBytes
    \/ \E s \in Sessions : HandleInitConnectRsp(s)
    \/ \E on \in BOOLEAN : SetProcRun(on)
    \/ \E n \in 1 .. Len(wire) : OnRecv(n)
    \/ \E e \in Executors : Step(e)

\* The threads of the process run.
PushFairness ==
    /\ WF_pushVars(CutPacket \/ AwaitBytes)
    /\ \A e \in Executors : WF_pushVars(Step(e))

PushSpec == PushInit /\ [][PushNext]_pushVars /\ PushFairness
-----------------------------------------------------------------------------
(***************************************************************************)
(* Properties.                                                             *)
(***************************************************************************)
\* Every variable keeps its type: in particular an executor is given nothing but
\* what the gateway has sent as pushes.
Pushes == {n \in DOMAIN sent : sent[n].push}

PacketType ==
    [session : Sessions, push : BOOLEAN, len : {HeadLen + b : b \in BodyLens}]

ByteType == [packet : DOMAIN sent, at : Nat \ {0}]

PushTypeOK ==
    /\ status \in {"DOWN", "CONNECTED", "READY", "CLOSING", "CLOSED"}
    /\ encrypted \in BOOLEAN /\ auto \in BOOLEAN /\ live \in BOOLEAN
    /\ session \in 0 .. MaxSessions /\ key \in 0 .. MaxSessions
    /\ fetched \subseteq Sessions /\ procRun \in BOOLEAN
    /\ sent \in Seq(PacketType)
    /\ wire \in Seq(ByteType) /\ recvBuf \in Seq(ByteType)
    /\ parsing \in BOOLEAN /\ dirty \in BOOLEAN
    /\ current \in Executors
    /\ queue \in [Executors -> Seq(Pushes \union {Nothing})]
    /\ quit \in [Executors -> BOOLEAN]
    /\ pc \in [Executors -> {"none", "get", "check", "call", "ended"}]
    /\ hand \in [Executors -> Pushes \union {Nothing}]
    /\ given \in [Executors -> Seq(Pushes)] /\ shown \in [Executors -> Seq(Pushes)]
    /\ late \in [Executors -> Nat]

\* The numbers in s rise; what is Nothing does not count.
InOrder(s) ==
    \A i, j \in DOMAIN s :
        i < j /\ s[i] # Nothing /\ s[j] # Nothing => s[i] < s[j]

\* A handler sees the pushes of a session in the order in which the gateway sent
\* them and none twice, wherever reads end and however connections are replaced:
\* what a thread has shown, has in hand and has queued is in that order.
ShownInOrder ==
    \A e \in Executors : InOrder(shown[e] \o <<hand[e]>> \o queue[e])

\* A session whose receive buffer was empty when it began loses no byte: what
\* its executor is given is every push of it that has arrived whole, and nothing
\* else. (With encryption, what comes before the key is known is lost.)
Arrived(n) == \A b \in {wire, recvBuf} : \A i \in DOMAIN b : b[i].packet # n

StreamIntact ==
    live /\ auto /\ ~dirty /\ ~encrypted /\ ~parsing =>
        /\ {given[current][i] : i \in DOMAIN given[current]}
               = {n \in Pushes \intersect OnSession(session) : Arrived(n)}
        /\ recvBuf # <<>> => recvBuf[Len(recvBuf)].at < sent[recvBuf[1].packet].len

\* The push thread of the present session has nothing of an earlier one.
OwnSession ==
    ~dirty => \A i \in DOMAIN given[current] :
                  sent[given[current][i]].session = session

\* The push thread of a session that has ended calls a handler once more at most,
\* with what it had in hand: the new session's thread may be calling it already.
OneLate == \A e \in Executors : late[e] <= 1

\* Push threads keep up: as long as a session lasts its pushes reach
\* packet_callback, and the thread of a session that was replaced ends, and is
\* not left behind waiting at its queue.
ThreadsKeepUp ==
    \A e \in Executors :
        (queue[e] # <<>> \/ quit[e])
            ~> IF quit[e] THEN pc[e] = "ended" ELSE queue[e] = <<>>
=============================================================================
