---------------------------- MODULE OpenContext ----------------------------
(***************************************************************************)
(* The life of one OpenContextBase: the connection state machine that the  *)
(* constructor, the reconnect timers, the network thread and the user      *)
(* drive concurrently (moomoo/common/open_context_base.py, over            *)
(* moomoo/common/network_manager.py).                                      *)
(*                                                                         *)
(* An action is one region under OpenContextBase._lock, or one piece of    *)
(* work of the network thread together with the context callback it makes: *)
(* the connection table, the sockets and the selector are touched by that  *)
(* thread alone, so nothing can be observed between the two.               *)
(*                                                                         *)
(* A request stands for the InitConnect exchange and is identified by the  *)
(* thread that sent it and the connection it was sent on; queries of users *)
(* are the subject of module Requests.                                     *)
(***************************************************************************)
EXTENDS Naturals, Sequences

CONSTANTS
    Modes,           \* ways to construct: "sync", "async" (is_async_connect)
    NumTimers,       \* bound: Timer threads alive at the same time
    MaxConn,         \* bound: connections ever opened
    MaxQueue,        \* bound: work the network thread has not got round to
    MaxFaults,       \* bound: refusals, disconnects, time-outs of the environment
    ConnectOutcomes, \* what sock.connect may do at once: "pending", "ok", "error"
    InitReplies,     \* what InitConnect may end in: "ok", "refused", "timeout"
    Callbacks,       \* what on_api_socket_reconnected may do: "returns", "raises"
    Prompt           \* a runnable thread takes its step before a timer fires

Ctor    == 0                        \* the thread inside __init__
Timers  == 1 .. NumTimers           \* threading.Timer objects
Threads == {Ctor} \union Timers
NoTimer == 0                        \* _reconnect_timer is None
Conns   == 1 .. MaxConn
NoConn  == 0                        \* _conn_id = 0

ASSUME ConstantsAssumption ==
    /\ Modes \subseteq {"sync", "async"} /\ Prompt \in BOOLEAN
    /\ NumTimers \in Nat \ {0} /\ MaxConn \in Nat /\ MaxQueue \in Nat /\ MaxFaults \in Nat
    /\ ConnectOutcomes \subseteq {"pending", "ok", "error"}
    /\ InitReplies \subseteq {"ok", "refused", "timeout"}
    /\ Callbacks \subseteq {"returns", "raises"}

VARIABLES
    status,    \* _status
    auto,      \* _auto_reconnect: FALSE from the user's close() on
    connId,    \* _conn_id
    opendId,   \* _opend_conn_id, named by the connection it was granted on
    registry,  \* keys of FutuConnMng.All_Conn_Dict
    timer,     \* _reconnect_timer
    executor,  \* the current CallbackExecutor: "open" or told to quit
    reqMap,    \* keys of _req_map
    rsp,       \* ReqInfo of every request: "pending" while its event is unset
    pc,        \* where each connecting thread is
    myConn,    \* the ConnectInfo a thread waits on in _connect_sync
    mySent,    \* the connection a thread's InitConnect was sent on
    conn,      \* NetManager: the state of every connection
    info,      \* ConnectInfo: "pending" while its event is unset
    nextConn,  \* _next_conn_id
    queue,     \* _req_queue, the work of the network thread
    inbox,     \* InitConnect requests the gateway has and has not answered
    faults     \* faults the environment has caused

ctxVars == <<status, auto, connId, opendId, registry, timer, executor>>
reqVars == <<reqMap, rsp>>
thrVars == <<pc, myConn, mySent>>
netVars == <<conn, info, nextConn, queue, inbox>>
vars    == <<ctxVars, reqVars, thrVars, netVars, faults>>

Requests == Threads \X Conns
Work     == [op : {"connect"}, conn : Conns]
            \union [op : {"send"}, conn : Conns, req : Requests]
            \union [op : {"close"}, conn : Conns \union {NoConn}, notify : BOOLEAN]

(***************************************************************************)
(* Threads inside the connecting code. "free": not running, or a Timer     *)
(* that was cancelled or has returned.                                     *)
(***************************************************************************)
Points == {"free", "start", "armed", "fired", "init", "connect", "waitConn",
           "sendInit", "waitRsp", "gotRsp", "failed"}

\* A thread that nothing keeps from taking its next step.
Runnable(t) ==
    \/ pc[t] \in {"fired", "init", "connect", "sendInit", "gotRsp", "failed"}
    \/ pc[t] = "waitConn" /\ info[myConn[t]] # "pending"
    \/ pc[t] = "waitRsp" /\ rsp[<<t, mySent[t]>>] # "pending"

\* Hand work to the network thread: _req_queue.put.
Put(w) == Len(queue) < MaxQueue /\ queue' = Append(queue, w)

Fault == faults < MaxFaults /\ faults' = faults + 1

\* __init__ up to its loop, or to the timer of _wait_reconnect(0).
Init ==
    /\ \/ /\ "sync" \in Modes
          /\ status = "START" /\ timer = NoTimer
          /\ pc = [t \in Threads |-> IF t = Ctor THEN "start" ELSE "free"]
       \/ /\ "async" \in Modes
          /\ status = "WAIT_RECONNECT" /\ timer = 1
          /\ pc = [t \in Threads |-> IF t = 1 THEN "armed" ELSE "free"]
    /\ auto = TRUE /\ executor = "open"
    /\ connId = NoConn /\ opendId = NoConn /\ registry = {}
    /\ reqMap = {} /\ rsp = [r \in Requests |-> "pending"]
    /\ myConn = [t \in Threads |-> NoConn]
    /\ mySent = [t \in Threads |-> NoConn]
    /\ conn = [c \in Conns |-> "none"]
    /\ info = [c \in Conns |-> "pending"]
    /\ nextConn = 1 /\ queue = <<>> /\ inbox = {} /\ faults = 0

(***************************************************************************)
(* Helpers of the context; p is the value of pc they start from.           *)
(***************************************************************************)
\* Variant: the reference is dropped and the timer left running.
CancelTimer_Forgotten(p) == p

\* Timer.cancel() has an effect only until the timer fires.
CancelTimer(p) ==
    IF timer # NoTimer /\ p[timer] = "armed"
    THEN [p EXCEPT ![timer] = "free"]
    ELSE p

Unregister == registry' = registry \ {opendId} /\ opendId' = NoConn

\* Variant: the closed executor is never replaced.
CloseExecutor_Unset(reconnecting) == executor' = "none"

\* _close_callback_executor: replaced while the context will reconnect.
CloseExecutor(reconnecting) ==
    executor' = IF reconnecting THEN "open" ELSE "closed"

\* Variant: the map is cleared without waking the waiters.
PopAllReqInfo_Silent == reqMap' = {} /\ UNCHANGED rsp

PopAllReqInfo ==
    /\ reqMap' = {}
    /\ rsp' = [r \in Requests |-> IF r \in reqMap THEN "disconnect" ELSE rsp[r]]

\* _wait_reconnect, seen with status st and with the old timer dropped.
WaitReconnect(st, p) ==
    \/ /\ auto /\ st \notin {"CONNECTED", "CONNECTING", "CLOSING"}
       /\ \E t \in Timers :
            /\ p[t] = "free" /\ \A u \in Timers : p[u] = "free" => t <= u
            /\ timer' = t /\ pc' = [p EXCEPT ![t] = "armed"]
       /\ status' = "WAIT_RECONNECT" /\ connId' = NoConn
    \/ /\ ~auto \/ st \in {"CONNECTED", "CONNECTING", "CLOSING"}
       /\ status' = st /\ timer' = NoTimer /\ pc' = p /\ UNCHANGED connId

\* Variant: _clear after _wait_reconnect, so that it cancels the new timer.
DropSession_ClearLast(st, p) ==
    /\ CloseExecutor(auto)
    /\ PopAllReqInfo
    /\ Unregister
    /\ status' = IF auto THEN "WAIT_RECONNECT" ELSE st
    /\ timer' = NoTimer /\ pc' = CancelTimer(p)
    /\ UNCHANGED <<auto, connId>>

\* Variant: no reconnection is arranged.
DropSession_NoRetry(st, p) ==
    /\ CloseExecutor(auto)
    /\ PopAllReqInfo
    /\ Unregister
    /\ status' = st /\ timer' = NoTimer /\ pc' = CancelTimer(p)
    /\ UNCHANGED <<auto, connId>>

\* The tail that on_disconnect and a failed _reconnect share.
DropSession(st, p) ==
    /\ CloseExecutor(auto)
    /\ PopAllReqInfo
    /\ Unregister
    /\ WaitReconnect(st, CancelTimer(p))
    /\ UNCHANGED auto

\* _init_connect_sync returned: the constructor leaves or sleeps and retries,
\* a timer thread leaves or runs the failure branch of _reconnect.
Succeed(t) == pc' = [pc EXCEPT ![t] = "free"]
Fail(t)    == pc' = [pc EXCEPT ![t] = IF t # Ctor THEN "failed"
                                      ELSE IF auto THEN "start" ELSE "free"]

(***************************************************************************)
(* The connecting threads.                                                 *)
(***************************************************************************)
\* One turn of the constructor's loop; the sleep before it is the delay of
\* this action. _status is written without the lock.
CtorStart ==
    /\ pc[Ctor] = "start"
    /\ status' = "START"
    /\ pc' = [pc EXCEPT ![Ctor] = "init"]
    /\ UNCHANGED <<auto, connId, opendId, registry, timer, executor, reqVars,
                   myConn, mySent, netVars, faults>>

TimerFire(t) ==
    /\ pc[t] = "armed"
    /\ Prompt => \A u \in Threads : ~Runnable(u)
    /\ pc' = [pc EXCEPT ![t] = "fired"]
    /\ UNCHANGED <<ctxVars, reqVars, myConn, mySent, netVars, faults>>

\* Variant: the status is left at WAIT_RECONNECT.
Reconnect_KeepStatus(t) ==
    /\ pc[t] = "fired" /\ timer # NoTimer
    /\ timer' = NoTimer
    /\ pc' = [CancelTimer(pc) EXCEPT ![t] = IF auto THEN "init" ELSE "free"]
    /\ UNCHANGED <<status, auto, connId, opendId, registry, executor, reqVars,
                   myConn, mySent, netVars, faults>>

\* _reconnect up to its first unlock. A timer that was dropped after it had
\* fired dies of None.cancel().
Reconnect(t) ==
    /\ pc[t] = "fired"
    /\ \/ /\ timer = NoTimer
          /\ pc' = [pc EXCEPT ![t] = "free"]
          /\ UNCHANGED <<status, timer>>
       \/ /\ timer # NoTimer
          /\ timer' = NoTimer
          /\ \/ /\ auto
                /\ status' = "START"
                /\ pc' = [CancelTimer(pc) EXCEPT ![t] = "init"]
             \/ /\ ~auto
                /\ pc' = [CancelTimer(pc) EXCEPT ![t] = "free"]
                /\ UNCHANGED status
    /\ UNCHANGED <<auto, connId, opendId, registry, executor, reqVars,
                   myConn, mySent, netVars, faults>>

InitConnectSync(t) ==
    /\ pc[t] = "init"
    /\ \/ status = "READY" /\ Succeed(t)
       \/ status = "START" /\ pc' = [pc EXCEPT ![t] = "connect"]
       \/ status \notin {"READY", "START"} /\ Fail(t)
    /\ UNCHANGED <<ctxVars, reqVars, myConn, mySent, netVars, faults>>

\* Variant: a status that changed since _init_connect_sync is not noticed.
ConnectSync_Unchecked(t) ==
    /\ pc[t] = "connect"
    /\ nextConn \in Conns
    /\ status' = "CONNECTING" /\ connId' = nextConn /\ nextConn' = nextConn + 1
    /\ conn' = [conn EXCEPT ![nextConn] = "queued"]
    /\ Put([op |-> "connect", conn |-> nextConn])
    /\ myConn' = [myConn EXCEPT ![t] = nextConn]
    /\ pc' = [pc EXCEPT ![t] = "waitConn"]
    /\ UNCHANGED <<auto, opendId, registry, timer, executor, reqVars, mySent,
                   info, inbox, faults>>

\* _connect_sync up to result.wait().
ConnectSync(t) ==
    /\ pc[t] = "connect"
    /\ \/ /\ status = "START"
          /\ nextConn \in Conns
          /\ status' = "CONNECTING"
          /\ connId' = nextConn
          /\ nextConn' = nextConn + 1
          /\ conn' = [conn EXCEPT ![nextConn] = "queued"]
          /\ Put([op |-> "connect", conn |-> nextConn])
          /\ myConn' = [myConn EXCEPT ![t] = nextConn]
          /\ pc' = [pc EXCEPT ![t] = "waitConn"]
       \/ /\ status \in {"CONNECTED", "READY"}
          /\ pc' = [pc EXCEPT ![t] = "sendInit"]
          /\ UNCHANGED <<status, connId, nextConn, conn, queue, myConn>>
       \/ /\ status \notin {"START", "CONNECTED", "READY"}
          /\ Fail(t)
          /\ UNCHANGED <<status, connId, nextConn, conn, queue, myConn>>
    /\ UNCHANGED <<auto, opendId, registry, timer, executor, reqVars, mySent,
                   info, inbox, faults>>

ConnectDone(t) ==
    /\ pc[t] = "waitConn" /\ info[myConn[t]] # "pending"
    /\ \/ info[myConn[t]] = "Ok" /\ pc' = [pc EXCEPT ![t] = "sendInit"]
       \/ info[myConn[t]] # "Ok" /\ Fail(t)
    /\ UNCHANGED <<ctxVars, reqVars, myConn, mySent, netVars, faults>>

\* _query_sync(InitConnect) up to req_info.wait(); it goes to whatever _conn_id
\* is by now.
SendInitConnect(t) ==
    /\ pc[t] = "sendInit"
    /\ \/ /\ status = "CONNECTED"
          /\ reqMap' = reqMap \union {<<t, connId>>}
          /\ Put([op |-> "send", conn |-> connId, req |-> <<t, connId>>])
          /\ mySent' = [mySent EXCEPT ![t] = connId]
          /\ pc' = [pc EXCEPT ![t] = "waitRsp"]
       \/ /\ status # "CONNECTED"
          /\ Fail(t)
          /\ UNCHANGED <<reqMap, queue, mySent>>
    /\ UNCHANGED <<ctxVars, rsp, myConn, conn, info, nextConn, inbox, faults>>

ResponseDone(t) ==
    /\ pc[t] = "waitRsp" /\ rsp[<<t, mySent[t]>>] # "pending"
    /\ \/ rsp[<<t, mySent[t]>>] = "ok" /\ pc' = [pc EXCEPT ![t] = "gotRsp"]
       \/ rsp[<<t, mySent[t]>>] # "ok" /\ Fail(t)
    /\ UNCHANGED <<ctxVars, reqVars, myConn, mySent, netVars, faults>>

\* ReqInfo.wait gives up after 20 seconds and leaves its entry in _req_map.
ResponseTimeout(t) ==
    /\ "timeout" \in InitReplies
    /\ pc[t] = "waitRsp" /\ rsp[<<t, mySent[t]>>] = "pending"
    /\ Fault
    /\ Fail(t)
    /\ UNCHANGED <<ctxVars, reqVars, myConn, mySent, netVars>>

\* The reply is applied whatever has happened to the context meanwhile, and
\* on_api_socket_reconnected is called. If it returns, whatever it returns, the
\* thread is done; an exception is caught by _reconnect alone and sends the thread
\* into its failure branch, at whatever time the callback comes to raise it. (One
\* that leaves the constructor leaves nobody a context to use.)
HandleInitConnectRsp(t) ==
    /\ pc[t] = "gotRsp"
    /\ opendId' = mySent[t]
    /\ registry' = registry \union {mySent[t]}
    /\ status' = "READY"
    /\ \/ "returns" \in Callbacks /\ Succeed(t)
       \/ "raises" \in Callbacks /\ t # Ctor /\ pc' = [pc EXCEPT ![t] = "failed"]
    /\ UNCHANGED <<auto, connId, timer, executor, reqVars, myConn, mySent,
                   netVars, faults>>

\* The failure branch of _reconnect: it closes whatever _conn_id is by now.
ReconnectFailed(t) ==
    /\ pc[t] = "failed"
    /\ Put([op |-> "close", conn |-> connId, notify |-> FALSE])
    /\ DropSession(status, [pc EXCEPT ![t] = "free"])
    /\ UNCHANGED <<myConn, mySent, conn, info, nextConn, inbox, faults>>

(***************************************************************************)
(* The user. close() needs the constructor to have returned.               *)
(***************************************************************************)
\* Variant: the connection is closed without telling the context.
Close_NoNotify ==
    /\ pc[Ctor] = "free"
    /\ auto' = FALSE
    /\ status \notin {"CLOSING", "CLOSED"}
    /\ Unregister
    /\ timer' = NoTimer /\ pc' = CancelTimer(pc)
    /\ status' = "CLOSING"
    /\ Put([op |-> "close", conn |-> connId, notify |-> FALSE])
    /\ UNCHANGED <<connId, executor, reqVars, myConn, mySent, conn, info,
                   nextConn, inbox, faults>>

Close ==
    /\ pc[Ctor] = "free"
    /\ auto' = FALSE
    /\ \/ /\ status \in {"CLOSING", "CLOSED"}
          /\ UNCHANGED <<status, timer, registry, opendId, executor, queue, pc>>
       \/ /\ status \notin {"CLOSING", "CLOSED"}
          /\ Unregister
          /\ timer' = NoTimer /\ pc' = CancelTimer(pc)
          /\ \/ /\ status \in {"START", "WAIT_RECONNECT"}
                /\ CloseExecutor(FALSE)
                /\ status' = "CLOSED"
                /\ UNCHANGED queue
             \/ /\ status \in {"CONNECTING", "CONNECTED", "READY"}
                /\ status' = "CLOSING"
                /\ Put([op |-> "close", conn |-> connId, notify |-> TRUE])
                /\ UNCHANGED executor
    /\ UNCHANGED <<connId, reqVars, myConn, mySent, conn, info, nextConn, inbox,
                   faults>>

(***************************************************************************)
(* The network thread and the gateway.                                     *)
(***************************************************************************)
\* on_connect, from the two callers that pass both of its arguments.
OnConnect(c, ok) ==
    /\ \/ /\ status = "CONNECTING"
          /\ status' = IF ok THEN "CONNECTED" ELSE "CLOSED"
          /\ info' = [info EXCEPT ![c] = IF ok THEN "Ok" ELSE "Fail"]
       \/ /\ status = "CLOSING"
          /\ status' = "CLOSED"
          /\ info' = [info EXCEPT ![c] = "Fail"]
       \/ /\ status \notin {"CONNECTING", "CLOSING"}
          /\ info' = [info EXCEPT ![c] = IF ok THEN "Ok" ELSE "Fail"]
          /\ UNCHANGED status
    /\ UNCHANGED <<auto, connId, opendId, registry, timer, executor>>

\* Variant: the status is not set to CLOSED first.
OnDisconnect_KeepStatus == DropSession(status, pc)

\* on_disconnect: the status is CLOSED by the time _wait_reconnect looks.
OnDisconnect == DropSession("CLOSED", pc)

\* Variant: the connection is not taken out of the table.
CloseConn_Kept(c) == inbox' = {r \in inbox : r[2] # c} /\ UNCHANGED conn

\* _do_close of a connection in the table.
CloseConn(c) ==
    /\ conn' = [conn EXCEPT ![c] = "closed"]
    /\ inbox' = {r \in inbox : r[2] # c}

InTable(c) == c # NoConn /\ conn[c] \in {"connecting", "connected"}

\* do_connect. Both immediate outcomes call on_connect with one argument, and
\* the TypeError is swallowed: neither the status nor the event is touched.
DoConnect(c) ==
    \/ /\ "pending" \in ConnectOutcomes
       /\ conn' = [conn EXCEPT ![c] = "connecting"] /\ UNCHANGED faults
    \/ /\ "ok" \in ConnectOutcomes
       /\ conn' = [conn EXCEPT ![c] = "connected"] /\ UNCHANGED faults
    \/ /\ "error" \in ConnectOutcomes
       /\ conn' = [conn EXCEPT ![c] = "closed"] /\ Fault

NetConnect ==
    /\ queue # <<>> /\ Head(queue).op = "connect"
    /\ DoConnect(Head(queue).conn)
    /\ queue' = Tail(queue)
    /\ UNCHANGED <<ctxVars, reqVars, thrVars, info, nextConn, inbox>>

\* do_send: the work is dropped unless the connection is up; a socket error
\* closes it.
NetSend ==
    /\ queue # <<>> /\ Head(queue).op = "send"
    /\ queue' = Tail(queue)
    /\ LET c == Head(queue).conn IN
       \/ /\ conn[c] # "connected"
          /\ UNCHANGED <<ctxVars, reqVars, pc, conn, inbox, faults>>
       \/ /\ conn[c] = "connected"
          /\ inbox' = inbox \union {Head(queue).req}
          /\ UNCHANGED <<ctxVars, reqVars, pc, conn, faults>>
       \/ /\ conn[c] = "connected"
          /\ Fault
          /\ CloseConn(c) /\ OnDisconnect
    /\ UNCHANGED <<myConn, mySent, info, nextConn>>

NetClose ==
    /\ queue # <<>> /\ Head(queue).op = "close"
    /\ queue' = Tail(queue)
    /\ LET c == Head(queue).conn IN
       \/ /\ ~InTable(c)
          /\ UNCHANGED <<ctxVars, reqVars, pc, conn, inbox>>
       \/ /\ InTable(c) /\ Head(queue).notify
          /\ CloseConn(c) /\ OnDisconnect
       \/ /\ InTable(c) /\ ~Head(queue).notify
          /\ CloseConn(c)
          /\ UNCHANGED <<ctxVars, reqVars, pc>>
    /\ UNCHANGED <<myConn, mySent, info, nextConn, faults>>

\* _on_write of a connecting socket.
NetConnected(c) ==
    /\ conn[c] = "connecting"
    /\ conn' = [conn EXCEPT ![c] = "connected"]
    /\ OnConnect(c, TRUE)
    /\ UNCHANGED <<reqVars, thrVars, nextConn, queue, inbox, faults>>

\* _on_write with SO_ERROR set, or _check_connect_timeout.
NetConnectFail(c) ==
    /\ conn[c] = "connecting"
    /\ Fault
    /\ CloseConn(c)
    /\ OnConnect(c, FALSE)
    /\ UNCHANGED <<reqVars, thrVars, nextConn, queue>>

\* _on_read or _on_write finds the connection closed or broken.
NetDisconnect(c) ==
    /\ conn[c] = "connected"
    /\ Fault
    /\ CloseConn(c)
    /\ OnDisconnect
    /\ UNCHANGED <<myConn, mySent, info, nextConn, queue>>

\* The gateway answers InitConnect and _on_read passes the answer to on_recv.
NetInitRsp(r, answer) ==
    /\ r \in inbox /\ answer \in InitReplies \ {"timeout"}
    /\ inbox' = inbox \ {r}
    /\ \/ answer = "refused" /\ Fault
       \/ answer = "ok" /\ UNCHANGED faults
    /\ \/ /\ status \in {"CONNECTED", "READY"} /\ r[2] = connId /\ r \in reqMap
          /\ reqMap' = reqMap \ {r}
          /\ rsp' = [rsp EXCEPT ![r] = answer]
       \/ /\ ~(status \in {"CONNECTED", "READY"} /\ r[2] = connId /\ r \in reqMap)
          /\ UNCHANGED reqVars
    /\ UNCHANGED <<ctxVars, thrVars, conn, info, nextConn, queue>>

ThreadStep(t) ==
    \/ Reconnect(t) \/ InitConnectSync(t) \/ ConnectSync(t) \/ ConnectDone(t)
    \/ SendInitConnect(t) \/ ResponseDone(t) \/ ResponseTimeout(t)
    \/ HandleInitConnectRsp(t) \/ ReconnectFailed(t)

NetWork == NetConnect \/ NetSend \/ NetClose

NetEvent(c) == NetConnected(c) \/ NetConnectFail(c) \/ NetDisconnect(c)

Next ==
    \/ CtorStart
    \/ \E t \in Timers : TimerFire(t)
    \/ \E t \in Threads : ThreadStep(t)
    \/ Close
    \/ NetWork
    \/ \E c \in Conns : NetEvent(c)
    \/ \E r \in inbox, answer \in InitReplies : NetInitRsp(r, answer)

Spec == Init /\ [][Next]_vars

\* Threads and timers run, the network thread loops, a connection attempt ends
\* within its 20 seconds, and once the faults are used up the gateway answers.
Fairness ==
    /\ WF_vars(CtorStart)
    /\ \A t \in Timers : WF_vars(TimerFire(t))
    /\ \A t \in Threads : WF_vars(ThreadStep(t))
    /\ WF_vars(NetWork)
    /\ \A c \in Conns : WF_vars(NetConnected(c) \/ NetConnectFail(c))
    /\ \A r \in Requests : WF_vars(NetInitRsp(r, "ok"))

FairSpec == Spec /\ Fairness

-----------------------------------------------------------------------------
(***************************************************************************)
(* Properties.                                                             *)
(***************************************************************************)
\* Every variable keeps its type (the fields set up by OpenContextBase.__init__
\* and NetManager.__init__).
TypeOK ==
    /\ status \in {"START", "CONNECTING", "CONNECTED", "READY", "CLOSING",
                   "CLOSED", "WAIT_RECONNECT"}
    /\ auto \in BOOLEAN
    /\ connId \in Conns \union {NoConn} /\ opendId \in Conns \union {NoConn}
    /\ registry \subseteq Conns
    /\ timer \in Timers \union {NoTimer}
    /\ executor \in {"open", "closed"}
    /\ reqMap \subseteq Requests
    /\ rsp \in [Requests -> {"pending", "ok", "refused", "disconnect"}]
    /\ pc \in [Threads -> Points]
    /\ myConn \in [Threads -> Conns \union {NoConn}]
    /\ mySent \in [Threads -> Conns \union {NoConn}]
    /\ conn \in [Conns -> {"none", "queued", "connecting", "connected", "closed"}]
    /\ info \in [Conns -> {"pending", "Ok", "Fail"}]
    /\ nextConn \in 1 .. (MaxConn + 1)
    /\ queue \in Seq(Work)
    /\ inbox \subseteq Requests
    /\ faults \in 0 .. MaxFaults

\* A timer that may still fire is the one _reconnect_timer names: dropping the
\* reference without cancelling it would start a second reconnection.
OneTimer == \A t \in Timers : pc[t] = "armed" => timer = t

\* A thread inside ReqInfo.wait whose event is unset has its entry in _req_map,
\* where a reply, a disconnect or a failed reconnection will find and wake it.
NoLostWakeup ==
    \A t \in Threads :
        pc[t] = "waitRsp" /\ rsp[<<t, mySent[t]>>] = "pending"
            => <<t, mySent[t]>> \in reqMap

\* A context waiting to reconnect has a timer that is set or has just fired.
WaitHasTimer ==
    status = "WAIT_RECONNECT"
        => timer # NoTimer /\ pc[timer] \in {"armed", "fired"}

\* A CLOSED context in which no thread is at work any more was closed by the
\* user, and its push thread was told to quit: a lost connection, a refused
\* attempt or a failed reconnection never ends in CLOSED for good.
ClosedForGood ==
    status = "CLOSED" /\ (\A t \in Threads : pc[t] = "free")
        => ~auto /\ executor = "closed"

\* After the user's close() no further connection is opened, however many
\* timers had fired and threads were connecting.
NoConnectAfterClose == [][~auto => nextConn' = nextConn]_vars

\* A connection of this context that is up or on its way up, and that nobody
\* has asked the network thread to close, is the one _conn_id names, and the user
\* has not closed the context: no socket is left behind with the context as its
\* handler, whatever close() found under way.
CloseQueued(c) ==
    \E i \in DOMAIN queue : queue[i].op = "close" /\ queue[i].conn = c

NoStrayConnection ==
    \A c \in Conns :
        conn[c] \in {"queued", "connecting", "connected"} /\ ~CloseQueued(c)
            => c = connId /\ auto

\* While the context is to reconnect, somebody is seeing to it: a thread or an
\* armed timer, or it is READY on a connection whose loss will be reported.
Serving == status = "READY" /\ connId # NoConn /\ conn[connId] = "connected"

Attended == auto => Serving \/ \E t \in Threads : pc[t] # "free"

\* close() is final.
ClosedIsFinal == [][~auto /\ status = "CLOSED" => status' = "CLOSED"]_vars

\* The context gets back to a working session, or the user closes it.
Reconnects == auto ~> ~auto \/ Serving

\* close() of a context whose connection is up or on its way ends with the push
\* thread told to quit and every socket closed.
CloseCompletes ==
    status = "CLOSING" /\ InTable(connId)
        ~> /\ status = "CLOSED" /\ executor = "closed"
           /\ \A c \in Conns : conn[c] \in {"none", "closed"}

(***************************************************************************)
(* The session as the rest of the program sees it.                         *)
(***************************************************************************)
\* The event of an attempt whose connection was closed inside do_connect is never
\* set: its thread waits for ever.
Stuck(t) ==
    pc[t] = "waitConn" /\ info[myConn[t]] = "pending" /\ conn[myConn[t]] = "closed"

Connecting(t) == pc[t] \notin {"free", "armed", "start", "fired"} /\ ~Stuck(t)

\* The failure branch of _reconnect has asked for the connection to be closed, and
\* will not be told when it is.
Given(c) ==
    \E i \in DOMAIN queue :
        queue[i].op = "close" /\ queue[i].conn = c /\ ~queue[i].notify

SesStatus ==
    CASE status \in {"READY", "CLOSING"} -> status
      [] status = "CLOSED" /\ ~auto -> "CLOSED"
      [] OTHER -> "DOWN"

SesTrying == \E t \in Threads : Connecting(t)

SesLink ==
    IF connId # NoConn /\ conn[connId] = "connected" /\ ~Given(connId)
    THEN connId ELSE NoConn

SesEnded ==
    {c \in Conns : conn[c] = "closed" \/ (conn[c] = "connected" /\ Given(c))}

Ses == INSTANCE Session WITH
    Links <- Conns, NoLink <- NoConn,
    status <- SesStatus, trying <- SesTrying, link <- SesLink, ended <- SesEnded

\* The session comes and goes as module Session says: one attempt at a time, begun
\* only when nothing is left of the last connection, a connection that never
\* stands twice, and an end of it that the context is told of.
KeepsSession == Ses!Spec
=============================================================================
