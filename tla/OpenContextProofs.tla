------------------------- MODULE OpenContextProofs -------------------------
(***************************************************************************)
(* The safety properties of OpenContext, for every number of timers,       *)
(* connections and faults and whatever the gateway does. The argument is   *)
(* an inductive invariant, IInv, and three that extend it: CInv for        *)
(* ClosedForGood, LInv for NoStrayConnection, of a context that connects   *)
(* in the background, and AInv for Attended, of a gateway that does not    *)
(* refuse.                                                                 *)
(***************************************************************************)
EXTENDS OpenContext, TLAPS

\* The status in which a request may be sent names a connection to send it on.
HasConnId == status \in {"CONNECTING", "CONNECTED"} => connId \in Conns

\* A thread that waits for a reply, or has one, knows the connection of it.
HasSent ==
    \A t \in Threads : pc[t] \in {"waitRsp", "gotRsp"} => mySent[t] \in Conns

\* Once the user has called close() the context never waits to reconnect, never
\* starts a connection, and the constructor is long gone.
CloseSettled ==
    ~auto => status \notin {"START", "WAIT_RECONNECT"} /\ pc[Ctor] = "free"

IInv == TypeOK /\ HasConnId /\ HasSent /\ CloseSettled
        /\ OneTimer /\ WaitHasTimer /\ NoLostWakeup

-----------------------------------------------------------------------------
(***************************************************************************)
(* Lemmas about the queue and the helpers.                                 *)
(***************************************************************************)
LEMMA ConstantFacts ==
    /\ Ctor \in Threads /\ Ctor \notin Timers
    /\ Timers \subseteq Threads
    /\ NoTimer \notin Timers /\ NoConn \notin Conns
    /\ Timers \subseteq Nat /\ Conns \subseteq Nat
BY ConstantsAssumption DEF Ctor, Threads, Timers, NoTimer, NoConn, Conns

\* What the context hands to the network thread is work of one of three kinds.
LEMMA PutType ==
    ASSUME queue \in Seq(Work), NEW w \in Work, Put(w)
    PROVE  queue' \in Seq(Work)
BY DEF Put

LEMMA WorkConnect ==
    ASSUME NEW c \in Conns
    PROVE  [op |-> "connect", conn |-> c] \in Work
BY DEF Work

LEMMA WorkSend ==
    ASSUME NEW c \in Conns, NEW t \in Threads
    PROVE  [op |-> "send", conn |-> c, req |-> <<t, c>>] \in Work
BY DEF Work, Requests

LEMMA WorkClose ==
    ASSUME NEW c \in Conns \union {NoConn}, NEW b \in BOOLEAN
    PROVE  [op |-> "close", conn |-> c, notify |-> b] \in Work
BY DEF Work

\* What the network thread takes out of the queue.
LEMMA GetType ==
    ASSUME queue \in Seq(Work), queue # <<>>
    PROVE  /\ Tail(queue) \in Seq(Work)
           /\ Head(queue).op = "connect" => Head(queue).conn \in Conns
           /\ Head(queue).op = "send" =>
                  /\ Head(queue).conn \in Conns
                  /\ Head(queue).req \in Requests
           /\ Head(queue).op = "close" =>
                  Head(queue).conn \in Conns \union {NoConn}
<1>1. Head(queue) \in Work /\ Tail(queue) \in Seq(Work)
  OBVIOUS
<1> QED
  BY <1>1 DEF Work

\* Cancelling disarms the only timer that may be armed, and nothing else.
LEMMA CancelFacts ==
    ASSUME NEW p \in [Threads -> Points], timer \in Timers \union {NoTimer},
           \A t \in Timers : p[t] = "armed" => timer = t
    PROVE  /\ CancelTimer(p) \in [Threads -> Points]
           /\ \A t \in Timers : CancelTimer(p)[t] # "armed"
           /\ \A t \in Threads : \/ CancelTimer(p)[t] = p[t]
                                 \/ p[t] = "armed" /\ CancelTimer(p)[t] = "free"
BY ConstantFacts DEF CancelTimer, Points

\* What on_disconnect and a failed _reconnect do to the context. p is pc without
\* the thread that is leaving; st is not a status of a waiting context that
\* should no longer reconnect.
LEMMA DropSessionFacts ==
    ASSUME IInv,
           NEW st \in {"START", "CONNECTING", "CONNECTED", "READY", "CLOSING",
                       "CLOSED", "WAIT_RECONNECT"},
           NEW p \in [Threads -> Points],
           \A t \in Threads : p[t] = pc[t] \/ p[t] = "free",
           st = "CLOSED" \/ st = status,
           DropSession(st, p), UNCHANGED mySent
    PROVE  /\ status' \in {"START", "CONNECTING", "CONNECTED", "READY", "CLOSING",
                           "CLOSED", "WAIT_RECONNECT"}
           /\ auto' = auto
           /\ connId' \in Conns \union {NoConn}
           /\ opendId' = NoConn /\ registry' \subseteq Conns
           /\ timer' \in Timers \union {NoTimer}
           /\ executor' \in {"open", "closed"}
           /\ reqMap' = {}
           /\ rsp' \in [Requests -> {"pending", "ok", "refused", "disconnect"}]
           /\ pc' \in [Threads -> Points]
           /\ HasConnId' /\ CloseSettled' /\ OneTimer' /\ WaitHasTimer'
           /\ HasSent' /\ NoLostWakeup'
<1> DEFINE q == CancelTimer(p)
<1>1. /\ q \in [Threads -> Points]
      /\ \A t \in Timers : q[t] # "armed"
      /\ \A t \in Threads : q[t] = p[t] \/ q[t] = "free"
  BY CancelFacts, ConstantFacts DEF IInv, TypeOK, OneTimer
<1>2. /\ executor' \in {"open", "closed"} /\ auto' = auto
      /\ opendId' = NoConn /\ registry' \subseteq Conns
  BY DEF DropSession, CloseExecutor, Unregister, IInv, TypeOK
<1>3. /\ reqMap' = {}
      /\ rsp' \in [Requests -> {"pending", "ok", "refused", "disconnect"}]
      /\ \A r \in reqMap : rsp'[r] # "pending"
      /\ \A r \in Requests \ reqMap : rsp'[r] = rsp[r]
  BY DEF DropSession, PopAllReqInfo, IInv, TypeOK
<1>6. ASSUME \A t \in Threads : pc'[t] = pc[t] \/ pc'[t] \in {"free", "armed"}
      PROVE  HasSent' /\ NoLostWakeup'
  <2>1. HasSent'
    BY <1>6 DEF IInv, HasSent
  <2>2. ASSUME NEW t \in Threads, pc'[t] = "waitRsp",
               rsp'[<<t, mySent[t]>>] = "pending"
        PROVE  FALSE
    <3>1. pc[t] = "waitRsp"
      BY <1>6, <2>2
    <3>2. <<t, mySent[t]>> \in Requests
      BY <3>1 DEF IInv, HasSent, Requests
    <3> QED
      BY <1>3, <2>2, <3>1, <3>2 DEF IInv, NoLostWakeup
  <2> QED
    BY <2>1, <2>2 DEF NoLostWakeup
<1>4. CASE auto /\ st \notin {"CONNECTED", "CONNECTING", "CLOSING"}
  <2>1. /\ status' = "WAIT_RECONNECT" /\ connId' = NoConn
        /\ \E t \in Timers : q[t] = "free" /\ timer' = t
                             /\ pc' = [q EXCEPT ![t] = "armed"]
    BY <1>4 DEF DropSession, WaitReconnect
  <2>2. PICK t \in Timers : /\ q[t] = "free" /\ timer' = t
                            /\ pc' = [q EXCEPT ![t] = "armed"]
    BY <2>1
  <2>3. pc' \in [Threads -> Points] /\ pc'[t] = "armed"
        /\ \A u \in Threads : u # t => pc'[u] = q[u]
    BY <1>1, <2>2, ConstantFacts DEF Points
  <2>4. OneTimer' /\ WaitHasTimer'
    BY <1>1, <2>1, <2>2, <2>3, ConstantFacts DEF OneTimer, WaitHasTimer
  <2>5. HasSent' /\ NoLostWakeup'
    BY <1>1, <1>6, <2>2, <2>3
  <2> QED
    BY <1>1, <1>2, <1>3, <1>4, <2>1, <2>2, <2>3, <2>4, <2>5, ConstantFacts
    DEF HasConnId, CloseSettled
<1>5. CASE ~auto \/ st \in {"CONNECTED", "CONNECTING", "CLOSING"}
  <2>1. status' = st /\ timer' = NoTimer /\ pc' = q /\ connId' = connId
    BY <1>5 DEF DropSession, WaitReconnect
  <2>2. st # "WAIT_RECONNECT"
    BY <1>5 DEF IInv, CloseSettled
  <2>3. CloseSettled'
    BY <1>1, <1>2, <1>5, <2>1, ConstantFacts DEF IInv, CloseSettled
  <2>4. OneTimer' /\ WaitHasTimer' /\ HasConnId'
    BY <1>1, <2>1, <2>2 DEF OneTimer, WaitHasTimer, HasConnId, IInv
  <2>5. HasSent' /\ NoLostWakeup'
    BY <1>1, <1>6, <2>1
  <2> QED
    BY <1>1, <1>2, <1>3, <2>1, <2>3, <2>4, <2>5 DEF IInv, TypeOK
<1> QED
  BY <1>4, <1>5

-----------------------------------------------------------------------------
(***************************************************************************)
(* The inductive invariant.                                                *)
(***************************************************************************)
LEMMA InitInvariant == Init => IInv
<1> SUFFICES ASSUME Init PROVE IInv
  OBVIOUS
<1>1. TypeOK
  BY ConstantsAssumption, ConstantFacts
  DEF Init, TypeOK, Points, Conns, NoConn, Timers, NoTimer
<1>2. HasConnId /\ HasSent /\ CloseSettled /\ NoLostWakeup
  BY ConstantFacts DEF Init, HasConnId, HasSent, CloseSettled, NoLostWakeup
<1>3. OneTimer /\ WaitHasTimer
  BY ConstantFacts, ConstantsAssumption
  DEF Init, OneTimer, WaitHasTimer, Timers, NoTimer
<1> QED
  BY <1>1, <1>2, <1>3 DEF IInv

\* A step of a connecting thread that changes nothing but its own pc.
LEMMA LocalStep ==
    ASSUME IInv, NEW t \in Threads, pc[t] \notin {"free", "armed", "fired"},
           NEW q \in Points \ {"armed", "fired", "waitRsp"},
           q = "gotRsp" => mySent[t] \in Conns,
           pc' = [pc EXCEPT ![t] = q],
           UNCHANGED <<ctxVars, reqVars, myConn, mySent, netVars>>,
           faults' \in 0 .. MaxFaults
    PROVE  IInv'
<1> USE DEF ctxVars, reqVars, netVars, IInv
<1>1. TypeOK'
  BY DEF TypeOK
<1>2. HasConnId' /\ HasSent' /\ NoLostWakeup'
  BY DEF HasConnId, HasSent, NoLostWakeup, TypeOK
<1>3. CloseSettled' /\ OneTimer' /\ WaitHasTimer'
  BY ConstantFacts DEF CloseSettled, OneTimer, WaitHasTimer, TypeOK
<1> QED
  BY <1>1, <1>2, <1>3

LEMMA CtorStep ==
    ASSUME IInv, CtorStart
    PROVE  IInv'
<1> USE DEF CtorStart, reqVars, netVars, IInv
<1>1. auto /\ status' = "START" /\ pc' = [pc EXCEPT ![Ctor] = "init"]
  BY DEF CloseSettled, TypeOK
<1>2. TypeOK'
  BY <1>1, ConstantFacts DEF TypeOK, Points
<1>3. HasConnId' /\ HasSent' /\ NoLostWakeup'
  BY <1>1, ConstantFacts DEF HasConnId, HasSent, NoLostWakeup, TypeOK
<1>4. CloseSettled' /\ OneTimer' /\ WaitHasTimer'
  BY <1>1, ConstantFacts DEF CloseSettled, OneTimer, WaitHasTimer, TypeOK
<1> QED
  BY <1>2, <1>3, <1>4

LEMMA TimerFireStep ==
    ASSUME IInv, NEW t \in Timers, TimerFire(t)
    PROVE  IInv'
<1> USE DEF TimerFire, ctxVars, reqVars, netVars, IInv
<1>1. TypeOK'
  BY ConstantFacts DEF TypeOK, Points
<1>2. HasConnId' /\ HasSent' /\ NoLostWakeup'
  BY ConstantFacts DEF HasConnId, HasSent, NoLostWakeup, TypeOK
<1>3. CloseSettled' /\ OneTimer' /\ WaitHasTimer'
  BY ConstantFacts DEF CloseSettled, OneTimer, WaitHasTimer, TypeOK
<1> QED
  BY <1>1, <1>2, <1>3

LEMMA ReconnectStep ==
    ASSUME IInv, NEW t \in Threads, Reconnect(t)
    PROVE  IInv'
<1> USE DEF reqVars, netVars, IInv
<1> DEFINE q == CancelTimer(pc)
<1>1. /\ q \in [Threads -> Points]
      /\ \A u \in Timers : q[u] # "armed"
      /\ \A u \in Threads : q[u] = pc[u] \/ (pc[u] = "armed" /\ q[u] = "free")
  BY CancelFacts DEF TypeOK, OneTimer
<1>2. CASE timer = NoTimer
  <2>1. pc' = [pc EXCEPT ![t] = "free"] /\ UNCHANGED <<status, timer>>
    BY <1>2 DEF Reconnect
  <2>2. TypeOK'
    BY <2>1 DEF TypeOK, Points, Reconnect
  <2>3. HasConnId' /\ HasSent' /\ NoLostWakeup'
    BY <2>1 DEF HasConnId, HasSent, NoLostWakeup, TypeOK, Reconnect
  <2>4. CloseSettled' /\ OneTimer' /\ WaitHasTimer'
    BY <1>2, <2>1, ConstantFacts
    DEF CloseSettled, OneTimer, WaitHasTimer, TypeOK, Reconnect
  <2> QED
    BY <2>2, <2>3, <2>4
<1>3. CASE timer # NoTimer /\ auto
  <2>1. timer' = NoTimer /\ status' = "START" /\ pc' = [q EXCEPT ![t] = "init"]
    BY <1>3 DEF Reconnect
  <2>2. TypeOK'
    BY <1>1, <2>1 DEF TypeOK, Points, Reconnect
  <2>3. HasConnId' /\ HasSent' /\ NoLostWakeup'
    BY <1>1, <2>1 DEF HasConnId, HasSent, NoLostWakeup, TypeOK, Reconnect
  <2>4. CloseSettled' /\ OneTimer' /\ WaitHasTimer'
    BY <1>1, <1>3, <2>1 DEF CloseSettled, OneTimer, WaitHasTimer, Reconnect
  <2> QED
    BY <2>2, <2>3, <2>4
<1>4. CASE timer # NoTimer /\ ~auto
  <2>1. timer' = NoTimer /\ status' = status /\ pc' = [q EXCEPT ![t] = "free"]
    BY <1>4 DEF Reconnect
  <2>2. TypeOK'
    BY <1>1, <2>1 DEF TypeOK, Points, Reconnect
  <2>3. HasConnId' /\ HasSent' /\ NoLostWakeup'
    BY <1>1, <2>1 DEF HasConnId, HasSent, NoLostWakeup, TypeOK, Reconnect
  <2>4. CloseSettled' /\ OneTimer' /\ WaitHasTimer'
    BY <1>1, <1>4, <2>1, ConstantFacts
    DEF CloseSettled, OneTimer, WaitHasTimer, Reconnect
  <2> QED
    BY <2>2, <2>3, <2>4
<1> QED
  BY <1>2, <1>3, <1>4 DEF TypeOK

LEMMA ThreadStepInvariant ==
    ASSUME IInv, NEW t \in Threads, ThreadStep(t)
    PROVE  IInv'
<1> USE DEF IInv
<1> DEFINE failed == IF t # Ctor THEN "failed"
                     ELSE IF auto THEN "start" ELSE "free"
<1>0. failed \in Points \ {"armed", "fired", "waitRsp", "gotRsp"}
  BY DEF Points
<1>1. CASE Reconnect(t)
  BY <1>1, ReconnectStep
<1>2. CASE InitConnectSync(t)
  <2>1. \E q \in Points \ {"armed", "fired", "waitRsp", "gotRsp"} :
           pc' = [pc EXCEPT ![t] = q]
    BY <1>0, <1>2 DEF InitConnectSync, Succeed, Fail, Points
  <2> QED
    BY <1>2, <2>1, LocalStep DEF InitConnectSync, TypeOK, thrVars
<1>3. CASE ConnectSync(t)
  <2>1. CASE status = "START"
    <3>1. /\ nextConn \in Conns
          /\ status' = "CONNECTING" /\ connId' = nextConn
          /\ nextConn' = nextConn + 1
          /\ conn' = [conn EXCEPT ![nextConn] = "queued"]
          /\ Put([op |-> "connect", conn |-> nextConn])
          /\ myConn' = [myConn EXCEPT ![t] = nextConn]
          /\ pc' = [pc EXCEPT ![t] = "waitConn"]
      BY <1>3, <2>1 DEF ConnectSync
    <3>2. queue' \in Seq(Work)
      BY <3>1, PutType, WorkConnect DEF TypeOK
    <3>3. nextConn' \in 1 .. (MaxConn + 1)
      BY <3>1, ConstantsAssumption DEF Conns
    <3>4. TypeOK'
      BY <1>3, <3>1, <3>2, <3>3 DEF ConnectSync, TypeOK, Points, reqVars
    <3>5. HasConnId' /\ HasSent' /\ NoLostWakeup'
      BY <1>3, <3>1 DEF ConnectSync, HasConnId, HasSent, NoLostWakeup, TypeOK,
                        reqVars
    <3>6. CloseSettled' /\ OneTimer' /\ WaitHasTimer'
      BY <1>3, <2>1, <3>1, ConstantFacts
      DEF ConnectSync, CloseSettled, OneTimer, WaitHasTimer, TypeOK
    <3> QED
      BY <3>4, <3>5, <3>6
  <2>2. CASE status # "START"
    <3>1. \E q \in Points \ {"armed", "fired", "waitRsp", "gotRsp"} :
             pc' = [pc EXCEPT ![t] = q]
      BY <1>0, <1>3, <2>2 DEF ConnectSync, Fail, Points
    <3> QED
      BY <1>3, <2>2, <3>1, LocalStep
      DEF ConnectSync, TypeOK, ctxVars, netVars
  <2> QED
    BY <2>1, <2>2
<1>4. CASE ConnectDone(t)
  <2>1. \E q \in Points \ {"armed", "fired", "waitRsp", "gotRsp"} :
           pc' = [pc EXCEPT ![t] = q]
    BY <1>0, <1>4 DEF ConnectDone, Fail, Points
  <2> QED
    BY <1>4, <2>1, LocalStep DEF ConnectDone, TypeOK
<1>5. CASE SendInitConnect(t)
  <2>1. CASE status = "CONNECTED"
    <3>1. /\ connId \in Conns
          /\ reqMap' = reqMap \union {<<t, connId>>}
          /\ Put([op |-> "send", conn |-> connId, req |-> <<t, connId>>])
          /\ mySent' = [mySent EXCEPT ![t] = connId]
          /\ pc' = [pc EXCEPT ![t] = "waitRsp"]
      BY <1>5, <2>1 DEF SendInitConnect, HasConnId
    <3>2. queue' \in Seq(Work)
      BY <3>1, PutType, WorkSend DEF TypeOK
    <3>3. TypeOK'
      BY <1>5, <3>1, <3>2 DEF SendInitConnect, TypeOK, Points, Requests, ctxVars
    <3>4. HasConnId' /\ HasSent'
      BY <1>5, <3>1 DEF SendInitConnect, HasConnId, HasSent, TypeOK, ctxVars
    <3>5. NoLostWakeup'
      BY <1>5, <3>1 DEF SendInitConnect, NoLostWakeup, TypeOK
    <3>6. CloseSettled' /\ OneTimer' /\ WaitHasTimer'
      BY <1>5, <3>1, ConstantFacts
      DEF SendInitConnect, CloseSettled, OneTimer, WaitHasTimer, TypeOK, ctxVars
    <3> QED
      BY <3>3, <3>4, <3>5, <3>6
  <2>2. CASE status # "CONNECTED"
    <3>1. \E q \in Points \ {"armed", "fired", "waitRsp", "gotRsp"} :
             pc' = [pc EXCEPT ![t] = q]
      BY <1>0, <1>5, <2>2 DEF SendInitConnect, Fail, Points
    <3> QED
      BY <1>5, <2>2, <3>1, LocalStep
      DEF SendInitConnect, TypeOK, reqVars, netVars
  <2> QED
    BY <2>1, <2>2
<1>6. CASE ResponseDone(t)
  <2>1. mySent[t] \in Conns
    BY <1>6 DEF ResponseDone, HasSent
  <2>2. \E q \in Points \ {"armed", "fired", "waitRsp"} :
           pc' = [pc EXCEPT ![t] = q]
    BY <1>0, <1>6 DEF ResponseDone, Fail, Points
  <2> QED
    BY <1>6, <2>1, <2>2, LocalStep DEF ResponseDone, TypeOK
<1>7. CASE ResponseTimeout(t)
  <2>1. pc' = [pc EXCEPT ![t] = failed] /\ faults' \in 0 .. MaxFaults
    BY <1>7, ConstantsAssumption DEF ResponseTimeout, Fail, Fault, TypeOK
  <2> QED
    BY <1>0, <1>7, <2>1, LocalStep DEF ResponseTimeout
<1>8. CASE HandleInitConnectRsp(t)
  <2>1. /\ mySent[t] \in Conns
        /\ \E q \in {"free", "failed"} : pc' = [pc EXCEPT ![t] = q]
    BY <1>8 DEF HandleInitConnectRsp, HasSent, Succeed
  <2>2. TypeOK'
    BY <1>8, <2>1 DEF HandleInitConnectRsp, TypeOK, Points, reqVars, netVars
  <2>3. HasConnId' /\ HasSent' /\ NoLostWakeup'
    BY <1>8, <2>1 DEF HandleInitConnectRsp, HasConnId, HasSent, NoLostWakeup,
                      TypeOK, reqVars
  <2>4. CloseSettled' /\ OneTimer' /\ WaitHasTimer'
    BY <1>8, <2>1, ConstantFacts
    DEF HandleInitConnectRsp, CloseSettled, OneTimer, WaitHasTimer, TypeOK
  <2> QED
    BY <2>2, <2>3, <2>4
<1>9. CASE ReconnectFailed(t)
  <2> DEFINE p == [pc EXCEPT ![t] = "free"]
  <2>1. p \in [Threads -> Points] /\ \A u \in Threads : p[u] = pc[u] \/ p[u] = "free"
    BY DEF TypeOK, Points
  <2>2. DropSession(status, p)
    BY <1>9 DEF ReconnectFailed
  <2>3. queue' \in Seq(Work)
    BY <1>9, PutType, WorkClose DEF ReconnectFailed, TypeOK
  <2>4. UNCHANGED <<myConn, mySent, conn, info, nextConn, inbox, faults>>
    BY <1>9 DEF ReconnectFailed
  <2>5. status \in {"START", "CONNECTING", "CONNECTED", "READY", "CLOSING",
                    "CLOSED", "WAIT_RECONNECT"}
    BY DEF TypeOK
  <2> HIDE DEF p
  <2>6. /\ status' \in {"START", "CONNECTING", "CONNECTED", "READY", "CLOSING",
                        "CLOSED", "WAIT_RECONNECT"}
        /\ auto' = auto
        /\ connId' \in Conns \union {NoConn}
        /\ opendId' = NoConn /\ registry' \subseteq Conns
        /\ timer' \in Timers \union {NoTimer}
        /\ executor' \in {"open", "closed"}
        /\ reqMap' = {}
        /\ rsp' \in [Requests -> {"pending", "ok", "refused", "disconnect"}]
        /\ pc' \in [Threads -> Points]
        /\ HasConnId' /\ CloseSettled' /\ OneTimer' /\ WaitHasTimer'
        /\ HasSent' /\ NoLostWakeup'
    BY <2>1, <2>2, <2>4, <2>5, DropSessionFacts
  <2>7. TypeOK'
    BY <2>3, <2>4, <2>6 DEF TypeOK
  <2> QED
    BY <2>6, <2>7
<1> QED
  BY <1>1, <1>2, <1>3, <1>4, <1>5, <1>6, <1>7, <1>8, <1>9 DEF ThreadStep

LEMMA CloseStep ==
    ASSUME IInv, Close
    PROVE  IInv'
<1> USE DEF IInv
<1>1. /\ pc[Ctor] = "free" /\ auto' = FALSE
      /\ UNCHANGED <<connId, reqVars, myConn, mySent, conn, info, nextConn,
                     inbox, faults>>
  BY DEF Close
<1>2. CASE status \in {"CLOSING", "CLOSED"}
  <2>1. UNCHANGED <<status, timer, registry, opendId, executor, queue, pc>>
    BY <1>2 DEF Close
  <2>2. TypeOK'
    BY <1>1, <2>1 DEF TypeOK, reqVars
  <2> QED
    BY <1>1, <1>2, <2>1, <2>2
    DEF HasConnId, HasSent, CloseSettled, OneTimer, WaitHasTimer, NoLostWakeup,
        reqVars
<1>3. CASE status \notin {"CLOSING", "CLOSED"}
  <2> DEFINE q == CancelTimer(pc)
  <2>1. /\ q \in [Threads -> Points]
        /\ \A u \in Timers : q[u] # "armed"
        /\ \A u \in Threads : q[u] = pc[u] \/ (pc[u] = "armed" /\ q[u] = "free")
    BY CancelFacts DEF TypeOK, OneTimer
  <2>2. /\ timer' = NoTimer /\ pc' = q
        /\ opendId' = NoConn /\ registry' = registry \ {opendId}
        /\ status' \in {"CLOSING", "CLOSED"}
        /\ executor' \in {executor, "closed"}
    BY <1>3 DEF Close, Unregister, CloseExecutor
  <2>3. queue' \in Seq(Work)
    <3>1. CASE UNCHANGED queue
      BY <3>1 DEF TypeOK
    <3>2. CASE Put([op |-> "close", conn |-> connId, notify |-> TRUE])
      BY <3>2, PutType, WorkClose DEF TypeOK
    <3> QED
      BY <1>3, <3>1, <3>2 DEF Close
  <2>4. TypeOK'
    BY <1>1, <2>1, <2>2, <2>3 DEF TypeOK, reqVars
  <2>5. HasConnId' /\ HasSent' /\ NoLostWakeup'
    BY <1>1, <2>1, <2>2 DEF HasConnId, HasSent, NoLostWakeup, reqVars
  <2>6. CloseSettled' /\ OneTimer' /\ WaitHasTimer'
    BY <1>1, <2>1, <2>2, ConstantFacts DEF CloseSettled, OneTimer, WaitHasTimer
  <2> QED
    BY <2>4, <2>5, <2>6
<1> QED
  BY <1>2, <1>3

\* A step of the network thread that takes work or not, and does not call the
\* context.
LEMMA QuietNetStep ==
    ASSUME IInv, UNCHANGED <<ctxVars, reqVars, thrVars, info, nextConn>>,
           queue' \in Seq(Work), inbox' \subseteq Requests,
           conn' \in [Conns -> {"none", "queued", "connecting", "connected",
                                "closed"}],
           faults' \in 0 .. MaxFaults
    PROVE  IInv'
BY DEF IInv, TypeOK, HasConnId, HasSent, CloseSettled, OneTimer, WaitHasTimer,
       NoLostWakeup, ctxVars, reqVars, thrVars

\* A step that loses a connection and reports it.
LEMMA DisconnectStep ==
    ASSUME IInv, NEW c \in Conns, CloseConn(c), OnDisconnect,
           UNCHANGED <<myConn, mySent, info, nextConn>>,
           queue' \in Seq(Work), faults' \in 0 .. MaxFaults
    PROVE  IInv'
<1> USE DEF IInv
<1>1. /\ conn' \in [Conns -> {"none", "queued", "connecting", "connected",
                             "closed"}]
      /\ inbox' \subseteq Requests
  BY DEF CloseConn, TypeOK
<1>2. DropSession("CLOSED", pc) /\ pc \in [Threads -> Points]
  BY DEF OnDisconnect, TypeOK
<1>3. TypeOK'
  BY <1>1, <1>2, DropSessionFacts DEF TypeOK
<1>4. /\ HasConnId' /\ HasSent' /\ CloseSettled'
      /\ OneTimer' /\ WaitHasTimer' /\ NoLostWakeup'
  BY <1>2, DropSessionFacts
<1> QED
  BY <1>3, <1>4

\* A step that reports the outcome of a connection attempt.
LEMMA OnConnectStep ==
    ASSUME IInv, NEW c \in Conns, NEW ok \in BOOLEAN, OnConnect(c, ok),
           UNCHANGED <<reqVars, thrVars, nextConn, queue>>,
           inbox' \subseteq inbox, faults' \in 0 .. MaxFaults,
           conn' \in [Conns -> {"none", "queued", "connecting", "connected",
                                "closed"}]
    PROVE  IInv'
<1> USE DEF IInv
<1>1. /\ UNCHANGED <<auto, connId, opendId, registry, timer, executor>>
      /\ info' \in [Conns -> {"pending", "Ok", "Fail"}]
      /\ \/ status' = status
         \/ status = "CONNECTING" /\ status' \in {"CONNECTED", "CLOSED"}
         \/ status = "CLOSING" /\ status' = "CLOSED"
  BY DEF OnConnect, TypeOK
<1>2. TypeOK'
  BY <1>1 DEF TypeOK, reqVars, thrVars
<1> QED
  BY <1>1, <1>2
  DEF HasConnId, HasSent, CloseSettled, OneTimer, WaitHasTimer, NoLostWakeup,
      reqVars, thrVars

LEMMA FaultType ==
    ASSUME faults \in 0 .. MaxFaults, Fault
    PROVE  faults' \in 0 .. MaxFaults
BY ConstantsAssumption DEF Fault

LEMMA NetWorkStep ==
    ASSUME IInv, NetWork
    PROVE  IInv'
<1> USE DEF IInv
<1> DEFINE w == Head(queue)
<1>1. CASE NetConnect
  <2>1. queue # <<>> /\ w.op = "connect" /\ queue' = Tail(queue)
    BY <1>1 DEF NetConnect
  <2>2. w.conn \in Conns /\ queue' \in Seq(Work)
    BY <2>1, GetType DEF TypeOK
  <2>3. /\ conn' \in [Conns -> {"none", "queued", "connecting", "connected",
                               "closed"}]
        /\ faults' \in 0 .. MaxFaults
    BY <1>1, <2>2, FaultType DEF NetConnect, DoConnect, TypeOK
  <2> QED
    BY <1>1, <2>2, <2>3, QuietNetStep DEF NetConnect, TypeOK
<1>2. CASE NetSend
  <2>1. queue # <<>> /\ w.op = "send" /\ queue' = Tail(queue)
    BY <1>2 DEF NetSend
  <2>2. w.conn \in Conns /\ w.req \in Requests /\ queue' \in Seq(Work)
    BY <2>1, GetType DEF TypeOK
  <2>3. CASE UNCHANGED <<ctxVars, reqVars, pc, conn, faults>>
    BY <1>2, <2>2, <2>3, QuietNetStep DEF NetSend, TypeOK, thrVars, CloseConn
  <2>4. CASE Fault /\ CloseConn(w.conn) /\ OnDisconnect
    BY <1>2, <2>2, <2>4, FaultType, DisconnectStep DEF NetSend, TypeOK
  <2> QED
    BY <1>2, <2>3, <2>4 DEF NetSend
<1>3. CASE NetClose
  <2>1. queue # <<>> /\ w.op = "close" /\ queue' = Tail(queue)
    BY <1>3 DEF NetClose
  <2>2. w.conn \in Conns \union {NoConn} /\ queue' \in Seq(Work)
    BY <2>1, GetType DEF TypeOK
  <2>3. CASE ~InTable(w.conn)
    BY <1>3, <2>2, <2>3, QuietNetStep DEF NetClose, TypeOK, thrVars
  <2>4. CASE InTable(w.conn) /\ w.notify
    BY <1>3, <2>2, <2>4, DisconnectStep DEF NetClose, TypeOK, InTable
  <2>5. CASE InTable(w.conn) /\ ~w.notify
    BY <1>3, <2>2, <2>5, QuietNetStep DEF NetClose, TypeOK, thrVars, CloseConn
  <2> QED
    BY <2>3, <2>4, <2>5
<1> QED
  BY <1>1, <1>2, <1>3 DEF NetWork

LEMMA NetEventStep ==
    ASSUME IInv, NEW c \in Conns, NetEvent(c)
    PROVE  IInv'
<1> USE DEF IInv
<1>1. CASE NetConnected(c)
  BY <1>1, OnConnectStep DEF NetConnected, TypeOK
<1>2. CASE NetConnectFail(c)
  BY <1>2, OnConnectStep, FaultType DEF NetConnectFail, TypeOK, CloseConn
<1>3. CASE NetDisconnect(c)
  BY <1>3, DisconnectStep, FaultType DEF NetDisconnect, TypeOK
<1> QED
  BY <1>1, <1>2, <1>3 DEF NetEvent

LEMMA NetInitRspStep ==
    ASSUME IInv, NEW r \in inbox, NEW answer \in InitReplies, NetInitRsp(r, answer)
    PROVE  IInv'
<1> USE DEF IInv
<1>1. /\ answer \in {"ok", "refused"}
      /\ inbox' = inbox \ {r}
      /\ UNCHANGED <<ctxVars, thrVars, conn, info, nextConn, queue>>
  BY ConstantsAssumption DEF NetInitRsp
<1>2. faults' \in 0 .. MaxFaults
  BY FaultType DEF NetInitRsp, TypeOK
<1>3. CASE UNCHANGED reqVars
  BY <1>1, <1>2, <1>3, QuietNetStep DEF TypeOK
<1>4. CASE /\ reqMap' = reqMap \ {r}
           /\ rsp' = [rsp EXCEPT ![r] = answer]
  <2>1. TypeOK'
    BY <1>1, <1>2, <1>4 DEF TypeOK, ctxVars, thrVars
  <2>2. NoLostWakeup'
    BY <1>1, <1>4 DEF NoLostWakeup, TypeOK, thrVars
  <2> QED
    BY <1>1, <2>1, <2>2
    DEF HasConnId, HasSent, CloseSettled, OneTimer, WaitHasTimer, ctxVars, thrVars
<1> QED
  BY <1>3, <1>4 DEF NetInitRsp

LEMMA NextInvariant == IInv /\ [Next]_vars => IInv'
<1> SUFFICES ASSUME IInv, [Next]_vars PROVE IInv'
  OBVIOUS
<1>1. CASE CtorStart
  BY <1>1, CtorStep
<1>2. ASSUME NEW t \in Timers, TimerFire(t) PROVE IInv'
  BY <1>2, TimerFireStep
<1>3. ASSUME NEW t \in Threads, ThreadStep(t) PROVE IInv'
  BY <1>3, ThreadStepInvariant
<1>4. CASE Close
  BY <1>4, CloseStep
<1>5. CASE NetWork
  BY <1>5, NetWorkStep
<1>6. ASSUME NEW c \in Conns, NetEvent(c) PROVE IInv'
  BY <1>6, NetEventStep
<1>7. ASSUME NEW r \in inbox, NEW answer \in InitReplies, NetInitRsp(r, answer)
      PROVE  IInv'
  BY <1>7, NetInitRspStep
<1>8. CASE UNCHANGED vars
  BY <1>8
  DEF IInv, TypeOK, HasConnId, HasSent, CloseSettled, OneTimer, WaitHasTimer,
      NoLostWakeup, vars, ctxVars, reqVars, thrVars, netVars
<1> QED
  BY <1>1, <1>2, <1>3, <1>4, <1>5, <1>6, <1>7, <1>8 DEF Next

\* IInv holds in every state of every behaviour.
\* Every reachable state satisfies the inductive invariant, whatever the code of
\* the other threads has done.
THEOREM Invariance == Spec => []IInv
  BY InitInvariant, NextInvariant, PTL DEF Spec

-----------------------------------------------------------------------------
(***************************************************************************)
(* The properties.                                                         *)
(***************************************************************************)
\* Type correctness of the context, the request map, the connection table and
\* the work queue.
THEOREM TypeCorrect == Spec => []TypeOK
<1>1. IInv => TypeOK
  BY DEF IInv
<1> QED
  BY <1>1, Invariance, PTL

\* The timer _reconnect_timer names is the only one that can still fire
\* (_wait_reconnect, _reconnect and close, which drop it).
THEOREM OneTimerFires == Spec => []OneTimer
<1>1. IInv => OneTimer
  BY DEF IInv
<1> QED
  BY <1>1, Invariance, PTL

\* A context that waits to reconnect has its timer (_wait_reconnect, on_disconnect).
THEOREM WaitingHasTimer == Spec => []WaitHasTimer
<1>1. IInv => WaitHasTimer
  BY DEF IInv
<1> QED
  BY <1>1, Invariance, PTL

\* A thread that waits for the reply to InitConnect can always be woken
\* (_init_connect_sync, _pop_all_req_info).
THEOREM WaiterIsListed == Spec => []NoLostWakeup
<1>1. IInv => NoLostWakeup
  BY DEF IInv
<1> QED
  BY <1>1, Invariance, PTL

\* After the user's close() no connection is opened, whatever the timers and
\* connecting threads that were under way do.
THEOREM CloseStopsConnecting == Spec => NoConnectAfterClose
<1>1. IInv /\ [Next]_vars => [~auto => nextConn' = nextConn]_vars
  <2> SUFFICES ASSUME IInv, Next, ~auto PROVE nextConn' = nextConn
    BY DEF vars, netVars
  <2>1. status # "START"
    BY DEF IInv, CloseSettled
  <2>2. ASSUME NEW t \in Threads, ThreadStep(t) PROVE nextConn' = nextConn
    BY <2>1, <2>2
    DEF ThreadStep, Reconnect, InitConnectSync, ConnectSync, ConnectDone,
        SendInitConnect, ResponseDone, ResponseTimeout, HandleInitConnectRsp,
        ReconnectFailed, netVars
  <2> QED
    BY <2>2
    DEF Next, CtorStart, TimerFire, Close, NetWork, NetConnect, NetSend, NetClose,
        NetEvent, NetConnected, NetConnectFail, NetDisconnect, NetInitRsp, netVars
<1> QED
  BY <1>1, Invariance, PTL DEF Spec, NoConnectAfterClose

\* close() is final but for one step: what takes a context that its user has closed
\* out of CLOSED is a reply to InitConnect that is applied late
\* (_handle_init_connect_rsp, which does not look at the status it overwrites).
THEOREM OnlyALateReplyReopens ==
    Spec => [][~auto /\ status = "CLOSED" /\ ~(\E t \in Threads : HandleInitConnectRsp(t))
                  => status' = "CLOSED"]_vars
<1>1. IInv /\ [Next]_vars
        => [~auto /\ status = "CLOSED" /\ ~(\E t \in Threads : HandleInitConnectRsp(t))
                => status' = "CLOSED"]_vars
  <2> SUFFICES ASSUME IInv, Next, ~auto, status = "CLOSED",
                      \A t \in Threads : ~HandleInitConnectRsp(t)
               PROVE  status' = "CLOSED"
    BY DEF vars, ctxVars
  <2>1. ASSUME NEW st \in {status, "CLOSED"}, NEW p, DropSession(st, p) PROVE status' = "CLOSED"
    BY <2>1 DEF DropSession, WaitReconnect
  <2>2. ~CtorStart
    BY DEF CtorStart, IInv, CloseSettled
  <2>3. ASSUME NEW t \in Threads, ThreadStep(t) PROVE status' = "CLOSED"
    BY <2>1, <2>3
    DEF ThreadStep, Reconnect, InitConnectSync, ConnectSync, ConnectDone,
        SendInitConnect, ResponseDone, ResponseTimeout, ReconnectFailed, ctxVars
  <2>4. CASE NetWork
    BY <2>1, <2>4 DEF NetWork, NetConnect, NetSend, NetClose, OnDisconnect, ctxVars
  <2>5. ASSUME NEW c \in Conns, NetEvent(c) PROVE status' = "CLOSED"
    BY <2>1, <2>5
    DEF NetEvent, NetConnected, NetConnectFail, NetDisconnect, OnConnect, OnDisconnect
  <2> QED
    BY <2>2, <2>3, <2>4, <2>5 DEF Next, TimerFire, Close, NetInitRsp, ctxVars
<1> QED
  BY <1>1, Invariance, PTL DEF Spec

-----------------------------------------------------------------------------
(***************************************************************************)
(* ClosedForGood. A lost connection ends in WAIT_RECONNECT, so CLOSED comes *)
(* from a refused attempt, whose thread is told, or from the user. The     *)
(* invariant follows every attempt to the thread that awaits it, through   *)
(* the queue and the table of the network thread.                          *)
(***************************************************************************)
\* Threads that are neither gone nor merely set.
Working == {"start", "init", "connect", "waitConn", "sendInit", "waitRsp", "gotRsp",
            "failed"}

\* The work to open a connection is queued once, and done later than that.
ConnectQueued ==
    /\ \A c \in Conns : c >= nextConn => conn[c] = "none"
    /\ \A i \in DOMAIN queue : queue[i].op = "connect" =>
          /\ conn[queue[i].conn] = "queued"
          /\ \A j \in DOMAIN queue :
                queue[j].op = "connect" /\ queue[j].conn = queue[i].conn => j = i

\* An attempt without an outcome has its thread in _connect_sync.
AttemptAwaited ==
    \A c \in Conns :
        /\ conn[c] \in {"none", "queued", "connecting"} => info[c] = "pending"
        /\ conn[c] # "none" /\ info[c] = "pending" =>
              \E t \in Threads : pc[t] = "waitConn" /\ myConn[t] = c

ConnectingPending ==
    status = "CONNECTING" => conn[connId] # "none" /\ info[connId] = "pending"

ClosedSeenTo ==
    status = "CLOSED" => \/ \E t \in Threads : pc[t] \in Working
                         \/ ~auto /\ executor = "closed"

CInv == IInv /\ ConnectQueued /\ AttemptAwaited /\ ConnectingPending /\ ClosedSeenTo

LEMMA QueueFacts ==
    ASSUME queue \in Seq(Work)
    PROVE  \A i \in DOMAIN queue : queue[i].op = "connect" => queue[i].conn \in Conns
<1>1. \A i \in DOMAIN queue : queue[i] \in Work
  OBVIOUS
<1> QED
  BY <1>1 DEF Work

\* Other work, and the changes of connections that are open or opening.
LEMMA QueueFrame ==
    ASSUME TypeOK, ConnectQueued, UNCHANGED nextConn,
           \/ queue' = queue
           \/ queue # <<>> /\ queue' = Tail(queue)
           \/ \E w \in Work : w.op # "connect" /\ queue' = Append(queue, w),
           \A c \in Conns : conn'[c] = conn[c] \/ conn[c] \notin {"none", "queued"}
    PROVE  ConnectQueued'
<1> USE DEF TypeOK, ConnectQueued
<1>1. \A c \in Conns : c >= nextConn' => conn'[c] = "none"
  OBVIOUS
<1>2. \A i \in DOMAIN queue : queue[i].op = "connect" =>
         queue[i].conn \in Conns /\ conn'[queue[i].conn] = "queued"
  BY QueueFacts
<1>3. CASE queue' = queue
  BY <1>1, <1>2, <1>3
<1>4. CASE queue # <<>> /\ queue' = Tail(queue)
  <2>1. \A i \in DOMAIN queue' : i + 1 \in DOMAIN queue /\ queue'[i] = queue[i + 1]
    BY <1>4
  <2>2. \A i \in DOMAIN queue' : i \in Nat
    BY <1>4
  <2> QED
    BY <1>1, <1>2, <2>1, <2>2
<1>5. CASE \E w \in Work : w.op # "connect" /\ queue' = Append(queue, w)
  <2>1. \A i \in DOMAIN queue' : queue'[i].op = "connect" =>
           i \in DOMAIN queue /\ queue'[i] = queue[i]
    BY <1>5
  <2> QED
    BY <1>1, <1>2, <2>1
<1> QED
  BY <1>3, <1>4, <1>5

\* Steps in which no thread stops waiting for an attempt without an outcome.
LEMMA AwaitFrame ==
    ASSUME TypeOK, AttemptAwaited, UNCHANGED <<info, myConn>>,
           \A c \in Conns : conn'[c] = conn[c]
                              \/ (conn[c] # "none" /\ conn'[c] \in {"connected", "closed"}),
           \A t \in Threads : pc[t] = "waitConn" /\ info[myConn[t]] = "pending"
                                 => pc'[t] = "waitConn"
    PROVE  AttemptAwaited'
<1> SUFFICES ASSUME NEW c \in Conns
             PROVE  /\ conn'[c] \in {"none", "queued", "connecting"} => info[c] = "pending"
                    /\ conn'[c] # "none" /\ info[c] = "pending" =>
                          \E t \in Threads : pc'[t] = "waitConn" /\ myConn[t] = c
  BY DEF AttemptAwaited
<1>1. conn'[c] \in {"none", "queued", "connecting"} => info[c] = "pending"
  BY DEF AttemptAwaited
<1>2. ASSUME conn'[c] # "none", info[c] = "pending"
      PROVE  \E t \in Threads : pc'[t] = "waitConn" /\ myConn[t] = c
  <2>1. PICK t \in Threads : pc[t] = "waitConn" /\ myConn[t] = c
    BY <1>2 DEF AttemptAwaited
  <2> QED
    BY <1>2, <2>1
<1> QED
  BY <1>1, <1>2

\* A thread moves on and is still at work, and the rest stays.
LEMMA MoveOn ==
    ASSUME CInv, NEW t \in Threads, NEW q \in Working,
           pc' = [pc EXCEPT ![t] = q],
           pc[t] = "waitConn" => info[myConn[t]] # "pending",
           UNCHANGED <<auto, status, connId, executor, conn, info, nextConn, myConn>>,
           queue' = queue \/ \E w \in Work : w.op # "connect" /\ queue' = Append(queue, w)
    PROVE  ConnectQueued' /\ AttemptAwaited' /\ ConnectingPending' /\ ClosedSeenTo'
<1> USE DEF CInv, IInv
<1>1. ConnectQueued'
  BY QueueFrame
<1>2. AttemptAwaited'
  <2>1. \A u \in Threads : u # t => pc'[u] = pc[u]
    BY DEF TypeOK
  <2> QED
    BY <2>1, AwaitFrame
<1>3. ConnectingPending'
  BY DEF ConnectingPending
<1>4. ClosedSeenTo'
  BY DEF ClosedSeenTo, TypeOK
<1> QED
  BY <1>1, <1>2, <1>3, <1>4

\* on_disconnect and a failed reconnection leave a context that will reconnect,
\* or an executor that was told to quit.
LEMMA DropSessionSeenTo ==
    ASSUME CInv, NEW st, NEW p \in [Threads -> Points],
           \A t \in Threads : p[t] = pc[t] \/ (p[t] = "free" /\ pc[t] # "waitConn"),
           DropSession(st, p),
           st = "CLOSED" \/ (st = status /\ st # "CLOSED")
             \/ (st = status /\ \E t \in Threads : pc[t] = "failed"),
           UNCHANGED <<info, myConn, nextConn>>,
           \A c \in Conns : conn'[c] = conn[c]
                              \/ (conn[c] \in {"connecting", "connected"} /\ conn'[c] = "closed"),
           \/ queue' = queue
           \/ queue # <<>> /\ queue' = Tail(queue)
           \/ \E w \in Work : w.op # "connect" /\ queue' = Append(queue, w)
    PROVE  ConnectQueued' /\ AttemptAwaited' /\ ConnectingPending' /\ ClosedSeenTo'
<1> USE DEF CInv, IInv
<1> DEFINE q == CancelTimer(p)
<1>1. ConnectQueued'
  BY QueueFrame
<1>2. \A t \in Threads : q[t] = p[t] \/ (q[t] = "free" /\ p[t] = "armed")
  BY ConstantFacts DEF CancelTimer, TypeOK
<1>3. \A t \in Threads : pc[t] = "waitConn" => pc'[t] = "waitConn"
  BY <1>2, ConstantFacts DEF DropSession, WaitReconnect, CancelTimer
<1>4. AttemptAwaited'
  BY <1>3, AwaitFrame
<1>5. ConnectingPending' /\ ClosedSeenTo'
  <2>1. executor' = IF auto THEN "open" ELSE "closed"
    BY DEF DropSession, CloseExecutor
  <2>2. auto' = auto
    BY DEF DropSession
  <2>3. \/ status' = "WAIT_RECONNECT"
        \/ ~auto /\ status' = st /\ connId' = connId
        \/ status' = st /\ connId' = connId /\ st \in {"CONNECTED", "CONNECTING", "CLOSING"}
    BY DEF DropSession, WaitReconnect
  <2>4. ConnectingPending'
    BY <2>3 DEF ConnectingPending, HasConnId, TypeOK
  <2>5. ClosedSeenTo'
    BY <2>1, <2>2, <2>3 DEF ClosedSeenTo
  <2> QED
    BY <2>4, <2>5
<1> QED
  BY <1>1, <1>4, <1>5

LEMMA InitSeenTo ==
    Init => ConnectQueued /\ AttemptAwaited /\ ConnectingPending /\ ClosedSeenTo
BY ConstantFacts DEF Init, ConnectQueued, AttemptAwaited, ConnectingPending, ClosedSeenTo

LEMMA ThreadSeenTo ==
    ASSUME CInv, NEW t \in Threads, ThreadStep(t)
    PROVE  ConnectQueued' /\ AttemptAwaited' /\ ConnectingPending' /\ ClosedSeenTo'
<1> USE DEF CInv, IInv
<1>0. ASSUME Fail(t), pc[t] \notin {"free", "armed", "fired"}
      PROVE  \E q \in Working : pc' = [pc EXCEPT ![t] = q]
  <2>1. t = Ctor => auto
    BY <1>0 DEF CloseSettled
  <2> QED
    BY <1>0, <2>1 DEF Fail, Working
<1>1. CASE Reconnect(t)
  <2> DEFINE q == CancelTimer(pc)
  <2>1. \A u \in Threads : q[u] = pc[u] \/ pc[u] = "armed"
    BY ConstantFacts DEF CancelTimer, TypeOK
  <2>2. /\ pc[t] = "fired"
        /\ \A u \in Threads : u # t => pc'[u] = q[u]
    BY <1>1, ConstantFacts DEF Reconnect, CancelTimer, TypeOK
  <2> HIDE DEF q
  <2>5. \A u \in Threads : pc[u] \in Working => pc'[u] = pc[u]
    BY <2>1, <2>2 DEF Working
  <2>6. /\ status' \in {status, "START"}
        /\ UNCHANGED <<auto, connId, executor, conn, info, nextConn, myConn, queue>>
    BY <1>1 DEF Reconnect, netVars
  <2>3. AttemptAwaited'
    BY <2>5, <2>6, AwaitFrame DEF Working
  <2>4. ConnectQueued'
    BY <2>6, QueueFrame
  <2> QED
    BY <2>5, <2>6, <2>3, <2>4 DEF ConnectingPending, ClosedSeenTo
<1>2. CASE InitConnectSync(t)
  <2>1. CASE status = "READY"
    <3>1. /\ pc[t] = "init" /\ pc' = [pc EXCEPT ![t] = "free"]
          /\ UNCHANGED <<status, info, myConn, conn, nextConn, queue>>
      BY <1>2, <2>1 DEF InitConnectSync, Succeed, ctxVars, netVars
    <3>2. \A u \in Threads : pc[u] = "waitConn" => pc'[u] = "waitConn"
      BY <3>1 DEF TypeOK
    <3>3. ConnectQueued' /\ AttemptAwaited'
      BY <3>1, <3>2, AwaitFrame, QueueFrame
    <3> QED
      BY <2>1, <3>1, <3>3 DEF ConnectingPending, ClosedSeenTo
  <2>2. CASE status # "READY"
    <3>1. \E q \in Working : pc' = [pc EXCEPT ![t] = q]
      BY <1>0, <1>2, <2>2 DEF InitConnectSync, Working
    <3> QED
      BY <1>2, <3>1, MoveOn DEF InitConnectSync, ctxVars, netVars
  <2> QED
    BY <2>1, <2>2
<1>3. CASE ConnectSync(t)
  <2>1. CASE status = "START"
    <3>1. /\ nextConn \in Conns /\ pc[t] = "connect"
          /\ status' = "CONNECTING" /\ connId' = nextConn
          /\ nextConn' = nextConn + 1
          /\ conn' = [conn EXCEPT ![nextConn] = "queued"]
          /\ queue' = Append(queue, [op |-> "connect", conn |-> nextConn])
          /\ myConn' = [myConn EXCEPT ![t] = nextConn]
          /\ pc' = [pc EXCEPT ![t] = "waitConn"]
          /\ info' = info
      BY <1>3, <2>1 DEF ConnectSync, Put
    <3>2. conn[nextConn] = "none" /\ info[nextConn] = "pending"
      BY <3>1, ConstantFacts DEF ConnectQueued, AttemptAwaited
    <3>3. ConnectQueued'
      <4>1. \A c \in Conns : c >= nextConn' => conn'[c] = "none"
        BY <3>1, ConstantFacts DEF ConnectQueued, TypeOK
      <4>2. \A i \in DOMAIN queue : queue[i].op = "connect" =>
               /\ queue[i].conn \in Conns /\ queue[i].conn # nextConn
               /\ conn'[queue[i].conn] = "queued"
        BY <3>1, <3>2, QueueFacts DEF ConnectQueued, TypeOK
      <4>3. \A i \in DOMAIN queue' :
               \/ i \in DOMAIN queue /\ queue'[i] = queue[i]
               \/ i = Len(queue) + 1 /\ queue'[i] = [op |-> "connect", conn |-> nextConn]
        BY <3>1 DEF TypeOK
      <4>4. conn'[nextConn] = "queued"
        BY <3>1 DEF TypeOK
      <4>5. ASSUME NEW i \in DOMAIN queue', queue'[i].op = "connect"
            PROVE  /\ conn'[queue'[i].conn] = "queued"
                   /\ \A j \in DOMAIN queue' :
                         queue'[j].op = "connect" /\ queue'[j].conn = queue'[i].conn => j = i
        BY <4>2, <4>3, <4>4, <4>5 DEF ConnectQueued
      <4> QED
        BY <4>1, <4>5 DEF ConnectQueued
    <3>4. AttemptAwaited'
      <4>1. pc'[t] = "waitConn" /\ myConn'[t] = nextConn
        BY <3>1 DEF TypeOK
      <4>2. \A u \in Threads :
               pc[u] = "waitConn" => pc'[u] = "waitConn" /\ myConn'[u] = myConn[u]
        BY <3>1 DEF TypeOK
      <4>3. \A c \in Conns : c # nextConn => conn'[c] = conn[c]
        BY <3>1 DEF TypeOK
      <4> QED
        BY <3>1, <3>2, <4>1, <4>2, <4>3 DEF AttemptAwaited
    <3>5. ConnectingPending' /\ ClosedSeenTo'
      BY <3>1, <3>2 DEF ConnectingPending, ClosedSeenTo, TypeOK
    <3> QED
      BY <3>3, <3>4, <3>5
  <2>2. CASE status # "START"
    <3>1. \E q \in Working : pc' = [pc EXCEPT ![t] = q]
      BY <1>0, <1>3, <2>2 DEF ConnectSync, Working
    <3> QED
      BY <1>3, <2>2, <3>1, MoveOn DEF ConnectSync
  <2> QED
    BY <2>1, <2>2
<1>4. CASE ConnectDone(t)
  <2>1. \E q \in Working : pc' = [pc EXCEPT ![t] = q]
    BY <1>0, <1>4 DEF ConnectDone, Working
  <2> QED
    BY <1>4, <2>1, MoveOn DEF ConnectDone, ctxVars, netVars
<1>5. CASE SendInitConnect(t)
  <2>1. \E q \in Working : pc' = [pc EXCEPT ![t] = q]
    BY <1>0, <1>5 DEF SendInitConnect, Working
  <2>2. queue' = queue \/ \E w \in Work : w.op # "connect" /\ queue' = Append(queue, w)
    <3>1. status = "CONNECTED"
             => [op |-> "send", conn |-> connId, req |-> <<t, connId>>] \in Work
      BY WorkSend DEF HasConnId
    <3> QED
      BY <1>5, <3>1 DEF SendInitConnect, Put
  <2>3. pc[t] = "sendInit"
        /\ UNCHANGED <<auto, status, connId, executor, conn, info, nextConn, myConn>>
    BY <1>5 DEF SendInitConnect, ctxVars
  <2> QED
    BY <2>1, <2>2, <2>3, MoveOn
<1>6. CASE ResponseDone(t)
  <2>1. \E q \in Working : pc' = [pc EXCEPT ![t] = q]
    BY <1>0, <1>6 DEF ResponseDone, Working
  <2> QED
    BY <1>6, <2>1, MoveOn DEF ResponseDone, ctxVars, netVars
<1>7. CASE ResponseTimeout(t)
  <2>1. \E q \in Working : pc' = [pc EXCEPT ![t] = q]
    BY <1>0, <1>7 DEF ResponseTimeout
  <2> QED
    BY <1>7, <2>1, MoveOn DEF ResponseTimeout, ctxVars, netVars
<1>8. CASE HandleInitConnectRsp(t)
  <2>1. /\ pc[t] = "gotRsp" /\ status' = "READY"
        /\ \E q \in {"free", "failed"} : pc' = [pc EXCEPT ![t] = q]
        /\ UNCHANGED <<info, myConn, conn, nextConn, queue>>
    BY <1>8 DEF HandleInitConnectRsp, Succeed, netVars
  <2>2. \A u \in Threads : pc[u] = "waitConn" => pc'[u] = "waitConn"
    BY <2>1 DEF TypeOK
  <2>3. ConnectQueued' /\ AttemptAwaited'
    BY <2>1, <2>2, AwaitFrame, QueueFrame
  <2> QED
    BY <2>1, <2>3 DEF ConnectingPending, ClosedSeenTo
<1>9. CASE ReconnectFailed(t)
  <2> DEFINE p == [pc EXCEPT ![t] = "free"]
             w == [op |-> "close", conn |-> connId, notify |-> FALSE]
  <2>1. /\ pc[t] = "failed" /\ DropSession(status, p)
        /\ queue' = Append(queue, w) /\ w \in Work /\ w.op # "connect"
        /\ UNCHANGED <<info, myConn, nextConn, conn>>
    BY <1>9, WorkClose DEF ReconnectFailed, Put, TypeOK
  <2>2. p \in [Threads -> Points]
        /\ \A u \in Threads : p[u] = pc[u] \/ (p[u] = "free" /\ pc[u] # "waitConn")
    BY <2>1 DEF TypeOK, Points
  <2> HIDE DEF p, w
  <2> QED
    BY <2>1, <2>2, DropSessionSeenTo
<1> QED
  BY <1>1, <1>2, <1>3, <1>4, <1>5, <1>6, <1>7, <1>8, <1>9 DEF ThreadStep

\* An attempt is reported: its thread is still waiting for it.
LEMMA OnConnectSeenTo ==
    ASSUME CInv, NEW c \in Conns, NEW ok \in BOOLEAN, OnConnect(c, ok),
           conn[c] = "connecting",
           conn' = [conn EXCEPT ![c] = IF ok THEN "connected" ELSE "closed"],
           UNCHANGED <<pc, myConn, nextConn, queue>>
    PROVE  ConnectQueued' /\ AttemptAwaited' /\ ConnectingPending' /\ ClosedSeenTo'
<1> USE DEF CInv, IInv
<1>1. conn'[c] \in {"connected", "closed"} /\ \A d \in Conns : d # c => conn'[d] = conn[d]
  BY DEF TypeOK
<1>2. info'[c] # "pending" /\ \A d \in Conns : d # c => info'[d] = info[d]
  BY DEF OnConnect, TypeOK
<1>3. ConnectQueued'
  BY <1>1, QueueFrame
<1>4. AttemptAwaited'
  BY <1>1, <1>2 DEF AttemptAwaited
<1>5. PICK t \in Threads : pc[t] = "waitConn"
  BY DEF AttemptAwaited
<1>6. ClosedSeenTo'
  BY <1>5 DEF ClosedSeenTo, Working
<1>7. ConnectingPending'
  BY DEF OnConnect, ConnectingPending
<1> QED
  BY <1>3, <1>4, <1>6, <1>7

\* Work and answers that do not reach the context.
LEMMA QuietSeenTo ==
    ASSUME CInv, UNCHANGED <<auto, status, connId, executor, pc, info, nextConn, myConn>>,
           \A c \in Conns : conn'[c] = conn[c]
                              \/ (conn[c] \in {"connecting", "connected"} /\ conn'[c] = "closed"),
           queue' = queue \/ (queue # <<>> /\ queue' = Tail(queue))
    PROVE  ConnectQueued' /\ AttemptAwaited' /\ ConnectingPending' /\ ClosedSeenTo'
<1> USE DEF CInv, IInv
<1>1. ConnectQueued'
  BY QueueFrame
<1>2. AttemptAwaited'
  BY AwaitFrame
<1>3. ConnectingPending'
  BY DEF ConnectingPending, HasConnId
<1> QED
  BY <1>1, <1>2, <1>3 DEF ClosedSeenTo

LEMMA NetSeenTo ==
    ASSUME CInv, NetWork
    PROVE  ConnectQueued' /\ AttemptAwaited' /\ ConnectingPending' /\ ClosedSeenTo'
<1> USE DEF CInv, IInv
<1> DEFINE w == Head(queue)
<1>1. CASE NetConnect
  <2> DEFINE c == w.conn
  <2>1. queue # <<>> /\ w.op = "connect" /\ queue' = Tail(queue) /\ c \in Conns
    BY <1>1, GetType DEF NetConnect, TypeOK
  <2>2. /\ \A i \in DOMAIN queue' :
              i \in Nat /\ i + 1 \in DOMAIN queue /\ queue'[i] = queue[i + 1]
        /\ 1 \in DOMAIN queue /\ w = queue[1]
    BY <2>1 DEF TypeOK
  <2>3. conn[c] = "queued"
        /\ \A i \in DOMAIN queue' : queue'[i].op = "connect" => queue'[i].conn # c
    BY <2>1, <2>2 DEF ConnectQueued
  <2>4. /\ conn'[c] \in {"connecting", "connected", "closed"}
        /\ \A d \in Conns : d # c => conn'[d] = conn[d]
    BY <1>1, <2>1 DEF NetConnect, DoConnect, TypeOK
  <2>5. UNCHANGED <<auto, status, connId, executor, pc, info, nextConn, myConn>>
    BY <1>1 DEF NetConnect, ctxVars, thrVars
  <2>6. ConnectQueued'
    <3>1. \A d \in Conns : d >= nextConn' => conn'[d] = "none"
      BY <2>3, <2>4, <2>5 DEF ConnectQueued
    <3>2. \A i \in DOMAIN queue' : queue'[i].op = "connect" =>
             /\ conn'[queue'[i].conn] = "queued"
             /\ \A j \in DOMAIN queue' :
                   queue'[j].op = "connect" /\ queue'[j].conn = queue'[i].conn => j = i
      BY <2>2, <2>3, <2>4, QueueFacts DEF ConnectQueued, TypeOK
    <3> QED
      BY <3>1, <3>2 DEF ConnectQueued
  <2>7. AttemptAwaited'
    BY <2>3, <2>4, <2>5 DEF AttemptAwaited
  <2>8. ConnectingPending' /\ ClosedSeenTo'
    BY <2>4, <2>5 DEF ConnectingPending, ClosedSeenTo, HasConnId
  <2> QED
    BY <2>6, <2>7, <2>8
<1>2. CASE NetSend
  <2> DEFINE c == w.conn
  <2>1. /\ queue # <<>> /\ w.op = "send" /\ queue' = Tail(queue)
        /\ c \in Conns /\ UNCHANGED <<info, myConn, nextConn>>
    BY <1>2, GetType DEF NetSend, TypeOK
  <2>2. CASE UNCHANGED <<ctxVars, pc, conn>>
    BY <2>1, <2>2, QuietSeenTo DEF ctxVars
  <2>3. CASE conn[c] = "connected" /\ CloseConn(c) /\ OnDisconnect
    <3>1. \A d \in Conns : conn'[d] = conn[d]
             \/ (conn[d] \in {"connecting", "connected"} /\ conn'[d] = "closed")
      BY <2>3 DEF CloseConn, TypeOK
    <3> QED
      BY <2>1, <2>3, <3>1, DropSessionSeenTo DEF OnDisconnect, TypeOK
  <2> QED
    BY <1>2, <2>2, <2>3 DEF NetSend
<1>3. CASE NetClose
  <2> DEFINE c == w.conn
  <2>1. /\ queue # <<>> /\ queue' = Tail(queue)
        /\ UNCHANGED <<info, myConn, nextConn>>
    BY <1>3 DEF NetClose
  <2>2. CASE ~InTable(c)
    BY <1>3, <2>1, <2>2, QuietSeenTo DEF NetClose, ctxVars
  <2>3. CASE InTable(c)
    <3>1. CloseConn(c)
      BY <1>3, <2>3 DEF NetClose
    <3>2. \A d \in Conns : conn'[d] = conn[d]
             \/ (conn[d] \in {"connecting", "connected"} /\ conn'[d] = "closed")
      BY <2>3, <3>1 DEF CloseConn, InTable, TypeOK
    <3>3. CASE OnDisconnect
      BY <2>1, <3>2, <3>3, DropSessionSeenTo DEF OnDisconnect, TypeOK
    <3>4. CASE UNCHANGED <<ctxVars, pc>>
      BY <2>1, <3>2, <3>4, QuietSeenTo DEF ctxVars
    <3> QED
      BY <1>3, <2>3, <3>3, <3>4 DEF NetClose
  <2> QED
    BY <2>2, <2>3
<1> QED
  BY <1>1, <1>2, <1>3 DEF NetWork

LEMMA EventSeenTo ==
    ASSUME CInv, NEW c \in Conns, NetEvent(c)
    PROVE  ConnectQueued' /\ AttemptAwaited' /\ ConnectingPending' /\ ClosedSeenTo'
<1> USE DEF CInv, IInv
<1>1. CASE NetConnected(c)
  BY <1>1, OnConnectSeenTo DEF NetConnected, thrVars
<1>2. CASE NetConnectFail(c)
  BY <1>2, OnConnectSeenTo DEF NetConnectFail, CloseConn, thrVars
<1>3. CASE NetDisconnect(c)
  <2>1. \A d \in Conns : conn'[d] = conn[d]
           \/ (conn[d] \in {"connecting", "connected"} /\ conn'[d] = "closed")
    BY <1>3 DEF NetDisconnect, CloseConn, TypeOK
  <2> QED
    BY <1>3, <2>1, DropSessionSeenTo DEF NetDisconnect, OnDisconnect, TypeOK
<1> QED
  BY <1>1, <1>2, <1>3 DEF NetEvent

LEMMA CloseSeenTo ==
    ASSUME CInv, Close
    PROVE  ConnectQueued' /\ AttemptAwaited' /\ ConnectingPending' /\ ClosedSeenTo'
<1> USE DEF CInv, IInv
<1>1. /\ auto' = FALSE
      /\ UNCHANGED <<connId, conn, info, nextConn, myConn>>
  BY DEF Close
<1>2. \A t \in Threads : pc[t] \in Working => pc'[t] = pc[t]
  BY ConstantFacts DEF Close, CancelTimer, Working, TypeOK
<1>3. AttemptAwaited'
  BY <1>1, <1>2, AwaitFrame DEF Working
<1>4. ConnectQueued'
  <2> DEFINE w == [op |-> "close", conn |-> connId, notify |-> TRUE]
  <2>1. w \in Work /\ w.op # "connect"
    BY WorkClose DEF TypeOK
  <2>2. queue' = queue \/ queue' = Append(queue, w)
    BY DEF Close, Put
  <2> HIDE DEF w
  <2> QED
    BY <1>1, <2>1, <2>2, QueueFrame
<1>5. ConnectingPending'
  BY DEF Close, ConnectingPending
<1>6. ClosedSeenTo'
  <2>1. CASE status \in {"CLOSING", "CLOSED"}
    BY <1>1, <1>2, <2>1 DEF Close, ClosedSeenTo, Working
  <2>2. CASE status \notin {"CLOSING", "CLOSED"}
    BY <1>1, <2>2 DEF Close, CloseExecutor, ClosedSeenTo
  <2> QED
    BY <2>1, <2>2
<1> QED
  BY <1>3, <1>4, <1>5, <1>6

LEMMA NextSeenTo == CInv /\ [Next]_vars => CInv'
<1> SUFFICES ASSUME CInv, [Next]_vars PROVE CInv'
  OBVIOUS
<1> USE DEF CInv, IInv
<1>0. IInv'
  BY NextInvariant
<1>1. CASE CtorStart
  <2>1. /\ pc[Ctor] = "start" /\ pc' = [pc EXCEPT ![Ctor] = "init"] /\ status' = "START"
        /\ UNCHANGED <<conn, info, nextConn, myConn, queue>>
    BY <1>1 DEF CtorStart, netVars
  <2>2. \A t \in Threads : pc[t] = "waitConn" => pc'[t] = "waitConn"
    BY <2>1 DEF TypeOK
  <2>3. ConnectQueued' /\ AttemptAwaited'
    BY <2>1, <2>2, QueueFrame, AwaitFrame
  <2> QED
    BY <1>0, <2>1, <2>3 DEF ConnectingPending, ClosedSeenTo
<1>2. ASSUME NEW t \in Timers, TimerFire(t) PROVE CInv'
  <2>1. /\ pc[t] = "armed" /\ pc' = [pc EXCEPT ![t] = "fired"]
        /\ UNCHANGED <<auto, status, connId, executor, conn, info, nextConn, myConn, queue>>
    BY <1>2 DEF TimerFire, ctxVars, netVars
  <2>2. \A u \in Threads : pc[u] \in Working => pc'[u] = pc[u]
    BY <2>1 DEF TypeOK, Working
  <2>3. ConnectQueued' /\ AttemptAwaited'
    BY <2>1, <2>2, QueueFrame, AwaitFrame DEF Working
  <2> QED
    BY <1>0, <2>1, <2>2, <2>3 DEF ConnectingPending, ClosedSeenTo
<1>3. ASSUME NEW t \in Threads, ThreadStep(t) PROVE CInv'
  BY <1>0, <1>3, ThreadSeenTo
<1>4. CASE Close
  BY <1>0, <1>4, CloseSeenTo
<1>5. CASE NetWork
  BY <1>0, <1>5, NetSeenTo
<1>6. ASSUME NEW c \in Conns, NetEvent(c) PROVE CInv'
  BY <1>0, <1>6, EventSeenTo
<1>7. ASSUME NEW r \in inbox, NEW answer \in InitReplies, NetInitRsp(r, answer)
      PROVE  CInv'
  <2>1. UNCHANGED <<auto, status, connId, executor, pc, info, nextConn, myConn, conn, queue>>
    BY <1>7 DEF NetInitRsp, ctxVars, thrVars
  <2> QED
    BY <1>0, <2>1, QuietSeenTo
<1>8. CASE UNCHANGED vars
  <2>1. UNCHANGED <<auto, status, connId, executor, pc, info, nextConn, myConn, conn, queue>>
    BY <1>8 DEF vars, ctxVars, thrVars, netVars
  <2> QED
    BY <1>0, <2>1, QuietSeenTo
<1> QED
  BY <1>1, <1>2, <1>3, <1>4, <1>5, <1>6, <1>7, <1>8 DEF Next

\* A context that is CLOSED with no thread at work was closed by the user and
\* its push thread told to quit: no refusal and no lost connection ends there
\* (on_connect, on_disconnect, _wait_reconnect, close).
THEOREM ClosedByTheUser == Spec => []ClosedForGood
<1>1. Init => CInv
  BY InitInvariant, InitSeenTo DEF CInv
<1>2. CInv => ClosedForGood
  BY DEF CInv, ClosedSeenTo, ClosedForGood, Working
<1> QED
  BY <1>1, <1>2, NextSeenTo, PTL DEF Spec

-----------------------------------------------------------------------------
(***************************************************************************)
(* Attended. A context that is to reconnect is in one of six phases, and   *)
(* in each of them at most one thread is at work on it and at most one     *)
(* connection, the one _conn_id names, is not closed. The gateway may be   *)
(* away or drop a connection, but it does not refuse InitConnect (the run  *)
(* OpenContext_refused shows what a refusal leads to), and no attempt ends *)
(* within do_connect: its thread would wait for ever, which Attended alone *)
(* would count as seeing to it (the run OpenContext_unreachable).          *)
(***************************************************************************)
\* Connections the network thread has, or has still to open.
Alive(c) == conn[c] \in {"queued", "connecting", "connected"}

Gone(c) == c = NoConn \/ conn[c] = "closed"

NoneAlive == \A c \in Conns : ~Alive(c)

OneAlive == \A c \in Conns : Alive(c) => c = connId

\* Nobody, or nobody but t, is connecting.
AtWork(t) == pc[t] \notin {"free", "armed"}

Alone(t) == \A u \in Threads : AtWork(u) => u = t

NobodyAtWork == \A u \in Threads : ~AtWork(u)

Up == connId \in Conns /\ conn[connId] = "connected"

\* The phases of a context that is to reconnect: it serves the user, ...
ServingPhase == NobodyAtWork /\ timer = NoTimer /\ status = "READY" /\ Up

\* ... its timer is set, and a thread that was connecting finds out that its
\* connection is lost, ...
Late(t) ==
    \/ pc[t] = "waitConn" /\ info[myConn[t]] # "pending"
    \/ pc[t] = "waitRsp" /\ rsp[<<t, mySent[t]>>] # "pending"
    \/ pc[t] \in {"sendInit", "gotRsp", "failed"}

Lost == NoneAlive /\ timer \in Timers /\ pc[timer] = "armed" /\ status = "WAIT_RECONNECT"

TimerSet == NoneAlive /\ timer \in Timers /\ status \in {"WAIT_RECONNECT", "READY"}

WaitingPhase ==
    \/ TimerSet /\ pc[timer] = "armed" /\ NobodyAtWork
    \/ Lost /\ \E t \in Timers : Alone(t) /\ Late(t)
    \/ TimerSet /\ pc[timer] = "fired" /\ Alone(timer)

\* ... its timer has fired and nothing is begun, ...
StartPhase ==
    /\ NoneAlive /\ timer = NoTimer /\ status = "START"
    /\ \E t \in Timers : Alone(t) /\ pc[t] \in {"init", "connect"}

\* ... a connection is being made, ...
ConnectingPhase ==
    /\ timer = NoTimer /\ status = "CONNECTING"
    /\ connId \in Conns /\ conn[connId] \in {"queued", "connecting"}
    /\ info[connId] = "pending"
    /\ \E t \in Timers : Alone(t) /\ pc[t] = "waitConn" /\ myConn[t] = connId

\* ... it stands and InitConnect is under way, ...
InitPhase ==
    /\ timer = NoTimer /\ status = "CONNECTED" /\ Up
    /\ \E t \in Timers :
          /\ Alone(t)
          /\ \/ pc[t] = "waitConn" /\ myConn[t] = connId /\ info[connId] = "Ok"
             \/ pc[t] = "waitRsp" /\ mySent[t] = connId
             \/ pc[t] \in {"sendInit", "gotRsp"}

\* ... or it could not be made.
FailedPhase ==
    /\ NoneAlive /\ timer = NoTimer /\ status = "CLOSED"
    /\ \E t \in Timers :
          /\ Alone(t)
          /\ pc[t] = "failed" \/ (pc[t] = "waitConn" /\ info[myConn[t]] = "Fail")

Phase == \/ ServingPhase \/ WaitingPhase \/ StartPhase
         \/ ConnectingPhase \/ InitPhase \/ FailedPhase

\* What is asked of the network thread, and of the gateway.
CloseOfGone ==
    \A i \in DOMAIN queue : queue[i].op = "close" => Gone(queue[i].conn)

Asked ==
    /\ \A r \in reqMap : conn[r[2]] \in {"connected", "closed"}
    /\ \A r \in Requests : rsp[r] \in {"pending", "ok"}
                              \/ (rsp[r] = "disconnect" /\ conn[r[2]] = "closed")

AutoInv ==
    /\ connId # NoConn => conn[connId] # "none"
    /\ CloseOfGone /\ Asked /\ Phase

Rest == pc[Ctor] = "free" /\ OneAlive /\ (auto => AutoInv)

AInv == CInv /\ Rest

\* A thread that can run does so before the next timer fires, and no exception leaves
\* on_api_socket_reconnected.
Steady == Prompt = TRUE /\ Callbacks \subseteq {"returns"}

\* The gateway may be away or drop a connection at any time; when it answers, it
\* answers well.
Benign ==
    /\ Modes \subseteq {"async"} /\ ConnectOutcomes \subseteq {"pending"}
    /\ InitReplies \subseteq {"ok"} /\ Steady

-----------------------------------------------------------------------------
\* Steps that leave requests and dead connections what they are.
LEMMA GoneFrame ==
    ASSUME TypeOK, CloseOfGone,
           \/ queue' = queue
           \/ queue # <<>> /\ queue' = Tail(queue)
           \/ \E w \in Work : /\ queue' = Append(queue, w)
                              /\ w.op = "close" => w.conn = NoConn \/ conn'[w.conn] = "closed",
           \A c \in Conns : conn[c] = "closed" => conn'[c] = "closed"
    PROVE  CloseOfGone'
<1>1. queue \in Seq(Work)
  BY DEF TypeOK
<1>2. \A i \in DOMAIN queue : queue[i].op = "close" =>
         queue[i].conn = NoConn \/ conn'[queue[i].conn] = "closed"
  <2>1. \A i \in DOMAIN queue : queue[i] \in Work
    BY <1>1
  <2>2. \A w \in Work : w.op = "close" => w.conn \in Conns \union {NoConn}
    BY DEF Work
  <2> QED
    BY <2>1, <2>2 DEF CloseOfGone, Gone
<1>3. CASE queue' = queue
  BY <1>2, <1>3 DEF CloseOfGone, Gone
<1>4. CASE queue # <<>> /\ queue' = Tail(queue)
  <2>1. \A i \in DOMAIN queue' : i + 1 \in DOMAIN queue /\ queue'[i] = queue[i + 1]
    BY <1>1, <1>4
  <2> QED
    BY <1>2, <2>1 DEF CloseOfGone, Gone
<1>5. ASSUME NEW w \in Work, queue' = Append(queue, w),
             w.op = "close" => w.conn = NoConn \/ conn'[w.conn] = "closed"
      PROVE  CloseOfGone'
  <2>1. \A i \in DOMAIN queue' : queue'[i] = w \/ (i \in DOMAIN queue /\ queue'[i] = queue[i])
    BY <1>1, <1>5
  <2> QED
    BY <1>2, <1>5, <2>1 DEF CloseOfGone, Gone
<1> QED
  BY <1>3, <1>4, <1>5

LEMMA AskedFrame ==
    ASSUME TypeOK, Asked, UNCHANGED reqVars,
           \A c \in Conns : /\ conn[c] = "closed" => conn'[c] = "closed"
                            /\ conn[c] = "connected" => conn'[c] \in {"connected", "closed"}
    PROVE  Asked'
<1>1. \A r \in Requests : r[2] \in Conns
  BY DEF Requests
<1>2. reqMap' = reqMap /\ rsp' = rsp /\ reqMap \subseteq Requests
  BY DEF reqVars, TypeOK
<1>3. \A r \in reqMap : conn'[r[2]] \in {"connected", "closed"}
  BY <1>1, <1>2 DEF Asked
<1>4. \A r \in Requests : rsp[r] \in {"pending", "ok"}
                             \/ (rsp[r] = "disconnect" /\ conn'[r[2]] = "closed")
  BY <1>1 DEF Asked
<1> QED
  BY <1>2, <1>3, <1>4 DEF Asked

\* The one thread at work takes a step of its own.
LEMMA WorkerMoves ==
    ASSUME TypeOK, NEW t \in Threads, Alone(t), NEW q, pc' = [pc EXCEPT ![t] = q]
    PROVE  /\ pc'[t] = q /\ Alone(t)'
           /\ q \in {"free", "armed"} => NobodyAtWork'
           /\ \A u \in Threads : u # t => pc'[u] = pc[u] /\ pc[u] \in {"free", "armed"}
<1>1. pc'[t] = q /\ \A u \in Threads : u # t => pc'[u] = pc[u]
  BY DEF TypeOK
<1>2. \A u \in Threads : u # t => pc[u] \in {"free", "armed"}
  BY DEF Alone, AtWork
<1> QED
  BY <1>1, <1>2 DEF Alone, NobodyAtWork, AtWork

\* Which phases the thread at work may be in.
LEMMA WhereIs ==
    ASSUME TypeOK, Phase, NEW t \in Threads, AtWork(t)
    PROVE  /\ Alone(t) /\ t \in Timers
           /\ pc[t] = "fired" => TimerSet /\ timer = t
           /\ pc[t] \in {"init", "connect"} => StartPhase
           /\ pc[t] = "waitConn" /\ info[myConn[t]] # "pending" =>
                 \/ Lost
                 \/ InitPhase /\ info[myConn[t]] = "Ok"
                 \/ FailedPhase /\ info[myConn[t]] = "Fail"
           /\ pc[t] = "waitRsp" /\ rsp[<<t, mySent[t]>>] # "pending" =>
                 Lost \/ (InitPhase /\ mySent[t] = connId)
           /\ pc[t] \in {"sendInit", "gotRsp"} => Lost \/ InitPhase
           /\ pc[t] = "failed" => Lost \/ FailedPhase
           /\ pc[t] # "start"
<1> USE DEF Alone, AtWork, NobodyAtWork
<1>1. CASE ServingPhase
  BY <1>1 DEF ServingPhase
<1>2. CASE WaitingPhase
  <2>1. CASE TimerSet /\ pc[timer] = "armed" /\ NobodyAtWork
    BY <2>1
  <2>2. CASE Lost /\ \E u \in Timers : Alone(u) /\ Late(u)
    <3>1. t \in Timers /\ Alone(t) /\ Late(t)
      BY <2>2
    <3> QED
      BY <2>2, <3>1 DEF Late
  <2>3. CASE TimerSet /\ pc[timer] = "fired" /\ Alone(timer)
    <3>1. t = timer /\ t \in Timers
      BY <2>3 DEF TimerSet
    <3> QED
      BY <2>3, <3>1
  <2> QED
    BY <1>2, <2>1, <2>2, <2>3 DEF WaitingPhase
<1>3. CASE StartPhase
  BY <1>3 DEF StartPhase
<1>4. CASE ConnectingPhase
  BY <1>4 DEF ConnectingPhase
<1>5. CASE InitPhase
  BY <1>5 DEF InitPhase
<1>6. CASE FailedPhase
  BY <1>6 DEF FailedPhase
<1> QED
  BY <1>1, <1>2, <1>3, <1>4, <1>5, <1>6 DEF Phase

\* A step of the thread at work that leaves all but its place alone.
LEMMA PlaceStep ==
    ASSUME AInv, NEW t \in Threads, auto, AtWork(t), NEW q, pc' = [pc EXCEPT ![t] = q],
           UNCHANGED <<ctxVars, reqVars, netVars>>, Phase'
    PROVE  Rest'
<1>1. TypeOK /\ AutoInv /\ t # Ctor /\ pc[Ctor] = "free" /\ OneAlive
  BY DEF AInv, Rest, CInv, IInv, AtWork
<1>2. UNCHANGED <<connId, queue, conn, auto>>
  BY DEF ctxVars, netVars
<1>3. CloseOfGone' /\ Asked'
  BY <1>1, <1>2, GoneFrame, AskedFrame DEF AutoInv
<1>4. OneAlive' /\ pc'[Ctor] = "free"
  BY <1>1, <1>2, ConstantFacts DEF OneAlive, Alive, TypeOK
<1> QED
  BY <1>1, <1>2, <1>3, <1>4 DEF Rest, AutoInv

-----------------------------------------------------------------------------
\* The steps of the thread at work.
LEMMA ConnectSyncRest ==
    ASSUME AInv, NEW t \in Threads, auto, ConnectSync(t)
    PROVE  Rest'
<1>1. TypeOK /\ AutoInv /\ pc[t] = "connect" /\ AtWork(t) /\ ConnectQueued /\ AttemptAwaited
  BY DEF AInv, Rest, CInv, IInv, AtWork, ConnectSync
<1>2. Alone(t) /\ t \in Timers /\ StartPhase
  BY <1>1, WhereIs DEF AutoInv
<1>3. /\ nextConn \in Conns /\ status' = "CONNECTING" /\ connId' = nextConn
      /\ conn' = [conn EXCEPT ![nextConn] = "queued"]
      /\ queue' = Append(queue, [op |-> "connect", conn |-> nextConn])
      /\ myConn' = [myConn EXCEPT ![t] = nextConn]
      /\ pc' = [pc EXCEPT ![t] = "waitConn"]
      /\ UNCHANGED <<auto, timer, reqVars, info>>
  BY <1>2 DEF ConnectSync, StartPhase, Put
<1>4. conn[nextConn] = "none" /\ info[nextConn] = "pending"
  BY <1>1, <1>3 DEF ConnectQueued, AttemptAwaited, Conns
<1>5. /\ conn'[nextConn] = "queued"
      /\ \A c \in Conns : c # nextConn => conn'[c] = conn[c] /\ ~Alive(c)
  BY <1>1, <1>2, <1>3 DEF TypeOK, StartPhase, NoneAlive
<1>6. OneAlive'
  BY <1>3, <1>5 DEF OneAlive, Alive
<1>7. CloseOfGone'
  <2>1. \E w \in Work : queue' = Append(queue, w) /\ w.op # "close"
    BY <1>3, WorkConnect
  <2> QED
    BY <1>1, <1>3, <1>4, <1>5, <2>1, GoneFrame DEF AutoInv
<1>8. Asked'
  BY <1>1, <1>3, <1>4, <1>5, AskedFrame DEF AutoInv
<1>9. ConnectingPhase'
  <2>1. Alone(t)' /\ pc'[t] = "waitConn" /\ myConn'[t] = nextConn
    BY <1>1, <1>2, <1>3, WorkerMoves DEF TypeOK
  <2> QED
    BY <1>2, <1>3, <1>4, <1>5, <2>1 DEF ConnectingPhase, StartPhase
<1>10. pc'[Ctor] = "free"
  BY <1>1, <1>2, <1>3, ConstantFacts DEF AInv, Rest, TypeOK
<1> QED
  BY <1>3, <1>5, <1>6, <1>7, <1>8, <1>9, <1>10 DEF Rest, AutoInv, Phase

LEMMA SendInitConnectRest ==
    ASSUME AInv, NEW t \in Threads, auto, SendInitConnect(t)
    PROVE  Rest'
<1>1. TypeOK /\ AutoInv /\ pc[t] = "sendInit" /\ AtWork(t) /\ OneAlive
  BY DEF AInv, Rest, CInv, IInv, AtWork, SendInitConnect
<1>2. Alone(t) /\ t \in Timers /\ t # Ctor /\ (Lost \/ InitPhase)
  BY <1>1, WhereIs, ConstantFacts DEF AutoInv
<1>3. CASE status = "CONNECTED"
  <2>1. InitPhase
    BY <1>2, <1>3 DEF Lost
  <2>2. /\ reqMap' = reqMap \union {<<t, connId>>} /\ rsp' = rsp
        /\ queue' = Append(queue, [op |-> "send", conn |-> connId, req |-> <<t, connId>>])
        /\ mySent' = [mySent EXCEPT ![t] = connId] /\ pc' = [pc EXCEPT ![t] = "waitRsp"]
        /\ UNCHANGED <<auto, status, connId, timer, conn, info, myConn>>
    BY <1>3 DEF SendInitConnect, Put, ctxVars
  <2>3. connId \in Conns /\ conn[connId] = "connected"
    BY <2>1 DEF InitPhase, Up
  <2>4. CloseOfGone'
    <3>1. \E w \in Work : queue' = Append(queue, w) /\ w.op # "close"
      BY <2>2, <2>3, WorkSend
    <3> QED
      BY <1>1, <2>2, <3>1, GoneFrame DEF AutoInv
  <2>5. Asked'
    BY <1>1, <2>2, <2>3 DEF AutoInv, Asked
  <2>6. InitPhase'
    <3>1. Alone(t)' /\ pc'[t] = "waitRsp" /\ mySent'[t] = connId
      BY <1>1, <1>2, <2>2, WorkerMoves DEF TypeOK
    <3> QED
      BY <1>2, <2>1, <2>2, <3>1 DEF InitPhase, Up
  <2>7. pc'[Ctor] = "free" /\ OneAlive'
    BY <1>1, <1>2, <2>2, ConstantFacts DEF AInv, Rest, TypeOK, OneAlive, Alive
  <2> QED
    BY <1>1, <2>2, <2>4, <2>5, <2>6, <2>7 DEF Rest, AutoInv, Phase
<1>4. CASE status # "CONNECTED"
  <2>1. Lost
    BY <1>2, <1>4 DEF InitPhase
  <2>2. pc' = [pc EXCEPT ![t] = "failed"] /\ UNCHANGED <<ctxVars, reqVars, netVars>>
    BY <1>2, <1>4 DEF SendInitConnect, Fail, ctxVars, reqVars, netVars
  <2>3. WaitingPhase'
    <3>1. Alone(t)' /\ pc'[t] = "failed" /\ pc'[timer] = "armed"
      BY <1>1, <1>2, <2>1, <2>2, WorkerMoves, ConstantFacts DEF Lost
    <3> QED
      BY <1>2, <2>1, <2>2, <3>1
      DEF WaitingPhase, Lost, Late, NoneAlive, Alive, ctxVars, netVars
  <2> QED
    BY <1>1, <2>2, <2>3, PlaceStep DEF Phase
<1> QED
  BY <1>3, <1>4

\* A connection stands: the thread goes on, or finds that it is gone again.
LEMMA WorkerGoesOn ==
    ASSUME AInv, NEW t \in Threads, auto, AtWork(t), NEW q,
           pc' = [pc EXCEPT ![t] = q],
           UNCHANGED <<ctxVars, reqVars, netVars>>,
           \/ Lost /\ q \in {"sendInit", "gotRsp", "failed"}
           \/ InitPhase /\ q \in {"sendInit", "gotRsp"}
           \/ FailedPhase /\ q = "failed"
           \/ StartPhase /\ q = "connect"
    PROVE  Rest'
<1>1. TypeOK /\ Phase
  BY DEF AInv, Rest, CInv, IInv, AutoInv
<1>2. Alone(t) /\ t \in Timers
  BY <1>1, WhereIs
<1>3. /\ Alone(t)' /\ pc'[t] = q
      /\ timer \in Timers /\ pc[timer] = "armed" => pc'[timer] = "armed"
  BY <1>1, <1>2, WorkerMoves, ConstantFacts DEF AtWork
<1>4. UNCHANGED <<status, timer, connId, conn, info>>
  BY DEF ctxVars, netVars
<1>5. NoneAlive => NoneAlive'
  BY <1>4 DEF NoneAlive, Alive
<1>6. CASE Lost /\ q \in {"sendInit", "gotRsp", "failed"}
  BY <1>2, <1>3, <1>4, <1>5, <1>6, PlaceStep DEF Phase, WaitingPhase, Lost, Late
<1>7. CASE InitPhase /\ q \in {"sendInit", "gotRsp"}
  BY <1>2, <1>3, <1>4, <1>7, PlaceStep DEF Phase, InitPhase, Up
<1>8. CASE FailedPhase /\ q = "failed"
  BY <1>2, <1>3, <1>4, <1>5, <1>8, PlaceStep DEF Phase, FailedPhase
<1>9. CASE StartPhase /\ q = "connect"
  BY <1>2, <1>3, <1>4, <1>5, <1>9, PlaceStep DEF Phase, StartPhase
<1> QED
  BY <1>6, <1>7, <1>8, <1>9

LEMMA ReconnectRest ==
    ASSUME AInv, NEW t \in Threads, auto, Reconnect(t)
    PROVE  Rest'
<1>1. TypeOK /\ AutoInv /\ pc[t] = "fired" /\ AtWork(t) /\ OneAlive
  BY DEF AInv, Rest, CInv, IInv, AtWork, Reconnect
<1>2. Alone(t) /\ t \in Timers /\ t # Ctor /\ TimerSet /\ timer = t
  BY <1>1, WhereIs, ConstantFacts DEF AutoInv
<1>3. CancelTimer(pc) = pc
  BY <1>1, <1>2 DEF CancelTimer
<1>4. /\ timer' = NoTimer /\ status' = "START" /\ pc' = [pc EXCEPT ![t] = "init"]
      /\ UNCHANGED <<auto, connId, reqVars, netVars>>
  BY <1>2, <1>3, ConstantFacts DEF Reconnect
<1>5. conn' = conn /\ queue' = queue
  BY <1>4 DEF netVars
<1>6. CloseOfGone' /\ Asked'
  BY <1>1, <1>4, <1>5, GoneFrame, AskedFrame DEF AutoInv
<1>7. StartPhase'
  <2>1. Alone(t)' /\ pc'[t] = "init"
    BY <1>1, <1>2, <1>4, WorkerMoves
  <2> QED
    BY <1>2, <1>4, <1>5, <2>1 DEF StartPhase, TimerSet, NoneAlive, Alive
<1>8. pc'[Ctor] = "free" /\ OneAlive'
  BY <1>1, <1>2, <1>4, <1>5, ConstantFacts DEF AInv, Rest, TypeOK, OneAlive, Alive
<1> QED
  BY <1>1, <1>4, <1>5, <1>6, <1>7, <1>8 DEF Rest, AutoInv, Phase

LEMMA HandleInitConnectRspRest ==
    ASSUME AInv, Benign, NEW t \in Threads, auto, HandleInitConnectRsp(t)
    PROVE  Rest'
<1>1. TypeOK /\ AutoInv /\ pc[t] = "gotRsp" /\ AtWork(t) /\ OneAlive
  BY DEF AInv, Rest, CInv, IInv, AtWork, HandleInitConnectRsp
<1>2. Alone(t) /\ t \in Timers /\ t # Ctor /\ (Lost \/ InitPhase)
  BY <1>1, WhereIs, ConstantFacts DEF AutoInv
<1>3. /\ status' = "READY" /\ pc' = [pc EXCEPT ![t] = "free"]
      /\ UNCHANGED <<auto, connId, timer, reqVars, netVars>>
  BY DEF HandleInitConnectRsp, Succeed, Benign, Steady
<1>4. conn' = conn /\ queue' = queue
  BY <1>3 DEF netVars
<1>5. CloseOfGone' /\ Asked'
  BY <1>1, <1>3, <1>4, GoneFrame, AskedFrame DEF AutoInv
<1>6. NobodyAtWork' /\ (timer \in Timers /\ pc[timer] = "armed" => pc'[timer] = "armed")
  BY <1>1, <1>2, <1>3, WorkerMoves, ConstantFacts
<1>7. ASSUME Lost PROVE Phase'
  BY <1>3, <1>4, <1>6, <1>7 DEF Phase, WaitingPhase, TimerSet, Lost, NoneAlive, Alive
<1>8. ASSUME InitPhase PROVE Phase'
  BY <1>3, <1>4, <1>6, <1>8 DEF Phase, ServingPhase, InitPhase, Up
<1>9. Phase'
  BY <1>2, <1>7, <1>8
<1>10. pc'[Ctor] = "free" /\ OneAlive'
  BY <1>1, <1>2, <1>3, <1>4, ConstantFacts DEF AInv, Rest, TypeOK, OneAlive, Alive
<1> QED
  BY <1>1, <1>3, <1>4, <1>5, <1>9, <1>10 DEF Rest, AutoInv

\* What DropSession does to a context that is to reconnect; p is pc without the
\* thread that is leaving, and nobody else has a timer.
LEMMA DropArms ==
    ASSUME TypeOK, auto, NEW st, st \notin {"CONNECTED", "CONNECTING", "CLOSING"},
           NEW p \in [Threads -> Points], DropSession(st, p)
    PROVE  /\ auto' = auto /\ status' = "WAIT_RECONNECT" /\ connId' = NoConn
           /\ timer' \in Timers /\ pc'[timer'] = "armed"
           /\ \A u \in Threads :
                 pc'[u] = p[u] \/ (/\ u \in Timers /\ p[u] \in {"free", "armed"}
                                  /\ pc'[u] \in {"free", "armed"})
           /\ reqMap' = {}
           /\ rsp' = [r \in Requests |-> IF r \in reqMap THEN "disconnect" ELSE rsp[r]]
<1> DEFINE q == CancelTimer(p)
<1>1. /\ q \in [Threads -> Points]
      /\ \A u \in Threads :
            q[u] = p[u] \/ (u \in Timers /\ p[u] = "armed" /\ q[u] = "free")
  <2>1. timer \in Timers \union {NoTimer}
    BY DEF TypeOK
  <2> QED
    BY <2>1, ConstantFacts DEF CancelTimer, Points
<1>2. /\ auto' = auto /\ reqMap' = {}
      /\ rsp' = [r \in Requests |-> IF r \in reqMap THEN "disconnect" ELSE rsp[r]]
  BY DEF DropSession, PopAllReqInfo
<1>3. PICK k \in Timers : /\ q[k] = "free" /\ timer' = k /\ pc' = [q EXCEPT ![k] = "armed"]
                          /\ status' = "WAIT_RECONNECT" /\ connId' = NoConn
  BY DEF DropSession, WaitReconnect
<1> HIDE DEF q
<1>4. pc'[k] = "armed" /\ \A u \in Threads : u # k => pc'[u] = q[u]
  BY <1>1, <1>3, ConstantFacts
<1> QED
  BY <1>1, <1>2, <1>3, <1>4, ConstantFacts

LEMMA ReconnectFailedRest ==
    ASSUME AInv, NEW t \in Threads, auto, ReconnectFailed(t)
    PROVE  Rest'
<1>1. TypeOK /\ AutoInv /\ pc[t] = "failed" /\ AtWork(t)
  BY DEF AInv, Rest, CInv, IInv, AtWork, ReconnectFailed
<1>2. /\ Alone(t) /\ t \in Timers /\ t # Ctor
      /\ NoneAlive /\ status \in {"CLOSED", "WAIT_RECONNECT"}
  BY <1>1, WhereIs, ConstantFacts DEF AutoInv, Lost, FailedPhase
<1> DEFINE p == [pc EXCEPT ![t] = "free"]
<1>3. /\ p \in [Threads -> Points] /\ p[Ctor] = "free"
      /\ \A u \in Threads : p[u] \in {"free", "armed"}
  BY <1>1, <1>2, ConstantFacts DEF TypeOK, Points, Alone, AtWork, AInv, Rest
<1>4. DropSession(status, p) /\ conn' = conn
      /\ queue' = Append(queue, [op |-> "close", conn |-> connId, notify |-> FALSE])
  BY DEF ReconnectFailed, Put
<1> HIDE DEF p
<1>5. /\ auto' = auto /\ status' = "WAIT_RECONNECT" /\ connId' = NoConn
      /\ timer' \in Timers /\ pc'[timer'] = "armed"
      /\ \A u \in Threads : pc'[u] \in {"free", "armed"}
      /\ pc'[Ctor] = p[Ctor]
      /\ reqMap' = {}
      /\ rsp' = [r \in Requests |-> IF r \in reqMap THEN "disconnect" ELSE rsp[r]]
  BY <1>1, <1>2, <1>3, <1>4, DropArms, ConstantFacts
<1>6. Gone(connId)
  BY <1>1, <1>2 DEF TypeOK, AutoInv, NoneAlive, Alive, Gone
<1>7. CloseOfGone'
  <2>1. \E w \in Work : queue' = Append(queue, w)
                           /\ (w.op = "close" => w.conn = NoConn \/ conn'[w.conn] = "closed")
    <3>1. [op |-> "close", conn |-> connId, notify |-> FALSE] \in Work
      BY <1>1, WorkClose DEF TypeOK
    <3> QED
      BY <1>4, <1>6, <3>1 DEF Gone
  <2> QED
    BY <1>1, <1>4, <2>1, GoneFrame DEF AutoInv
<1>8. Asked'
  <2>1. \A r \in reqMap : r[2] \in Conns /\ conn[r[2]] = "closed"
    BY <1>1, <1>2 DEF TypeOK, Requests, AutoInv, Asked, NoneAlive, Alive
  <2> QED
    BY <1>1, <1>4, <1>5, <2>1 DEF AutoInv, Asked
<1>9. NoneAlive' /\ OneAlive'
  BY <1>2, <1>4 DEF NoneAlive, OneAlive, Alive
<1>10. WaitingPhase'
  BY <1>5, <1>9 DEF WaitingPhase, TimerSet, NobodyAtWork, AtWork
<1>11. pc'[Ctor] = "free"
  BY <1>3, <1>5
<1> QED
  BY <1>5, <1>7, <1>8, <1>9, <1>10, <1>11 DEF Rest, AutoInv, Phase

LEMMA ThreadRest ==
    ASSUME AInv, Benign, NEW t \in Threads, auto, ThreadStep(t)
    PROVE  Rest'
<1>1. TypeOK /\ AutoInv /\ Phase /\ pc[Ctor] = "free" /\ auto \in BOOLEAN
  BY DEF AInv, Rest, CInv, IInv, AutoInv, TypeOK
<1>2. AtWork(t)
  BY DEF ThreadStep, AtWork, Reconnect, InitConnectSync, ConnectSync, ConnectDone,
         SendInitConnect, ResponseDone, ResponseTimeout, HandleInitConnectRsp,
         ReconnectFailed
<1>3. t \in Timers /\ t # Ctor
  BY <1>1, <1>2, WhereIs, ConstantFacts
<1>4. CASE InitConnectSync(t)
  <2>1. StartPhase /\ status = "START"
    BY <1>1, <1>2, <1>4, WhereIs DEF InitConnectSync, StartPhase
  <2>2. pc' = [pc EXCEPT ![t] = "connect"] /\ UNCHANGED <<ctxVars, reqVars, netVars>>
    BY <1>4, <2>1 DEF InitConnectSync
  <2> QED
    BY <1>2, <2>1, <2>2, WorkerGoesOn
<1>5. CASE ConnectDone(t)
  <2>1. /\ pc[t] = "waitConn" /\ info[myConn[t]] # "pending"
        /\ UNCHANGED <<ctxVars, reqVars, netVars>>
        /\ \/ info[myConn[t]] = "Ok" /\ pc' = [pc EXCEPT ![t] = "sendInit"]
           \/ info[myConn[t]] # "Ok" /\ pc' = [pc EXCEPT ![t] = "failed"]
    BY <1>3, <1>5 DEF ConnectDone, Fail
  <2>2. \/ Lost
        \/ InitPhase /\ info[myConn[t]] = "Ok"
        \/ FailedPhase /\ info[myConn[t]] = "Fail"
    BY <1>1, <1>2, <2>1, WhereIs
  <2> QED
    BY <1>2, <2>1, <2>2, WorkerGoesOn
<1>6. CASE ResponseDone(t)
  <2>1. /\ pc[t] = "waitRsp" /\ rsp[<<t, mySent[t]>>] # "pending"
        /\ UNCHANGED <<ctxVars, reqVars, netVars>>
        /\ \/ rsp[<<t, mySent[t]>>] = "ok" /\ pc' = [pc EXCEPT ![t] = "gotRsp"]
           \/ rsp[<<t, mySent[t]>>] # "ok" /\ pc' = [pc EXCEPT ![t] = "failed"]
    BY <1>3, <1>6 DEF ResponseDone, Fail
  <2>2. Lost \/ (InitPhase /\ mySent[t] = connId)
    BY <1>1, <1>2, <2>1, WhereIs
  <2>3. InitPhase /\ mySent[t] = connId => rsp[<<t, mySent[t]>>] = "ok"
    <3>1. SUFFICES ASSUME InitPhase, mySent[t] = connId PROVE rsp[<<t, connId>>] = "ok"
      OBVIOUS
    <3>2. <<t, connId>> \in Requests /\ conn[connId] = "connected"
      BY <3>1 DEF InitPhase, Up, Requests
    <3>3. rsp[<<t, connId>>] # "disconnect"
      BY <1>1, <3>2 DEF AutoInv, Asked
    <3> QED
      BY <1>1, <2>1, <3>1, <3>2, <3>3 DEF AutoInv, Asked
  <2> QED
    BY <1>2, <2>1, <2>2, <2>3, WorkerGoesOn
<1>7. ~ResponseTimeout(t)
  BY DEF ResponseTimeout, Benign
<1> QED
  BY <1>4, <1>5, <1>6, <1>7, ReconnectRest, ConnectSyncRest, SendInitConnectRest,
     HandleInitConnectRspRest, ReconnectFailedRest DEF ThreadStep

LEMMA TimerFireRest ==
    ASSUME AInv, Benign, NEW t \in Timers, auto, TimerFire(t)
    PROVE  Rest'
<1>1. TypeOK /\ AutoInv /\ Phase /\ OneTimer /\ pc[Ctor] = "free" /\ OneAlive
  BY DEF AInv, Rest, CInv, IInv, AutoInv
<1>2. /\ pc[t] = "armed" /\ timer = t /\ pc' = [pc EXCEPT ![t] = "fired"]
      /\ \A u \in Threads : ~Runnable(u)
      /\ UNCHANGED <<ctxVars, reqVars, netVars>>
  BY <1>1 DEF TimerFire, Benign, Steady, OneTimer
<1>3. UNCHANGED <<status, auto, timer, connId, conn, queue>>
  BY <1>2 DEF ctxVars, netVars
<1>4. TimerSet /\ NobodyAtWork
  <2>1. WaitingPhase
    BY <1>1, <1>2, ConstantFacts
    DEF Phase, ServingPhase, StartPhase, ConnectingPhase, InitPhase, FailedPhase
  <2>2. ~(\E u \in Timers : Late(u))
    BY <1>2, ConstantFacts DEF Late, Runnable
  <2> QED
    BY <1>2, <2>1, <2>2 DEF WaitingPhase
<1>5. pc'[t] = "fired" /\ Alone(t)'
  BY <1>1, <1>2, <1>4, ConstantFacts DEF TypeOK, Alone, NobodyAtWork, AtWork
<1>6. WaitingPhase'
  BY <1>2, <1>3, <1>4, <1>5 DEF WaitingPhase, TimerSet, NoneAlive, Alive
<1>7. CloseOfGone' /\ Asked'
  BY <1>1, <1>2, <1>3, GoneFrame, AskedFrame DEF AutoInv
<1>8. pc'[Ctor] = "free" /\ OneAlive'
  BY <1>1, <1>2, <1>3, ConstantFacts DEF TypeOK, OneAlive, Alive
<1> QED
  BY <1>1, <1>3, <1>6, <1>7, <1>8 DEF Rest, AutoInv, Phase

-----------------------------------------------------------------------------
\* The network thread and the gateway.

\* A connection that stood is lost.
LEMMA LossRest ==
    ASSUME AInv, auto, NEW c \in Conns, conn[c] = "connected", CloseConn(c), OnDisconnect,
           UNCHANGED <<myConn, mySent, info>>,
           queue' = queue \/ (queue # <<>> /\ queue' = Tail(queue))
    PROVE  Rest'
<1>1. TypeOK /\ AutoInv /\ OneAlive /\ pc[Ctor] = "free" /\ NoLostWakeup
  BY DEF AInv, Rest, CInv, IInv
<1>2. connId = c
  BY <1>1 DEF OneAlive, Alive
<1>3. timer = NoTimer /\ (ServingPhase \/ InitPhase)
  <2>1. ~NoneAlive
    BY DEF NoneAlive, Alive
  <2> QED
    BY <1>1, <1>2, <2>1
    DEF AutoInv, Phase, ServingPhase, InitPhase, WaitingPhase, TimerSet, Lost, StartPhase,
        ConnectingPhase, FailedPhase
<1>4. CancelTimer(pc) = pc
  BY <1>3 DEF CancelTimer
<1>5. /\ auto' = auto /\ status' = "WAIT_RECONNECT" /\ connId' = NoConn
      /\ timer' \in Timers /\ pc'[timer'] = "armed"
      /\ \A u \in Threads :
            pc'[u] = pc[u] \/ (/\ u \in Timers /\ pc[u] \in {"free", "armed"}
                              /\ pc'[u] \in {"free", "armed"})
      /\ reqMap' = {}
      /\ rsp' = [r \in Requests |-> IF r \in reqMap THEN "disconnect" ELSE rsp[r]]
  <2>1. DropSession("CLOSED", pc) /\ pc \in [Threads -> Points]
    BY <1>1 DEF OnDisconnect, TypeOK
  <2> QED
    BY <1>1, <2>1, DropArms
<1>6. conn'[c] = "closed" /\ \A d \in Conns : d # c => conn'[d] = conn[d] /\ ~Alive(d)
  BY <1>1, <1>2 DEF CloseConn, TypeOK, OneAlive
<1>7. NoneAlive' /\ OneAlive'
  BY <1>6 DEF NoneAlive, OneAlive, Alive
<1>8. CloseOfGone'
  BY <1>1, <1>6, GoneFrame DEF AutoInv
<1>9. Asked'
  <2>1. \A r \in Requests : r[2] \in Conns
    BY DEF Requests
  <2>2. \A r \in reqMap : r \in Requests /\ conn'[r[2]] = "closed"
    BY <1>1, <1>6, <2>1 DEF TypeOK, AutoInv, Asked, Alive
  <2>3. \A r \in Requests : conn[r[2]] = "closed" => conn'[r[2]] = "closed"
    BY <1>6, <2>1
  <2> QED
    BY <1>1, <1>5, <2>2, <2>3 DEF AutoInv, Asked
<1>10. CASE ServingPhase
  <2>1. NobodyAtWork'
    BY <1>5, <1>10 DEF ServingPhase, NobodyAtWork, AtWork
  <2> QED
    BY <1>1, <1>5, <1>7, <1>8, <1>9, <2>1, ConstantFacts
    DEF Rest, AutoInv, Phase, WaitingPhase, TimerSet, NobodyAtWork, AtWork
<1>11. CASE InitPhase
  <2>1. PICK t \in Timers :
           /\ Alone(t)
           /\ \/ pc[t] = "waitConn" /\ myConn[t] = connId /\ info[connId] = "Ok"
              \/ pc[t] = "waitRsp" /\ mySent[t] = connId
              \/ pc[t] \in {"sendInit", "gotRsp"}
    BY <1>11 DEF InitPhase
  <2>2. Alone(t)' /\ pc'[t] = pc[t]
    BY <1>5, <2>1, ConstantFacts DEF Alone, AtWork
  <2>3. Late(t)'
    <3>1. CASE pc[t] = "waitRsp" /\ mySent[t] = connId
      <4>1. <<t, connId>> \in Requests
        BY <1>2, ConstantFacts DEF Requests
      <4>2. rsp'[<<t, connId>>] # "pending"
        BY <1>1, <1>5, <3>1, <4>1, ConstantFacts DEF NoLostWakeup
      <4> QED
        BY <2>2, <3>1, <4>2 DEF Late
    <3> QED
      BY <2>1, <2>2, <3>1 DEF Late
  <2>4. WaitingPhase'
    BY <1>5, <1>7, <2>2, <2>3 DEF WaitingPhase, Lost
  <2> QED
    BY <1>1, <1>5, <1>7, <1>8, <1>9, <2>4, ConstantFacts DEF Rest, AutoInv, Phase
<1> QED
  BY <1>3, <1>10, <1>11

\* Steps that take work from the queue and do nothing else.
LEMMA QuietRest ==
    ASSUME AInv, UNCHANGED <<ctxVars, reqVars, pc, myConn, mySent, conn, info>>,
           queue' = queue \/ (queue # <<>> /\ queue' = Tail(queue))
    PROVE  Rest'
<1>1. TypeOK
  BY DEF AInv, CInv, IInv
<1>2. UNCHANGED <<auto, status, connId, timer, rsp, reqMap>>
  BY DEF ctxVars, reqVars
<1>3. OneAlive' /\ pc'[Ctor] = "free"
  BY <1>2 DEF AInv, Rest, OneAlive, Alive
<1>4. ASSUME auto PROVE CloseOfGone' /\ Asked'
  BY <1>1, <1>2, <1>4, GoneFrame, AskedFrame DEF AInv, Rest, AutoInv
<1>5. ASSUME auto PROVE Phase'
  <2>1. Phase
    BY <1>5 DEF AInv, Rest, AutoInv
  <2>2. /\ NoneAlive' <=> NoneAlive
        /\ NobodyAtWork' <=> NobodyAtWork
        /\ \A u : Alone(u)' <=> Alone(u)
        /\ \A u : Late(u)' <=> Late(u)
        /\ Up' <=> Up
    BY <1>2 DEF NoneAlive, Alive, NobodyAtWork, AtWork, Alone, Late, Up
  <2>3. (TimerSet' <=> TimerSet) /\ (Lost' <=> Lost)
    BY <1>2, <2>2 DEF TimerSet, Lost
  <2>4. (ServingPhase' <=> ServingPhase) /\ (StartPhase' <=> StartPhase)
    BY <1>2, <2>2 DEF ServingPhase, StartPhase
  <2>5. WaitingPhase' <=> WaitingPhase
    BY <1>2, <2>2, <2>3 DEF WaitingPhase
  <2>6. (ConnectingPhase' <=> ConnectingPhase) /\ (FailedPhase' <=> FailedPhase)
    BY <1>2, <2>2 DEF ConnectingPhase, FailedPhase
  <2>7. InitPhase' <=> InitPhase
    BY <1>2, <2>2 DEF InitPhase
  <2> QED
    BY <2>1, <2>4, <2>5, <2>6, <2>7 DEF Phase
<1> QED
  BY <1>2, <1>3, <1>4, <1>5 DEF AInv, Rest, AutoInv

\* A connection on its way: the context is connecting, and its thread waits.
LEMMA OnItsWay ==
    ASSUME AInv, auto, NEW c \in Conns, conn[c] \in {"queued", "connecting"}
    PROVE  c = connId /\ ConnectingPhase
<1>1. c = connId /\ ~NoneAlive
  BY DEF AInv, Rest, OneAlive, NoneAlive, Alive
<1> QED
  BY <1>1 DEF AInv, Rest, AutoInv, Phase, ServingPhase, WaitingPhase, TimerSet, Lost, StartPhase,
              InitPhase, FailedPhase, Up

\* What becomes of such a connection.
LEMMA ConnectRest ==
    ASSUME AInv, auto, NEW c \in Conns, conn[c] \in {"queued", "connecting"}, NEW v,
           conn' = [conn EXCEPT ![c] = v],
           queue' = queue \/ (queue # <<>> /\ queue' = Tail(queue)),
           UNCHANGED <<auto, connId, timer, reqVars, thrVars>>,
           \/ v = "connecting" /\ UNCHANGED <<status, info>>
           \/ v = "connected" /\ status' = "CONNECTED" /\ info' = [info EXCEPT ![c] = "Ok"]
           \/ v = "closed" /\ status' = "CLOSED" /\ info' = [info EXCEPT ![c] = "Fail"]
    PROVE  Rest'
<1>1. TypeOK /\ AutoInv /\ OneAlive /\ pc[Ctor] = "free"
  BY DEF AInv, Rest, CInv, IInv
<1>2. c = connId /\ ConnectingPhase
  BY OnItsWay
<1>3. conn'[c] = v /\ \A d \in Conns : d # c => conn'[d] = conn[d] /\ ~Alive(d)
  BY <1>1, <1>2 DEF TypeOK, OneAlive
<1>4. pc' = pc /\ myConn' = myConn /\ mySent' = mySent
  BY DEF thrVars
<1>5. OneAlive'
  BY <1>2, <1>3 DEF OneAlive, Alive
<1>6. CloseOfGone' /\ Asked'
  <2>1. \A d \in Conns : /\ conn[d] = "closed" => conn'[d] = "closed"
                         /\ conn[d] = "connected" => conn'[d] \in {"connected", "closed"}
    BY <1>3
  <2> QED
    BY <1>1, <2>1, GoneFrame, AskedFrame DEF AutoInv
<1>7. PICK t \in Timers : Alone(t) /\ pc[t] = "waitConn" /\ myConn[t] = connId
  BY <1>2 DEF ConnectingPhase
<1>8. Alone(t)'
  BY <1>4, <1>7 DEF Alone, AtWork
<1>9. Phase'
  <2>1. CASE v = "connecting" /\ UNCHANGED <<status, info>>
    BY <1>2, <1>3, <1>4, <1>7, <1>8, <2>1 DEF Phase, ConnectingPhase
  <2>2. CASE v = "connected" /\ status' = "CONNECTED" /\ info' = [info EXCEPT ![c] = "Ok"]
    <3>1. info'[connId] = "Ok"
      BY <1>1, <1>2, <2>2 DEF TypeOK
    <3> QED
      BY <1>2, <1>3, <1>4, <1>7, <1>8, <2>2, <3>1
      DEF Phase, InitPhase, Up, ConnectingPhase
  <2>3. CASE v = "closed" /\ status' = "CLOSED" /\ info' = [info EXCEPT ![c] = "Fail"]
    <3>1. info'[myConn[t]] = "Fail"
      BY <1>1, <1>2, <1>7, <2>3 DEF TypeOK
    <3>2. NoneAlive'
      BY <1>3, <2>3 DEF NoneAlive, Alive
    <3> QED
      BY <1>2, <1>4, <1>7, <1>8, <2>3, <3>1, <3>2 DEF Phase, FailedPhase, ConnectingPhase
  <2> QED
    BY <2>1, <2>2, <2>3
<1>10. connId' # NoConn => conn'[connId'] # "none"
  BY <1>2, <1>3
<1> QED
  BY <1>1, <1>4, <1>5, <1>6, <1>9, <1>10 DEF Rest, AutoInv

LEMMA NetWorkRest ==
    ASSUME AInv, Benign, auto, NetWork
    PROVE  Rest'
<1>1. TypeOK /\ AutoInv /\ ConnectQueued /\ queue # <<>> /\ queue' = Tail(queue)
  BY DEF AInv, Rest, CInv, IInv, NetWork, NetConnect, NetSend, NetClose
<1> DEFINE w == Head(queue)
<1>2. /\ w.op = "connect" => w.conn \in Conns /\ conn[w.conn] = "queued"
      /\ w.op = "send" => w.conn \in Conns
      /\ w.op = "close" => Gone(w.conn)
  <2>1. queue \in Seq(Work) /\ 1 \in DOMAIN queue /\ w = queue[1]
    BY <1>1 DEF TypeOK
  <2> HIDE DEF w
  <2>2. w.op = "send" => w.conn \in Conns
    BY <1>1, <2>1, GetType DEF w
  <2>3. w.op = "connect" => w.conn \in Conns
    BY <1>1, <2>1, GetType DEF w
  <2> QED
    BY <1>1, <2>1, <2>2, <2>3 DEF ConnectQueued, AutoInv, CloseOfGone
<1>3. CASE NetConnect
  <2>1. /\ w.conn \in Conns /\ conn[w.conn] = "queued"
        /\ conn' = [conn EXCEPT ![w.conn] = "connecting"]
        /\ UNCHANGED <<auto, connId, timer, reqVars, thrVars, status, info>>
    BY <1>2, <1>3 DEF NetConnect, DoConnect, Benign, ctxVars
  <2> HIDE DEF w
  <2> QED
    BY <1>1, <2>1, ConnectRest
<1>4. CASE NetSend
  <2>1. w.conn \in Conns /\ UNCHANGED <<myConn, mySent, info>>
    BY <1>2, <1>4 DEF NetSend
  <2>2. \/ UNCHANGED <<ctxVars, reqVars, pc, conn>>
        \/ conn[w.conn] = "connected" /\ CloseConn(w.conn) /\ OnDisconnect
    BY <1>4 DEF NetSend
  <2> HIDE DEF w
  <2> QED
    BY <1>1, <2>1, <2>2, QuietRest, LossRest
<1>5. CASE NetClose
  <2>1. ~InTable(w.conn)
    BY <1>2, <1>5 DEF NetClose, Gone, InTable
  <2>2. UNCHANGED <<ctxVars, reqVars, pc, conn, myConn, mySent, info>>
    BY <1>5, <2>1 DEF NetClose
  <2> QED
    BY <1>1, <2>2, QuietRest
<1> QED
  BY <1>3, <1>4, <1>5 DEF NetWork

LEMMA NetEventRest ==
    ASSUME AInv, auto, NEW c \in Conns, NetEvent(c)
    PROVE  Rest'
<1>1. CASE NetConnected(c)
  <2>1. conn[c] = "connecting" /\ status = "CONNECTING"
    BY <1>1, OnItsWay DEF NetConnected, ConnectingPhase
  <2> QED
    BY <1>1, <2>1, ConnectRest DEF NetConnected, OnConnect
<1>2. CASE NetConnectFail(c)
  <2>1. conn[c] = "connecting" /\ status = "CONNECTING"
    BY <1>2, OnItsWay DEF NetConnectFail, ConnectingPhase
  <2> QED
    BY <1>2, <2>1, ConnectRest DEF NetConnectFail, OnConnect, CloseConn
<1>3. CASE NetDisconnect(c)
  BY <1>3, LossRest DEF NetDisconnect
<1> QED
  BY <1>1, <1>2, <1>3 DEF NetEvent

LEMMA NetInitRspRest ==
    ASSUME AInv, Benign, auto, NEW r \in inbox, NEW answer \in InitReplies,
           NetInitRsp(r, answer)
    PROVE  Rest'
<1>1. TypeOK /\ AutoInv /\ OneAlive /\ pc[Ctor] = "free"
  BY DEF AInv, Rest, CInv, IInv
<1>2. answer = "ok"
  BY DEF Benign
<1>3. /\ UNCHANGED <<auto, status, connId, timer, pc, myConn, mySent, conn, info, queue>>
      /\ reqMap' \subseteq reqMap
      /\ \A q \in Requests : rsp'[q] = rsp[q] \/ rsp'[q] = "ok"
  BY <1>1, <1>2 DEF NetInitRsp, ctxVars, thrVars, reqVars, TypeOK
<1>4. OneAlive' /\ CloseOfGone' /\ pc'[Ctor] = "free"
  BY <1>1, <1>3 DEF OneAlive, Alive, AutoInv, CloseOfGone, Gone
<1>5. Asked'
  BY <1>1, <1>3 DEF AutoInv, Asked
<1>6. /\ NoneAlive' <=> NoneAlive
      /\ NobodyAtWork' <=> NobodyAtWork
      /\ \A u : Alone(u)' <=> Alone(u)
      /\ Up' <=> Up
  BY <1>3 DEF NoneAlive, Alive, NobodyAtWork, AtWork, Alone, Up
<1>7. ASSUME NEW t \in Timers, Late(t), Lost PROVE Late(t)'
  <2>1. CASE pc[t] = "waitRsp" /\ rsp[<<t, mySent[t]>>] # "pending"
    <3>1. <<t, mySent[t]>> \in Requests
      BY <2>1, ConstantFacts DEF AInv, CInv, IInv, HasSent, Requests
    <3> QED
      BY <1>3, <2>1, <3>1 DEF Late
  <2> QED
    BY <1>3, <1>7, <2>1 DEF Late
<1>8. (TimerSet' <=> TimerSet) /\ (Lost' <=> Lost)
  BY <1>3, <1>6 DEF TimerSet, Lost
<1>9. WaitingPhase => WaitingPhase'
  BY <1>3, <1>6, <1>7, <1>8 DEF WaitingPhase
<1>10. (ServingPhase => ServingPhase') /\ (StartPhase => StartPhase')
  BY <1>3, <1>6 DEF ServingPhase, StartPhase
<1>11. (ConnectingPhase => ConnectingPhase') /\ (FailedPhase => FailedPhase')
  BY <1>3, <1>6 DEF ConnectingPhase, FailedPhase
<1>12. InitPhase => InitPhase'
  BY <1>3, <1>6 DEF InitPhase
<1>13. Phase'
  BY <1>1, <1>9, <1>10, <1>11, <1>12 DEF AutoInv, Phase
<1> QED
  BY <1>1, <1>3, <1>4, <1>5, <1>13 DEF Rest, AutoInv

-----------------------------------------------------------------------------
\* The user closes the context, and what is under way after that.
LEMMA DropKeeps ==
    ASSUME TypeOK, ~auto, NEW st, NEW p \in [Threads -> Points], p[Ctor] = "free",
           DropSession(st, p)
    PROVE  auto' = auto /\ connId' = connId /\ pc'[Ctor] = "free"
<1>1. auto' = auto /\ connId' = connId /\ pc' = CancelTimer(p)
  BY DEF DropSession, WaitReconnect
<1> QED
  BY <1>1, ConstantFacts DEF CancelTimer, TypeOK

LEMMA CloseKeeps ==
    ASSUME TypeOK, OneAlive, pc[Ctor] = "free", Close
    PROVE  ~auto' /\ OneAlive' /\ pc'[Ctor] = "free"
<1>1. ~auto' /\ connId' = connId /\ conn' = conn
  BY DEF Close
<1>2. pc' = pc \/ pc' = CancelTimer(pc)
  BY DEF Close
<1>3. pc'[Ctor] = "free"
  BY <1>2, ConstantFacts DEF CancelTimer, TypeOK
<1>4. OneAlive'
  BY <1>1 DEF OneAlive, Alive
<1> QED
  BY <1>1, <1>3, <1>4

LEMMA ClosedKeeps ==
    ASSUME CInv, OneAlive, pc[Ctor] = "free", ~auto, [Next]_vars
    PROVE  ~auto' /\ OneAlive' /\ pc'[Ctor] = "free"
<1>1. /\ TypeOK /\ ConnectQueued /\ OneAlive /\ pc[Ctor] = "free" /\ status # "START"
      /\ pc \in [Threads -> Points]
  BY DEF CInv, IInv, CloseSettled, TypeOK
<1> DEFINE Kept == /\ ~auto' /\ connId' = connId /\ pc'[Ctor] = "free"
                   /\ \A c \in Conns : Alive(c)' => Alive(c)
<1>2. Kept => ~auto' /\ OneAlive' /\ pc'[Ctor] = "free"
  BY <1>1 DEF OneAlive
<1>3. ASSUME NEW c \in Conns, CloseConn(c), OnDisconnect PROVE Kept
  <2>1. \A d \in Conns : Alive(d)' => Alive(d)
    BY <1>1, <1>3 DEF CloseConn, Alive, TypeOK
  <2> QED
    BY <1>1, <1>3, <2>1, DropKeeps DEF OnDisconnect
<1>4. ASSUME NEW t \in Threads, ThreadStep(t) PROVE Kept
  <2>1. t # Ctor /\ pc[t] \notin {"free", "armed"}
    BY <1>1, <1>4
    DEF ThreadStep, Reconnect, InitConnectSync, ConnectSync, ConnectDone,
        SendInitConnect, ResponseDone, ResponseTimeout, HandleInitConnectRsp,
        ReconnectFailed
  <2>2. CASE ReconnectFailed(t)
    <3> DEFINE p == [pc EXCEPT ![t] = "free"]
    <3>1. p \in [Threads -> Points] /\ p[Ctor] = "free"
      BY <1>1, <2>1, ConstantFacts DEF Points
    <3>2. DropSession(status, p) /\ conn' = conn
      BY <2>2 DEF ReconnectFailed
    <3> HIDE DEF p
    <3> QED
      BY <1>1, <3>1, <3>2, DropKeeps DEF Alive
  <2>3. CASE Reconnect(t)
    <3>1. auto' = auto /\ connId' = connId /\ conn' = conn
      BY <2>3 DEF Reconnect, netVars
    <3>2. pc' = [pc EXCEPT ![t] = "free"] \/ pc' = [CancelTimer(pc) EXCEPT ![t] = "free"]
      BY <2>3 DEF Reconnect
    <3>3. pc'[Ctor] = "free"
      BY <1>1, <2>1, <3>2, ConstantFacts DEF CancelTimer, TypeOK
    <3> QED
      BY <3>1, <3>3 DEF Alive
  <2>4. CASE ~Reconnect(t) /\ ~ReconnectFailed(t)
    <3>1. auto' = auto /\ connId' = connId /\ conn' = conn
      BY <1>1, <1>4, <2>4
      DEF ThreadStep, InitConnectSync, ConnectSync, ConnectDone, SendInitConnect,
          ResponseDone, ResponseTimeout, HandleInitConnectRsp, ctxVars, netVars
    <3>2. \E q : pc' = [pc EXCEPT ![t] = q]
      BY <1>1, <1>4, <2>4
      DEF ThreadStep, InitConnectSync, ConnectSync, ConnectDone, SendInitConnect,
          ResponseDone, ResponseTimeout, HandleInitConnectRsp, Succeed, Fail
    <3>3. pc'[Ctor] = "free"
      BY <1>1, <2>1, <3>2, ConstantFacts
    <3> QED
      BY <3>1, <3>3 DEF Alive
  <2> QED
    BY <2>2, <2>3, <2>4
<1>5. CASE NetWork
  <2>1. CASE NetConnect
    <3> DEFINE c == Head(queue).conn
    <3>1. /\ c \in Conns /\ conn[c] = "queued"
      <4>1. queue \in Seq(Work) /\ 1 \in DOMAIN queue /\ Head(queue) = queue[1]
        BY <1>1, <2>1 DEF TypeOK, NetConnect
      <4>2. c \in Conns
        BY <2>1, <4>1, GetType DEF NetConnect
      <4> QED
        BY <1>1, <2>1, <4>1, <4>2 DEF ConnectQueued, NetConnect
    <3>2. \E v : conn' = [conn EXCEPT ![c] = v]
      BY <2>1 DEF NetConnect, DoConnect
    <3> HIDE DEF c
    <3>3. \A d \in Conns : Alive(d)' => Alive(d)
      BY <1>1, <3>1, <3>2 DEF Alive, TypeOK
    <3> QED
      BY <1>1, <1>2, <2>1, <3>3 DEF NetConnect, ctxVars, thrVars
  <2>2. CASE NetSend
    <3>1. Head(queue).conn \in Conns
      BY <1>1, <2>2, GetType DEF TypeOK, NetSend
    <3>2. \/ UNCHANGED <<ctxVars, pc, conn>>
          \/ CloseConn(Head(queue).conn) /\ OnDisconnect
      BY <2>2 DEF NetSend
    <3> QED
      BY <1>1, <1>2, <1>3, <3>1, <3>2 DEF ctxVars, Alive
  <2>3. CASE NetClose
    <3> DEFINE c == Head(queue).conn
    <3>1. \/ UNCHANGED <<ctxVars, pc, conn>>
          \/ InTable(c) /\ CloseConn(c) /\ OnDisconnect
          \/ InTable(c) /\ CloseConn(c) /\ UNCHANGED <<ctxVars, pc>>
      BY <2>3 DEF NetClose
    <3>2. InTable(c) => c \in Conns
      BY <1>1, <2>3, GetType DEF TypeOK, NetClose, InTable
    <3> HIDE DEF c
    <3>3. CloseConn(c) => \A d \in Conns : Alive(d)' => Alive(d)
      BY <1>1 DEF CloseConn, Alive, TypeOK
    <3> QED
      BY <1>1, <1>2, <1>3, <3>1, <3>2, <3>3 DEF ctxVars, Alive
  <2> QED
    BY <1>5, <2>1, <2>2, <2>3 DEF NetWork
<1>6. ASSUME NEW c \in Conns, NetEvent(c) PROVE Kept
  <2>1. CASE NetConnected(c) \/ NetConnectFail(c)
    <3>1. auto' = auto /\ connId' = connId /\ pc' = pc
      BY <2>1 DEF NetConnected, NetConnectFail, OnConnect, thrVars
    <3>2. conn[c] = "connecting" /\ \E v : conn' = [conn EXCEPT ![c] = v]
      BY <2>1 DEF NetConnected, NetConnectFail, CloseConn
    <3>3. \A d \in Conns : Alive(d)' => Alive(d)
      BY <1>1, <3>2 DEF Alive, TypeOK
    <3> QED
      BY <1>1, <3>1, <3>3
  <2>2. CASE NetDisconnect(c)
    BY <1>3, <2>2 DEF NetDisconnect
  <2> QED
    BY <1>6, <2>1, <2>2 DEF NetEvent
<1>7. CASE CtorStart \/ (\E t \in Timers : TimerFire(t))
           \/ (\E r \in inbox, answer \in InitReplies : NetInitRsp(r, answer))
           \/ UNCHANGED vars
  <2>1. UNCHANGED <<auto, connId, conn>>
    BY <1>1, <1>7 DEF CtorStart, TimerFire, NetInitRsp, ctxVars, netVars, vars
  <2>2. pc'[Ctor] = "free"
    BY <1>1, <1>7, ConstantFacts DEF CtorStart, TimerFire, NetInitRsp, thrVars, vars
  <2> QED
    BY <1>2, <2>1, <2>2 DEF Alive
<1> QED
  BY <1>1, <1>2, <1>4, <1>5, <1>6, <1>7, CloseKeeps DEF Next

-----------------------------------------------------------------------------
LEMMA AttendedInit == Benign /\ Init => AInv
<1> SUFFICES ASSUME Benign, Init PROVE AInv
  OBVIOUS
<1>1. CInv
  BY InitInvariant, InitSeenTo DEF CInv
<1>2. /\ status = "WAIT_RECONNECT" /\ timer = 1 /\ 1 \in Timers
      /\ pc = [t \in Threads |-> IF t = 1 THEN "armed" ELSE "free"]
  BY ConstantsAssumption DEF Init, Benign, Timers
<1>3. pc[Ctor] = "free" /\ pc[1] = "armed" /\ NobodyAtWork
  BY <1>2, ConstantFacts DEF NobodyAtWork, AtWork
<1>4. OneAlive /\ NoneAlive
  BY DEF Init, OneAlive, NoneAlive, Alive
<1>5. WaitingPhase
  BY <1>2, <1>3, <1>4 DEF WaitingPhase, TimerSet
<1>6. CloseOfGone /\ Asked /\ connId = NoConn
  BY DEF Init, CloseOfGone, Asked
<1> QED
  BY <1>1, <1>3, <1>4, <1>5, <1>6 DEF AInv, Rest, AutoInv, Phase

LEMMA AttendedNext == Benign /\ AInv /\ [Next]_vars => AInv'
<1> SUFFICES ASSUME Benign, AInv, [Next]_vars PROVE AInv'
  OBVIOUS
<1>1. CInv'
  BY NextSeenTo DEF AInv
<1>2. CASE ~auto
  BY <1>1, <1>2, ClosedKeeps DEF AInv, Rest
<1>3. CASE auto
  <2>1. CASE CtorStart
    BY <2>1 DEF CtorStart, AInv, Rest
  <2>2. ASSUME NEW t \in Timers, TimerFire(t) PROVE Rest'
    BY <1>3, <2>2, TimerFireRest
  <2>3. ASSUME NEW t \in Threads, ThreadStep(t) PROVE Rest'
    BY <1>3, <2>3, ThreadRest
  <2>4. CASE NetWork
    BY <1>1, <1>3, <2>4, NetWorkRest DEF AInv
  <2>5. ASSUME NEW c \in Conns, NetEvent(c) PROVE Rest'
    BY <1>3, <2>5, NetEventRest
  <2>6. ASSUME NEW r \in inbox, NEW answer \in InitReplies, NetInitRsp(r, answer)
        PROVE  Rest'
    BY <1>3, <2>6, NetInitRspRest
  <2>7. CASE UNCHANGED vars
    BY <1>1, <2>7, QuietRest DEF AInv, vars, thrVars, netVars
  <2>8. CASE Close
    BY <1>1, <2>8, CloseKeeps DEF AInv, Rest, CInv, IInv
  <2> QED
    BY <1>1, <2>1, <2>2, <2>3, <2>4, <2>5, <2>6, <2>7, <2>8 DEF Next, AInv
<1> QED
  BY <1>2, <1>3

\* A context that was built with is_async_connect and whose gateway may be away or
\* drop a connection at any time, but answers InitConnect well when it answers, and
\* whose on_api_socket_reconnected raises nothing, is never given up: a thread or a timer sees to it, or it serves the user on a
\* connection that stands (open_context_base.py, _wait_reconnect, on_disconnect and
\* _reconnect).
THEOREM NeverGivenUp ==
    ASSUME Benign
    PROVE  Spec => []Attended
<1>1. Init => AInv
  BY AttendedInit
<1>2. AInv /\ [Next]_vars => AInv'
  BY AttendedNext
<1>3. ASSUME AInv PROVE Attended
  <2> SUFFICES ASSUME auto PROVE Serving \/ \E t \in Threads : pc[t] # "free"
    BY DEF Attended
  <2>1. Phase
    BY <1>3 DEF AInv, Rest, AutoInv
  <2>2. ServingPhase => Serving
    BY ConstantFacts DEF ServingPhase, Serving, Up
  <2>3. WaitingPhase => \E t \in Threads : pc[t] # "free"
    BY ConstantFacts DEF WaitingPhase, TimerSet, Lost
  <2>4. StartPhase \/ ConnectingPhase \/ InitPhase \/ FailedPhase
           => \E t \in Threads : pc[t] # "free"
    BY ConstantFacts DEF StartPhase, ConnectingPhase, InitPhase, FailedPhase
  <2> QED
    BY <2>1, <2>2, <2>3, <2>4 DEF Phase
<1> QED
  BY <1>1, <1>2, <1>3, PTL DEF Spec

-----------------------------------------------------------------------------
(***************************************************************************)
(* One connection at most, whatever attempts and replies come to. A timer  *)
(* is set only when nothing is left of the old connection, it fires only   *)
(* when the others have nothing to do, and a new connection is begun only  *)
(* from START: so one thread at most is busy with a connection that is not *)
(* closed, and that is the connection _conn_id names.                      *)
(***************************************************************************)
Busy(t) == pc[t] \notin {"free", "armed", "start"} /\ ~Stuck(t)

WaitsOnConn ==
    \A t \in Threads : pc[t] = "waitConn"
        => myConn[t] \in Conns /\ conn[myConn[t]] # "none"

TimerLast ==
    timer # NoTimer
        => NoneAlive /\ status \in {"WAIT_RECONNECT", "READY"} /\ reqMap = {}

DownEmpty == status \in {"START", "WAIT_RECONNECT", "CLOSED"} => NoneAlive

OneBusy == \A t, u \in Threads : Busy(t) /\ Busy(u) => t = u

ReadyDone == status = "READY" /\ timer = NoTimer => \A t \in Threads : ~Busy(t)

AutoLone == TimerLast /\ DownEmpty /\ OneBusy /\ ReadyDone /\ status # "CLOSING"

Lone == WaitsOnConn /\ pc[Ctor] = "free" /\ OneAlive /\ (auto => AutoLone)

LInv == CInv /\ Lone

-----------------------------------------------------------------------------
\* A waiting thread knows the connection it waits for.
LEMMA WaitsNext ==
    ASSUME CInv, WaitsOnConn, [Next]_vars
    PROVE  WaitsOnConn'
<1>1. TypeOK /\ ConnectQueued
  BY DEF CInv, IInv
<1>2. \A c \in Conns : conn[c] # "none" => conn'[c] # "none"
  <2>1. ASSUME NEW c \in Conns, CloseConn(c)
        PROVE  \A d \in Conns : conn[d] # "none" => conn'[d] # "none"
    BY <1>1, <2>1 DEF CloseConn, TypeOK
  <2>2. ASSUME NEW c \in Conns, NEW v \in {"queued", "connecting", "connected", "closed"},
               conn' = [conn EXCEPT ![c] = v]
        PROVE  \A d \in Conns : conn[d] # "none" => conn'[d] # "none"
    BY <1>1, <2>2 DEF TypeOK
  <2>3. CASE NetWork
    <3>1. /\ Head(queue).op = "connect" \/ Head(queue).op = "send" => Head(queue).conn \in Conns
          /\ InTable(Head(queue).conn) /\ Head(queue).op = "close" => Head(queue).conn \in Conns
      BY <1>1, <2>3, GetType DEF TypeOK, InTable, NetWork, NetConnect, NetSend, NetClose
    <3> QED
      BY <2>1, <2>2, <2>3, <3>1 DEF NetWork, NetConnect, NetSend, NetClose, DoConnect
  <2>4. ASSUME NEW c \in Conns, NetEvent(c)
        PROVE  \A d \in Conns : conn[d] # "none" => conn'[d] # "none"
    BY <2>1, <2>2, <2>4 DEF NetEvent, NetConnected, NetConnectFail, NetDisconnect
  <2>5. ASSUME NEW t \in Threads, ThreadStep(t)
        PROVE  \A d \in Conns : conn[d] # "none" => conn'[d] # "none"
    <3>1. \/ conn' = conn
          \/ nextConn \in Conns /\ conn' = [conn EXCEPT ![nextConn] = "queued"]
      BY <2>5
      DEF ThreadStep, Reconnect, InitConnectSync, ConnectSync, ConnectDone,
          SendInitConnect, ResponseDone, ResponseTimeout, HandleInitConnectRsp,
          ReconnectFailed, netVars
    <3> QED
      BY <2>2, <3>1
  <2>6. CASE UNCHANGED conn
    BY <2>6
  <2> QED
    BY <2>3, <2>4, <2>5, <2>6 DEF Next, CtorStart, TimerFire, Close, NetInitRsp, netVars, vars
<1>3. ASSUME NEW t \in Threads, ConnectSync(t) PROVE WaitsOnConn'
  <2>1. \A u \in Threads : u # t => pc'[u] = pc[u] /\ myConn'[u] = myConn[u]
    BY <1>1, <1>3 DEF ConnectSync, TypeOK, Fail
  <2>2. pc'[t] = "waitConn"
           => myConn'[t] = nextConn /\ nextConn \in Conns /\ conn'[nextConn] = "queued"
    BY <1>1, <1>3 DEF ConnectSync, TypeOK, Fail
  <2> QED
    BY <1>2, <2>1, <2>2 DEF WaitsOnConn
<1>4. ASSUME UNCHANGED myConn, \A u \in Threads : pc'[u] = "waitConn" => pc[u] = "waitConn"
      PROVE  WaitsOnConn'
  BY <1>2, <1>4 DEF WaitsOnConn
<1>5. ASSUME NEW st, NEW p \in [Threads -> Points], DropSession(st, p)
      PROVE  \A u \in Threads : pc'[u] = "waitConn" => p[u] = "waitConn"
  <2>1. timer \in Timers \union {NoTimer}
    BY <1>1 DEF TypeOK
  <2>2. CancelTimer(p) \in [Threads -> Points]
        /\ \A u \in Threads : CancelTimer(p)[u] = "waitConn" => p[u] = "waitConn"
    BY <2>1, ConstantFacts DEF CancelTimer, Points
  <2>3. \/ pc' = CancelTimer(p)
        \/ \E k \in Timers : pc' = [CancelTimer(p) EXCEPT ![k] = "armed"]
    BY <1>5 DEF DropSession, WaitReconnect
  <2> QED
    BY <2>2, <2>3, ConstantFacts
<1>6. OnDisconnect => \A u \in Threads : pc'[u] = "waitConn" => pc[u] = "waitConn"
  BY <1>1, <1>5 DEF OnDisconnect, TypeOK
<1>7. ASSUME NEW t \in Threads, ThreadStep(t) PROVE WaitsOnConn'
  <2>1. CASE ReconnectFailed(t)
    <3> DEFINE p == [pc EXCEPT ![t] = "free"]
    <3>1. p \in [Threads -> Points] /\ \A u \in Threads : p[u] = "waitConn" => pc[u] = "waitConn"
      BY <1>1 DEF TypeOK, Points
    <3>2. DropSession(status, p) /\ myConn' = myConn
      BY <2>1 DEF ReconnectFailed
    <3> HIDE DEF p
    <3> QED
      BY <1>4, <1>5, <3>1, <3>2
  <2>2. CASE Reconnect(t)
    <3>1. \/ pc' = [pc EXCEPT ![t] = "free"]
          \/ \E q \in {"init", "free"} : pc' = [CancelTimer(pc) EXCEPT ![t] = q]
      BY <2>2 DEF Reconnect
    <3>2. \A u \in Threads : pc'[u] = "waitConn" => pc[u] = "waitConn"
      BY <1>1, <3>1 DEF CancelTimer, TypeOK
    <3> QED
      BY <1>4, <2>2, <3>2 DEF Reconnect
  <2>3. CASE ~Reconnect(t) /\ ~ReconnectFailed(t) /\ ~ConnectSync(t)
    <3>1. myConn' = myConn /\ \E q \in Points \ {"waitConn"} : pc' = [pc EXCEPT ![t] = q]
      BY <1>7, <2>3
      DEF ThreadStep, InitConnectSync, ConnectDone, SendInitConnect, ResponseDone,
          ResponseTimeout, HandleInitConnectRsp, Succeed, Fail, Points
    <3> QED
      BY <1>1, <1>4, <3>1 DEF TypeOK
  <2> QED
    BY <1>3, <1>7, <2>1, <2>2, <2>3
<1>8. CASE CtorStart \/ Close \/ (\E t \in Timers : TimerFire(t))
  BY <1>1, <1>4, <1>8, ConstantFacts DEF CtorStart, Close, TimerFire, CancelTimer, TypeOK
<1>9. ASSUME NetWork \/ \E c \in Conns : NetEvent(c) PROVE WaitsOnConn'
  BY <1>4, <1>6, <1>9
  DEF NetWork, NetConnect, NetSend, NetClose, NetEvent, NetConnected, NetConnectFail,
      NetDisconnect, OnConnect, thrVars
<1>10. ASSUME NEW r \in inbox, NEW answer \in InitReplies, NetInitRsp(r, answer)
       PROVE  WaitsOnConn'
  BY <1>4, <1>10 DEF NetInitRsp, thrVars
<1>11. CASE UNCHANGED vars
  BY <1>4, <1>11 DEF vars, thrVars
<1> QED
  BY <1>7, <1>8, <1>9, <1>10, <1>11 DEF Next

\* A closed connection is closed for good, and the outcome of its attempt is final.
ClosedStays ==
    \A c \in Conns : conn[c] = "closed" => conn'[c] = "closed" /\ info'[c] = info[c]

LEMMA BusyFrame ==
    ASSUME WaitsOnConn, ClosedStays, NEW t \in Threads, UNCHANGED myConn,
           pc'[t] = pc[t] \/ pc'[t] \in {"free", "armed"}, Busy(t)'
    PROVE  Busy(t)
BY DEF WaitsOnConn, ClosedStays, Busy, Stuck

\* A step that begins no connection and leaves the status and the timer alone.
LEMMA QuietLone ==
    ASSUME LInv, auto, UNCHANGED <<auto, status, timer, connId>>, reqMap' \subseteq reqMap,
           \A c \in Conns : Alive(c)' => Alive(c),
           \A t \in Threads : Busy(t)' => Busy(t),
           WaitsOnConn', pc'[Ctor] = "free"
    PROVE  Lone'
BY DEF LInv, Lone, AutoLone, TimerLast, DownEmpty, OneBusy, ReadyDone, OneAlive, NoneAlive

\* The thread that takes a step of the connecting code is the busy one.
LEMMA StepBusy ==
    ASSUME LInv, auto, NEW t \in Threads, ThreadStep(t)
    PROVE  Busy(t) /\ t \in Timers /\ \A u \in Threads : Busy(u) => u = t
<1>1. pc[t] \notin {"free", "armed", "start"} /\ ~Stuck(t)
  BY DEF ThreadStep, Reconnect, InitConnectSync, ConnectSync, ConnectDone,
         SendInitConnect, ResponseDone, ResponseTimeout, HandleInitConnectRsp,
         ReconnectFailed, Stuck
<1>2. t # Ctor
  BY <1>1 DEF LInv, Lone
<1> QED
  BY <1>1, <1>2 DEF LInv, Lone, AutoLone, OneBusy, Busy, Threads, Ctor

\* The connection is gone and the context is to reconnect: the timer is set and
\* nothing is left. p is pc without the thread that is leaving.
LEMMA DropLone ==
    ASSUME LInv, auto, NEW st, st \notin {"CONNECTED", "CONNECTING", "CLOSING"},
           NEW p \in [Threads -> Points], p[Ctor] = "free", DropSession(st, p),
           \A u \in Threads : p[u] = pc[u] \/ p[u] = "free",
           UNCHANGED myConn, ClosedStays, NoneAlive', WaitsOnConn'
    PROVE  Lone'
<1>1. TypeOK /\ WaitsOnConn /\ OneBusy
  BY DEF LInv, Lone, AutoLone, CInv, IInv
<1>2. /\ auto' = auto /\ status' = "WAIT_RECONNECT" /\ connId' = NoConn /\ reqMap' = {}
      /\ timer' \in Timers
      /\ \A u \in Threads :
            pc'[u] = p[u] \/ (/\ u \in Timers /\ p[u] \in {"free", "armed"}
                             /\ pc'[u] \in {"free", "armed"})
  BY <1>1, DropArms
<1>3. \A u \in Threads : Busy(u)' => Busy(u)
  BY <1>1, <1>2, BusyFrame
<1>4. pc'[Ctor] = "free"
  BY <1>2, ConstantFacts
<1> QED
  BY <1>1, <1>2, <1>3, <1>4, ConstantFacts
  DEF Lone, AutoLone, TimerLast, DownEmpty, OneBusy, ReadyDone, OneAlive, NoneAlive

LEMMA LossLone ==
    ASSUME LInv, auto, NEW c \in Conns, InTable(c), CloseConn(c), OnDisconnect,
           UNCHANGED <<myConn, info>>, WaitsOnConn'
    PROVE  Lone'
<1>1. TypeOK /\ OneAlive /\ pc[Ctor] = "free"
  BY DEF LInv, Lone, CInv, IInv
<1>2. NoneAlive' /\ ClosedStays
  BY <1>1 DEF OneAlive, NoneAlive, Alive, InTable, CloseConn, ClosedStays, TypeOK
<1>3. DropSession("CLOSED", pc) /\ pc \in [Threads -> Points]
  BY <1>1 DEF OnDisconnect, TypeOK
<1> QED
  BY <1>1, <1>2, <1>3, DropLone

\* A thread that goes on, or gives up.
LEMMA LocalLone ==
    ASSUME LInv, auto, NEW t \in Threads, ThreadStep(t), NEW q \in Points,
           pc' = [pc EXCEPT ![t] = q], UNCHANGED <<auto, status, timer, connId, conn, info>>,
           UNCHANGED myConn, reqMap' \subseteq reqMap, WaitsOnConn'
    PROVE  Lone'
<1>1. TypeOK /\ WaitsOnConn /\ pc[Ctor] = "free"
  BY DEF LInv, Lone, CInv, IInv
<1>2. Busy(t) /\ t \in Timers
  BY StepBusy
<1>3. \A u \in Threads : Busy(u)' => Busy(u)
  <2>1. \A u \in Threads : u # t => pc'[u] = pc[u]
    BY <1>1 DEF TypeOK
  <2>2. ClosedStays
    BY DEF ClosedStays
  <2> QED
    BY <1>1, <1>2, <2>1, <2>2, BusyFrame
<1>4. pc'[Ctor] = "free"
  BY <1>1, <1>2, ConstantFacts DEF TypeOK
<1>5. \A c \in Conns : Alive(c)' => Alive(c)
  BY DEF Alive
<1> QED
  BY <1>3, <1>4, <1>5, QuietLone

\* _reconnect begins: the timer has fired, so nothing is left of the old connection.
LEMMA ReconnectLone ==
    ASSUME LInv, auto, NEW t \in Threads, Reconnect(t), WaitsOnConn'
    PROVE  Lone'
<1>1. TypeOK /\ WaitsOnConn /\ pc[Ctor] = "free" /\ TimerLast /\ OneAlive
  BY DEF LInv, Lone, CInv, IInv, AutoLone
<1>2. t \in Timers /\ \A u \in Threads : Busy(u) => u = t
  BY StepBusy DEF ThreadStep
<1>3. UNCHANGED <<auto, connId, reqMap, myConn, conn, info>>
  BY DEF Reconnect, reqVars, netVars
<1>4. CASE timer = NoTimer
  <2>1. pc' = [pc EXCEPT ![t] = "free"] /\ UNCHANGED <<status, timer>>
    BY <1>4 DEF Reconnect
  <2> QED
    BY <1>3, <2>1, LocalLone DEF Points, ThreadStep
<1>5. CASE timer # NoTimer
  <2>1. timer' = NoTimer /\ status' = "START" /\ pc' = [CancelTimer(pc) EXCEPT ![t] = "init"]
    BY <1>5 DEF Reconnect
  <2>2. NoneAlive /\ NoneAlive'
    BY <1>1, <1>3, <1>5 DEF TimerLast, NoneAlive, Alive
  <2>3. pc'[t] = "init" /\ \A u \in Threads : u # t => pc'[u] = pc[u] \/ pc'[u] = "free"
    BY <1>1, <2>1 DEF TypeOK, CancelTimer
  <2>4. ClosedStays
    BY <1>3 DEF ClosedStays
  <2>5. \A u \in Threads : Busy(u)' => u = t
    BY <1>1, <1>2, <1>3, <2>3, <2>4, BusyFrame
  <2>6. pc'[Ctor] = "free"
    BY <1>1, <1>2, <2>3, ConstantFacts
  <2> QED
    BY <1>3, <2>1, <2>2, <2>5, <2>6
    DEF Lone, AutoLone, TimerLast, DownEmpty, OneBusy, ReadyDone, OneAlive, NoneAlive
<1> QED
  BY <1>4, <1>5

\* A connection is begun from START, when there is none.
LEMMA ConnectSyncLone ==
    ASSUME LInv, auto, NEW t \in Threads, ConnectSync(t), WaitsOnConn'
    PROVE  Lone'
<1>1. TypeOK /\ WaitsOnConn /\ pc[Ctor] = "free" /\ OneAlive /\ DownEmpty /\ TimerLast
  BY DEF LInv, Lone, CInv, IInv, AutoLone
<1>2. t \in Timers /\ \A u \in Threads : Busy(u) => u = t
  BY StepBusy DEF ThreadStep
<1>3. UNCHANGED <<auto, timer, reqMap, info>>
  BY DEF ConnectSync, reqVars
<1>4. CASE status = "START"
  <2>1. /\ nextConn \in Conns /\ status' = "CONNECTING" /\ connId' = nextConn
        /\ conn' = [conn EXCEPT ![nextConn] = "queued"]
        /\ myConn' = [myConn EXCEPT ![t] = nextConn]
        /\ pc' = [pc EXCEPT ![t] = "waitConn"]
    BY <1>4 DEF ConnectSync
  <2>2. timer = NoTimer /\ NoneAlive
    BY <1>1, <1>4 DEF TimerLast, DownEmpty
  <2>3. conn[nextConn] = "none"
    BY <2>1 DEF LInv, CInv, ConnectQueued, Conns
  <2>4. OneAlive'
    BY <1>1, <2>1, <2>2 DEF OneAlive, NoneAlive, Alive, TypeOK
  <2>5. \A u \in Threads : u # t => ~Busy(u)'
    <3>1. \A u \in Threads : u # t => pc'[u] = pc[u] /\ myConn'[u] = myConn[u]
      BY <1>1, <2>1 DEF TypeOK
    <3>2. \A c \in Conns : conn[c] = "closed" => conn'[c] = "closed" /\ info'[c] = info[c]
      BY <1>1, <1>3, <2>1, <2>3 DEF TypeOK
    <3> QED
      BY <1>1, <1>2, <3>1, <3>2 DEF WaitsOnConn, Busy, Stuck
  <2>6. pc'[Ctor] = "free"
    BY <1>1, <1>2, <2>1, ConstantFacts DEF TypeOK
  <2> QED
    BY <1>3, <2>1, <2>2, <2>4, <2>5, <2>6
    DEF Lone, AutoLone, TimerLast, DownEmpty, OneBusy, ReadyDone
<1>5. CASE status # "START"
  <2>1. UNCHANGED <<status, connId, conn, myConn>>
        /\ \E q \in Points : pc' = [pc EXCEPT ![t] = q]
    BY <1>5 DEF ConnectSync, Fail, Points
  <2> QED
    BY <1>3, <2>1, LocalLone DEF ThreadStep
<1> QED
  BY <1>4, <1>5

LEMMA SendLone ==
    ASSUME LInv, auto, NEW t \in Threads, SendInitConnect(t), WaitsOnConn'
    PROVE  Lone'
<1>1. TypeOK /\ TimerLast
  BY DEF LInv, Lone, CInv, IInv, AutoLone
<1>2. /\ UNCHANGED <<auto, status, timer, connId, conn, info, myConn>>
      /\ \E q \in Points : pc' = [pc EXCEPT ![t] = q]
  BY DEF SendInitConnect, ctxVars, Fail, Points
<1>3. CASE status # "CONNECTED"
  <2>1. reqMap' = reqMap
    BY <1>3 DEF SendInitConnect
  <2> QED
    BY <1>2, <2>1, LocalLone DEF ThreadStep
<1>4. CASE status = "CONNECTED"
  <2>1. timer = NoTimer
    BY <1>1, <1>4 DEF TimerLast
  <2>2. Busy(t) /\ t \in Timers
    BY StepBusy DEF ThreadStep
  <2>3. \A u \in Threads : Busy(u)' => Busy(u)
    <3>1. \A u \in Threads : u # t => pc'[u] = pc[u]
      BY <1>1, <1>2 DEF TypeOK
    <3>2. ClosedStays /\ WaitsOnConn
      BY <1>2 DEF ClosedStays, LInv, Lone
    <3> QED
      BY <1>2, <2>2, <3>1, <3>2, BusyFrame
  <2>4. pc'[Ctor] = "free"
    BY <1>1, <1>2, <2>2, ConstantFacts DEF TypeOK, LInv, Lone
  <2>5. \A c \in Conns : Alive(c)' <=> Alive(c)
    BY <1>2 DEF Alive
  <2> QED
    BY <1>2, <1>4, <2>1, <2>3, <2>4, <2>5
    DEF LInv, Lone, AutoLone, TimerLast, DownEmpty, OneBusy, ReadyDone, OneAlive, NoneAlive
<1> QED
  BY <1>3, <1>4

\* The reply is applied: the busy thread is done.
LEMMA HandleLone ==
    ASSUME LInv, auto, Steady, NEW t \in Threads, HandleInitConnectRsp(t), WaitsOnConn'
    PROVE  Lone'
<1>1. TypeOK /\ WaitsOnConn /\ pc[Ctor] = "free"
  BY DEF LInv, Lone, CInv, IInv
<1>2. t \in Timers /\ \A u \in Threads : Busy(u) => u = t
  BY StepBusy DEF ThreadStep
<1>3. /\ UNCHANGED <<auto, timer, connId, conn, info, myConn, reqMap>>
      /\ status' = "READY" /\ pc' = [pc EXCEPT ![t] = "free"]
  BY DEF HandleInitConnectRsp, reqVars, netVars, Succeed, Steady
<1>4. \A u \in Threads : ~Busy(u)'
  <2>1. pc'[t] = "free" /\ \A u \in Threads : u # t => pc'[u] = pc[u]
    BY <1>1, <1>3 DEF TypeOK
  <2>2. ClosedStays
    BY <1>3 DEF ClosedStays
  <2>3. ~Busy(t)'
    BY <2>1 DEF Busy
  <2> QED
    BY <1>1, <1>2, <1>3, <2>1, <2>2, <2>3, BusyFrame
<1>5. pc'[Ctor] = "free"
  BY <1>1, <1>2, <1>3, ConstantFacts DEF TypeOK
<1>6. \A c \in Conns : Alive(c)' <=> Alive(c)
  BY <1>3 DEF Alive
<1> QED
  BY <1>3, <1>4, <1>5, <1>6
  DEF LInv, Lone, AutoLone, TimerLast, DownEmpty, OneBusy, ReadyDone, OneAlive, NoneAlive

\* The failure branch of _reconnect forgets _conn_id only when it names nothing.
LEMMA FailedLone ==
    ASSUME LInv, auto, NEW t \in Threads, ReconnectFailed(t), WaitsOnConn'
    PROVE  Lone'
<1>1. TypeOK /\ WaitsOnConn /\ pc[Ctor] = "free" /\ AutoLone
  BY DEF LInv, Lone, CInv, IInv
<1>2. t \in Timers /\ Busy(t) /\ \A u \in Threads : Busy(u) => u = t
  BY StepBusy DEF ThreadStep
<1> DEFINE p == [pc EXCEPT ![t] = "free"]
<1>3. /\ p \in [Threads -> Points] /\ p[Ctor] = "free"
      /\ \A u \in Threads : p[u] = pc[u] \/ p[u] = "free"
      /\ p[t] = "free"
  BY <1>1, <1>2, ConstantFacts DEF TypeOK, Points
<1>4. DropSession(status, p) /\ UNCHANGED <<myConn, conn, info>>
  BY DEF ReconnectFailed
<1>5. ClosedStays /\ (\A c \in Conns : Alive(c)' <=> Alive(c))
  BY <1>4 DEF ClosedStays, Alive
<1>6. CASE status \notin {"CONNECTED", "CONNECTING", "CLOSING"}
  <2>1. NoneAlive
    BY <1>1, <1>2, <1>6, ConstantFacts DEF AutoLone, DownEmpty, ReadyDone, TimerLast, TypeOK
  <2>2. NoneAlive'
    BY <1>5, <2>1 DEF NoneAlive
  <2> HIDE DEF p
  <2> QED
    BY <1>3, <1>4, <1>5, <1>6, <2>2, DropLone
<1>7. CASE status \in {"CONNECTED", "CONNECTING", "CLOSING"}
  <2>1. timer = NoTimer
    BY <1>1, <1>7 DEF AutoLone, TimerLast
  <2>2. UNCHANGED <<auto, status, connId, timer>> /\ pc' = p /\ reqMap' = {}
    BY <1>4, <1>7, <2>1 DEF DropSession, WaitReconnect, CancelTimer, PopAllReqInfo
  <2> QED
    BY <1>4, <2>2, LocalLone DEF ThreadStep, Points
<1> QED
  BY <1>6, <1>7

LEMMA ThreadLone ==
    ASSUME LInv, auto, Steady, NEW t \in Threads, ThreadStep(t), WaitsOnConn'
    PROVE  Lone'
<1>1. CASE InitConnectSync(t) \/ ConnectDone(t) \/ ResponseDone(t) \/ ResponseTimeout(t)
  <2>1. /\ UNCHANGED <<auto, status, timer, connId, conn, info, myConn, reqMap>>
        /\ \E q \in Points : pc' = [pc EXCEPT ![t] = q]
    BY <1>1
    DEF InitConnectSync, ConnectDone, ResponseDone, ResponseTimeout, Succeed, Fail, Points,
        ctxVars, reqVars, netVars
  <2> QED
    BY <2>1, LocalLone
<1> QED
  BY <1>1, ReconnectLone, ConnectSyncLone, SendLone, HandleLone, FailedLone DEF ThreadStep

\* The timer fires when nobody can run: whoever still waits, waits for ever.
LEMMA FireLone ==
    ASSUME LInv, auto, Steady, NEW t \in Timers, TimerFire(t), WaitsOnConn'
    PROVE  Lone'
<1>1. /\ TypeOK /\ WaitsOnConn /\ pc[Ctor] = "free" /\ AutoLone
      /\ OneTimer /\ NoLostWakeup /\ OneAlive
  BY DEF LInv, Lone, CInv, IInv
<1>2. /\ timer = t /\ pc' = [pc EXCEPT ![t] = "fired"] /\ \A u \in Threads : ~Runnable(u)
      /\ UNCHANGED <<auto, status, timer, connId, reqMap, conn, info, myConn>>
  BY <1>1 DEF TimerFire, Steady, OneTimer, ctxVars, reqVars, netVars
<1>3. NoneAlive /\ status \in {"WAIT_RECONNECT", "READY"} /\ reqMap = {}
  BY <1>1, <1>2, ConstantFacts DEF AutoLone, TimerLast
<1>4. ASSUME NEW u \in Threads, u # t PROVE ~Busy(u)'
  <2>1. pc'[u] = pc[u] /\ pc[u] \in Points
    BY <1>1, <1>2, <1>4 DEF TypeOK
  <2>2. \/ pc[u] \in {"free", "armed", "start"}
        \/ pc[u] = "waitConn" /\ info[myConn[u]] = "pending"
        \/ pc[u] = "waitRsp" /\ rsp[<<u, mySent[u]>>] = "pending"
    BY <1>2, <2>1 DEF Runnable, Points
  <2>3. pc[u] = "waitConn" => conn[myConn[u]] = "closed"
    BY <1>1, <1>3 DEF WaitsOnConn, NoneAlive, Alive, TypeOK
  <2>4. ~(pc[u] = "waitRsp" /\ rsp[<<u, mySent[u]>>] = "pending")
    BY <1>1, <1>3 DEF NoLostWakeup
  <2> QED
    BY <1>2, <2>1, <2>2, <2>3, <2>4 DEF Busy, Stuck
<1>5. pc'[Ctor] = "free"
  BY <1>1, <1>2, ConstantFacts DEF TypeOK
<1>6. \A c \in Conns : Alive(c)' <=> Alive(c)
  BY <1>2 DEF Alive
<1> QED
  BY <1>1, <1>2, <1>3, <1>4, <1>5, <1>6, ConstantFacts
  DEF Lone, AutoLone, TimerLast, DownEmpty, OneBusy, ReadyDone, OneAlive, NoneAlive

\* The network thread works through its queue.
LEMMA NetWorkLone ==
    ASSUME LInv, auto, NetWork, WaitsOnConn'
    PROVE  Lone'
<1>1. /\ TypeOK /\ WaitsOnConn /\ pc[Ctor] = "free" /\ ConnectQueued
      /\ queue # <<>> /\ 1 \in DOMAIN queue /\ Head(queue) = queue[1]
  BY DEF LInv, Lone, CInv, IInv, TypeOK, NetWork, NetConnect, NetSend, NetClose
<1> DEFINE c == Head(queue).conn
<1>2. /\ Head(queue).op = "connect" => c \in Conns /\ conn[c] = "queued"
      /\ Head(queue).op = "send" => c \in Conns
      /\ Head(queue).op = "close" /\ InTable(c) => c \in Conns
  BY <1>1, GetType DEF TypeOK, InTable, ConnectQueued
<1>3. UNCHANGED <<myConn, info>>
  BY DEF NetWork, NetConnect, NetSend, NetClose, thrVars
<1>4. ASSUME UNCHANGED <<ctxVars, reqMap, pc>>,
             conn' = conn \/ \E d \in Conns : /\ Alive(d) /\ conn' = [conn EXCEPT ![d] = conn'[d]]
                                              /\ conn'[d] \in {"connecting", "connected", "closed"}
      PROVE  Lone'
  <2>1. ClosedStays /\ \A d \in Conns : Alive(d)' => Alive(d)
    BY <1>1, <1>3, <1>4 DEF ClosedStays, Alive, TypeOK
  <2>2. \A u \in Threads : Busy(u)' => Busy(u)
    BY <1>1, <1>3, <1>4, <2>1, BusyFrame
  <2> QED
    BY <1>1, <1>4, <2>1, <2>2, QuietLone DEF ctxVars
<1>5. CASE NetConnect
  <2>1. Alive(c) /\ c \in Conns /\ UNCHANGED <<ctxVars, reqMap, pc>>
    BY <1>2, <1>5 DEF NetConnect, Alive, reqVars, thrVars
  <2>2. \E v \in {"connecting", "connected", "closed"} : conn' = [conn EXCEPT ![c] = v]
    BY <1>5 DEF NetConnect, DoConnect
  <2> HIDE DEF c
  <2>3. conn' = [conn EXCEPT ![c] = conn'[c]] /\ conn'[c] \in {"connecting", "connected", "closed"}
    BY <1>1, <2>1, <2>2 DEF TypeOK
  <2> QED
    BY <1>4, <2>1, <2>3
<1>6. CASE NetSend
  <2>1. c \in Conns
    BY <1>2, <1>6 DEF NetSend
  <2>2. \/ UNCHANGED <<ctxVars, reqMap, pc, conn>>
        \/ conn[c] = "connected" /\ CloseConn(c) /\ OnDisconnect
    BY <1>6 DEF NetSend, reqVars
  <2> HIDE DEF c
  <2> QED
    BY <1>3, <1>4, <2>1, <2>2, LossLone, ConstantFacts DEF InTable
<1>7. CASE NetClose
  <2>1. \/ UNCHANGED <<ctxVars, reqMap, pc, conn>>
        \/ InTable(c) /\ CloseConn(c) /\ OnDisconnect
        \/ InTable(c) /\ CloseConn(c) /\ UNCHANGED <<ctxVars, reqMap, pc>>
    BY <1>7 DEF NetClose, reqVars
  <2>2. InTable(c) => c \in Conns
    BY <1>2, <1>7 DEF NetClose
  <2> HIDE DEF c
  <2>3. InTable(c) /\ CloseConn(c) =>
           Alive(c) /\ conn' = [conn EXCEPT ![c] = conn'[c]] /\ conn'[c] = "closed"
    BY <1>1, <2>2 DEF InTable, CloseConn, Alive, TypeOK
  <2> QED
    BY <1>3, <1>4, <2>1, <2>2, <2>3, LossLone
<1> QED
  BY <1>5, <1>6, <1>7 DEF NetWork

\* An attempt ends, or a connection is lost.
LEMMA NetEventLone ==
    ASSUME LInv, auto, NEW c \in Conns, NetEvent(c), WaitsOnConn'
    PROVE  Lone'
<1>1. TypeOK /\ WaitsOnConn /\ pc[Ctor] = "free" /\ OneAlive /\ AutoLone
  BY DEF LInv, Lone, CInv, IInv
<1>2. CASE NetDisconnect(c)
  BY <1>2, LossLone, ConstantFacts DEF NetDisconnect, InTable
<1>3. ASSUME NEW ok \in BOOLEAN, conn[c] = "connecting", OnConnect(c, ok),
             UNCHANGED <<reqVars, thrVars>>,
             conn' = [conn EXCEPT ![c] = IF ok THEN "connected" ELSE "closed"]
      PROVE  Lone'
  <2>1. UNCHANGED <<auto, timer, connId, reqMap, pc, myConn>>
    BY <1>3 DEF OnConnect, reqVars, thrVars
  <2>2. c = connId /\ timer = NoTimer /\ status \notin {"START", "WAIT_RECONNECT", "CLOSED"}
    BY <1>1, <1>3 DEF OneAlive, AutoLone, TimerLast, DownEmpty, NoneAlive, Alive
  <2>3. \/ status' = status
        \/ status' = "CONNECTED"
        \/ status' = "CLOSED" /\ ~ok
    BY <1>1, <1>3 DEF OnConnect, AutoLone
  <2>4. /\ \A d \in Conns : Alive(d)' => Alive(d)
        /\ ~ok => NoneAlive'
    BY <1>1, <1>3, <2>2 DEF OneAlive, NoneAlive, Alive, TypeOK
  <2>5. ClosedStays
    BY <1>1, <1>3 DEF ClosedStays, OnConnect, TypeOK
  <2>6. \A u \in Threads : Busy(u)' => Busy(u)
    BY <1>1, <2>1, <2>5, BusyFrame
  <2> QED
    BY <1>1, <2>1, <2>2, <2>3, <2>4, <2>6
    DEF Lone, AutoLone, TimerLast, DownEmpty, OneBusy, ReadyDone, OneAlive, NoneAlive
<1>4. CASE NetConnected(c)
  BY <1>3, <1>4 DEF NetConnected
<1>5. CASE NetConnectFail(c)
  BY <1>3, <1>5 DEF NetConnectFail, CloseConn
<1> QED
  BY <1>2, <1>4, <1>5 DEF NetEvent

LEMMA LoneInit == Modes \subseteq {"async"} /\ Init => LInv
<1> SUFFICES ASSUME Modes \subseteq {"async"}, Init PROVE LInv
  OBVIOUS
<1>1. CInv
  BY InitInvariant, InitSeenTo DEF CInv
<1>2. /\ status = "WAIT_RECONNECT" /\ timer = 1 /\ 1 \in Timers
      /\ pc = [t \in Threads |-> IF t = 1 THEN "armed" ELSE "free"]
  BY ConstantsAssumption DEF Init, Timers
<1>3. pc[Ctor] = "free" /\ \A t \in Threads : pc[t] \in {"free", "armed"}
  BY <1>2, ConstantFacts
<1>4. OneAlive /\ NoneAlive /\ reqMap = {}
  BY DEF Init, OneAlive, NoneAlive, Alive
<1>5. WaitsOnConn /\ \A t \in Threads : ~Busy(t)
  BY <1>3 DEF WaitsOnConn, Busy
<1> QED
  BY <1>1, <1>2, <1>3, <1>4, <1>5
  DEF LInv, Lone, AutoLone, TimerLast, DownEmpty, OneBusy, ReadyDone

LEMMA LoneNext == Steady /\ LInv /\ [Next]_vars => LInv'
<1> SUFFICES ASSUME Steady, LInv, [Next]_vars PROVE LInv'
  OBVIOUS
<1>1. CInv' /\ WaitsOnConn'
  BY NextSeenTo, WaitsNext DEF LInv, Lone
<1>2. CASE ~auto
  BY <1>1, <1>2, ClosedKeeps DEF LInv, Lone
<1>3. CASE auto
  <2>1. ~CtorStart
    BY DEF CtorStart, LInv, Lone
  <2>2. CASE Close
    BY <1>1, <2>2, CloseKeeps DEF LInv, Lone, CInv, IInv
  <2>3. ASSUME UNCHANGED <<ctxVars, pc, myConn, conn, info>>, reqMap' \subseteq reqMap
        PROVE  Lone'
    <3>1. (\A c \in Conns : Alive(c)' => Alive(c)) /\ (\A t \in Threads : Busy(t)' => Busy(t))
      BY <2>3 DEF Alive, Busy, Stuck
    <3> QED
      BY <1>1, <1>3, <2>3, <3>1, QuietLone DEF ctxVars, LInv, Lone
  <2>4. ASSUME NEW r \in inbox, NEW answer \in InitReplies, NetInitRsp(r, answer)
        PROVE  Lone'
    BY <2>3, <2>4 DEF NetInitRsp, thrVars, reqVars
  <2>5. UNCHANGED vars => Lone'
    BY <2>3 DEF vars, thrVars, netVars, reqVars
  <2> QED
    BY <1>1, <1>3, <2>1, <2>2, <2>4, <2>5, ThreadLone, FireLone, NetWorkLone, NetEventLone
    DEF Next, LInv
<1> QED
  BY <1>2, <1>3

-----------------------------------------------------------------------------
(***************************************************************************)
(* KeepsSession: every step of such a context is one that module Session   *)
(* allows. A connection the failure branch of _reconnect has asked to be   *)
(* closed counts as ended, so nobody may be connecting any more while it   *)
(* is still up; and an attempt has its thread and its status until its     *)
(* outcome is reported.                                                    *)
(***************************************************************************)
OneConnecting == \A t, u \in Threads : Connecting(t) /\ Connecting(u) => t = u

ReadyRests == status = "READY" => \A t \in Threads : ~Connecting(t)

GivenRests ==
    \A c \in Conns : Given(c) /\ Alive(c)
        => status # "READY" /\ \A t \in Threads : ~Connecting(t)

AttemptSeen ==
    \A c \in Conns : conn[c] \in {"queued", "connecting"}
        => status \in {"CONNECTING", "CLOSING"}

ClosedRests ==
    ~auto => timer = NoTimer /\ status \notin {"CONNECTING", "CONNECTED"}

\* Whatever is named was opened, and connections are opened in order.
Opened ==
    \A c \in Conns : c < nextConn \/ c = connId \/ Given(c) => conn[c] # "none"

SesInv == OneConnecting /\ ReadyRests /\ GivenRests /\ AttemptSeen /\ ClosedRests /\ Opened

SInv == LInv /\ SesInv

-----------------------------------------------------------------------------
LEMMA ConnectingIsBusy ==
    \A t \in Threads : Connecting(t) <=> Busy(t) /\ pc[t] # "fired"
BY DEF Connecting, Busy

\* What is put into the queue or taken out of it is given up, or it is not.
LEMMA GivenPut ==
    ASSUME queue \in Seq(Work), NEW w \in Work, queue' = Append(queue, w)
    PROVE  \A c : Given(c)' <=> Given(c) \/ (w.op = "close" /\ w.conn = c /\ ~w.notify)
<1>1. /\ Len(queue') = Len(queue) + 1 /\ queue'[Len(queue) + 1] = w
      /\ \A i \in 1 .. Len(queue) : queue'[i] = queue[i]
      /\ Len(queue) \in Nat
      /\ DOMAIN queue = 1 .. Len(queue) /\ DOMAIN queue' = 1 .. Len(queue')
  OBVIOUS
<1> SUFFICES ASSUME NEW c
             PROVE  Given(c)' <=> Given(c) \/ (w.op = "close" /\ w.conn = c /\ ~w.notify)
  OBVIOUS
<1>2. Given(c) => Given(c)'
  BY <1>1 DEF Given
<1>3. w.op = "close" /\ w.conn = c /\ ~w.notify => Given(c)'
  BY <1>1 DEF Given
<1>4. Given(c)' => Given(c) \/ (w.op = "close" /\ w.conn = c /\ ~w.notify)
  BY <1>1 DEF Given
<1> QED
  BY <1>2, <1>3, <1>4

LEMMA GivenGet ==
    ASSUME queue \in Seq(Work), queue # <<>>, queue' = Tail(queue)
    PROVE  \A c : /\ Given(c)' => Given(c)
                  /\ Given(c) => \/ Given(c)'
                                 \/ /\ Head(queue).op = "close" /\ Head(queue).conn = c
                                    /\ ~Head(queue).notify
                  /\ Head(queue).op = "close" /\ Head(queue).conn = c /\ ~Head(queue).notify
                        => Given(c)
<1>1. /\ Len(queue) \in Nat \ {0} /\ Len(queue') = Len(queue) - 1
      /\ Head(queue) = queue[1]
      /\ \A i \in 1 .. Len(queue') : queue'[i] = queue[i + 1]
      /\ DOMAIN queue = 1 .. Len(queue) /\ DOMAIN queue' = 1 .. Len(queue')
  OBVIOUS
<1> SUFFICES ASSUME NEW c
             PROVE  /\ Given(c)' => Given(c)
                    /\ Given(c) => \/ Given(c)'
                                   \/ /\ queue[1].op = "close" /\ queue[1].conn = c
                                      /\ ~queue[1].notify
                    /\ queue[1].op = "close" /\ queue[1].conn = c /\ ~queue[1].notify
                          => Given(c)
  BY <1>1
<1>2. \A i \in DOMAIN queue' : i + 1 \in DOMAIN queue /\ queue'[i] = queue[i + 1]
  BY <1>1
<1>3. \A i \in DOMAIN queue : i = 1 \/ (i - 1 \in DOMAIN queue' /\ queue[i] = queue'[i - 1])
  BY <1>1
<1>4. Given(c)' => Given(c)
  BY <1>2 DEF Given
<1>5. Given(c) => \/ Given(c)'
                  \/ queue[1].op = "close" /\ queue[1].conn = c /\ ~queue[1].notify
  BY <1>3 DEF Given
<1>6. 1 \in DOMAIN queue
  BY <1>1
<1> QED
  BY <1>4, <1>5, <1>6 DEF Given

\* Connections before the newest are over.
LEMMA OpenedInOrder ==
    ASSUME SInv, NEW c \in Conns, c = connId, conn[c] # "none"
    PROVE  Ses!InOrder(c)
<1> SUFFICES ASSUME NEW d \in Conns, d < c PROVE d \in SesEnded
  BY DEF Ses!InOrder
<1>1. TypeOK /\ OneAlive /\ Opened /\ ConnectQueued
  BY DEF SInv, SesInv, LInv, Lone, CInv, IInv
<1>2. c \in Nat /\ d \in Nat /\ nextConn \in Nat
  BY <1>1, ConstantFacts DEF TypeOK
<1>3. c < nextConn
  BY <1>1, <1>2 DEF ConnectQueued
<1>4. conn[d] # "none" /\ ~Alive(d)
  BY <1>1, <1>2, <1>3 DEF Opened, OneAlive
<1> QED
  BY <1>1, <1>4 DEF SesEnded, Alive, TypeOK

\* An attempt without an outcome.
LEMMA AttemptFacts ==
    ASSUME SInv, NEW c \in Conns, conn[c] \in {"queued", "connecting"}
    PROVE  /\ c = connId /\ ~Given(c) /\ Ses!InOrder(c)
           /\ SesLink = NoConn /\ c \notin SesEnded
           /\ timer = NoTimer /\ info[c] = "pending"
           /\ status = IF auto THEN "CONNECTING" ELSE "CLOSING"
           /\ \E t \in Threads : Connecting(t) /\ pc[t] = "waitConn" /\ myConn[t] = c
<1>1. /\ TypeOK /\ OneAlive /\ AttemptAwaited /\ AttemptSeen /\ GivenRests /\ ClosedRests
      /\ auto => AutoLone
  BY DEF SInv, SesInv, LInv, Lone, CInv, IInv
<1>2. c = connId /\ Alive(c)
  BY <1>1 DEF OneAlive, Alive
<1>3. info[c] = "pending" /\ \E t \in Threads : pc[t] = "waitConn" /\ myConn[t] = c
  BY <1>1 DEF AttemptAwaited
<1>4. \E t \in Threads : Connecting(t) /\ pc[t] = "waitConn" /\ myConn[t] = c
  BY <1>3 DEF Connecting, Stuck
<1>5. ~Given(c)
  BY <1>1, <1>2, <1>4 DEF GivenRests
<1>6. SesLink = NoConn /\ c \notin SesEnded
  BY <1>2 DEF SesLink, SesEnded
<1>7. status = IF auto THEN "CONNECTING" ELSE "CLOSING"
  BY <1>1 DEF AttemptSeen, ClosedRests, AutoLone
<1>8. timer = NoTimer
  BY <1>1, <1>2 DEF ClosedRests, AutoLone, TimerLast, NoneAlive
<1> QED
  BY <1>2, <1>3, <1>4, <1>5, <1>6, <1>7, <1>8, OpenedInOrder

\* Steps that the rest of the program does not see.
LEMMA Unseen ==
    ASSUME SInv, UNCHANGED <<status, auto, connId, nextConn>>, timer' \in {timer, NoTimer},
           \A c \in Conns : conn'[c] = conn[c]
                              \/ (conn[c] = "queued" /\ conn'[c] = "connecting"),
           \A c : Given(c)' => Given(c),
           \A c \in Conns : Given(c) /\ conn[c] = "connected" => Given(c)',
           \A t \in Threads : Connecting(t)' <=> Connecting(t)
    PROVE  SesInv' /\ UNCHANGED Ses!vars
<1>1. connId \in Conns \union {NoConn}
  BY DEF SInv, LInv, CInv, IInv, TypeOK
<1>2. SesStatus' = SesStatus /\ SesTrying' = SesTrying
  BY DEF SesStatus, SesTrying
<1>3. \A c \in Conns : /\ conn'[c] = "connected" <=> conn[c] = "connected"
                       /\ conn'[c] = "closed" <=> conn[c] = "closed"
  OBVIOUS
<1>4. SesLink' = SesLink
  BY <1>1, <1>3 DEF SesLink
<1>5. SesEnded' = SesEnded
  BY <1>3 DEF SesEnded
<1>6. OneConnecting' /\ ReadyRests' /\ ClosedRests' /\ Opened'
  BY DEF SInv, SesInv, OneConnecting, ReadyRests, ClosedRests, Opened
<1>7. GivenRests' /\ AttemptSeen'
  BY DEF SInv, SesInv, GivenRests, AttemptSeen, Alive
<1> QED
  BY <1>2, <1>4, <1>5, <1>6, <1>7 DEF SesInv, Ses!vars

\* The other threads, when one moves and no connection is closed.
LEMMA OthersSame ==
    ASSUME TypeOK, WaitsOnConn, UNCHANGED <<info, myConn>>, NEW u \in Threads, pc'[u] = pc[u],
           \A c \in Conns : conn'[c] = "closed" <=> conn[c] = "closed"
    PROVE  Connecting(u)' <=> Connecting(u)
BY DEF Connecting, Stuck, WaitsOnConn

\* A thread goes on, and is connecting before and after.
LEMMA GoesOn ==
    ASSUME TypeOK, WaitsOnConn, NEW t \in Threads, Connecting(t),
           NEW q \in {"init", "connect", "sendInit", "waitRsp", "gotRsp", "failed"},
           pc' = [pc EXCEPT ![t] = q], UNCHANGED <<info, myConn, conn>>
    PROVE  \A u \in Threads : Connecting(u)' <=> Connecting(u)
<1>1. pc'[t] = q /\ \A u \in Threads : u # t => pc'[u] = pc[u]
  BY DEF TypeOK
<1>2. Connecting(t)'
  BY <1>1 DEF Connecting, Stuck
<1> QED
  BY <1>1, <1>2, OthersSame

LEMMA StepConnecting ==
    ASSUME SInv, NEW t \in Threads, ThreadStep(t)
    PROVE  /\ t \in Timers /\ (Connecting(t) \/ (pc[t] = "fired" /\ Reconnect(t)))
           /\ Connecting(t) => SesTrying /\ \A u \in Threads : Connecting(u) => u = t
<1>1. pc[t] \notin {"free", "armed", "start"} /\ ~Stuck(t) /\ (pc[t] = "fired" => Reconnect(t))
  BY DEF ThreadStep, Reconnect, InitConnectSync, ConnectSync, ConnectDone,
         SendInitConnect, ResponseDone, ResponseTimeout, HandleInitConnectRsp,
         ReconnectFailed, Stuck
<1>2. t # Ctor
  BY <1>1 DEF SInv, LInv, Lone
<1> QED
  BY <1>1, <1>2 DEF SInv, SesInv, OneConnecting, Connecting, SesTrying, Threads, Ctor

\* The steps of a thread between two regions that touch the context.
LEMMA LocalSes ==
    ASSUME SInv, NEW t \in Threads,
           \/ InitConnectSync(t) \/ ConnectDone(t) \/ SendInitConnect(t)
           \/ ResponseDone(t) \/ ResponseTimeout(t)
           \/ ConnectSync(t) /\ status # "START"
    PROVE  SesInv' /\ UNCHANGED Ses!vars
<1>1. TypeOK /\ WaitsOnConn
  BY DEF SInv, LInv, Lone, CInv, IInv
<1>2. t \in Timers /\ t # Ctor /\ ThreadStep(t)
  BY StepConnecting, ConstantFacts DEF ThreadStep
<1>3. Connecting(t)
  BY <1>2, StepConnecting
  DEF InitConnectSync, ConnectDone, SendInitConnect, ResponseDone, ResponseTimeout, ConnectSync
<1>4. status # "READY"
  BY <1>3 DEF SInv, SesInv, ReadyRests
<1>5. /\ UNCHANGED <<status, auto, connId, nextConn, timer, conn, info, myConn>>
      /\ \E q \in {"connect", "sendInit", "waitRsp", "gotRsp", "failed"} :
            pc' = [pc EXCEPT ![t] = q]
  BY <1>2, <1>4
  DEF InitConnectSync, ConnectDone, SendInitConnect, ResponseDone, ResponseTimeout,
      ConnectSync, Fail, Succeed, ctxVars, netVars
<1>6. \A c : Given(c)' <=> Given(c)
  <2>1. CASE queue' = queue
    BY <2>1 DEF Given
  <2>2. CASE queue' # queue
    <3>1. status = "CONNECTED" /\ Put([op |-> "send", conn |-> connId, req |-> <<t, connId>>])
      BY <2>2
      DEF InitConnectSync, ConnectDone, SendInitConnect, ResponseDone, ResponseTimeout,
          ConnectSync, netVars
    <3>2. connId \in Conns
      BY <3>1 DEF SInv, LInv, CInv, IInv, HasConnId
    <3> DEFINE w == [op |-> "send", conn |-> connId, req |-> <<t, connId>>]
    <3>3. w \in Work /\ w.op = "send" /\ queue \in Seq(Work) /\ queue' = Append(queue, w)
      BY <1>1, <3>1, <3>2, WorkSend DEF TypeOK, Put
    <3> HIDE DEF w
    <3> QED
      BY <3>3, GivenPut
  <2> QED
    BY <2>1, <2>2
<1>7. \A u \in Threads : Connecting(u)' <=> Connecting(u)
  BY <1>1, <1>3, <1>5, GoesOn
<1> QED
  BY <1>5, <1>6, <1>7, Unseen

\* Nothing is left of the last connection.
LEMMA NoneAliveFacts ==
    ASSUME SInv, NoneAlive
    PROVE  SesLink = NoConn /\ \A c \in Conns : conn[c] \in {"none", "closed"}
<1>1. TypeOK
  BY DEF SInv, LInv, CInv, IInv
<1> QED
  BY <1>1 DEF NoneAlive, Alive, SesLink, TypeOK

\* _reconnect begins an attempt: Try.
LEMMA ReconnectSes ==
    ASSUME SInv, NEW t \in Threads, Reconnect(t)
    PROVE  SesInv' /\ (Ses!Try \/ UNCHANGED Ses!vars)
<1>1. /\ TypeOK /\ WaitsOnConn /\ ClosedRests /\ (auto => AutoLone)
      /\ OneConnecting /\ GivenRests /\ AttemptSeen /\ Opened
  BY DEF SInv, SesInv, LInv, Lone, CInv, IInv
<1>2. pc[t] = "fired" /\ t \in Timers
  BY StepConnecting DEF Reconnect, ThreadStep
<1>3. UNCHANGED <<auto, connId, nextConn, conn, info, myConn, queue>>
  BY DEF Reconnect, netVars
<1>4. \A c : Given(c)' <=> Given(c)
  BY <1>3 DEF Given
<1>5. CASE timer = NoTimer
  <2>1. pc' = [pc EXCEPT ![t] = "free"] /\ UNCHANGED <<status, timer>>
    BY <1>5 DEF Reconnect
  <2>2. \A u \in Threads : Connecting(u)' <=> Connecting(u)
    <3>1. ~Connecting(t) /\ ~Connecting(t)'
      BY <1>1, <1>2, <2>1 DEF Connecting, TypeOK
    <3>2. \A u \in Threads : u # t => pc'[u] = pc[u]
      BY <1>1, <2>1 DEF TypeOK
    <3> QED
      BY <1>1, <1>3, <3>1, <3>2, OthersSame
  <2> QED
    BY <1>3, <1>4, <2>1, <2>2, Unseen
<1>6. CASE timer # NoTimer
  <2>1. auto /\ NoneAlive /\ status \in {"WAIT_RECONNECT", "READY"}
    BY <1>1, <1>6 DEF ClosedRests, AutoLone, TimerLast
  <2>2. timer' = NoTimer /\ status' = "START" /\ pc' = [CancelTimer(pc) EXCEPT ![t] = "init"]
    BY <1>6, <2>1 DEF Reconnect
  <2>3. \A u \in Threads : ~Connecting(u)
    BY <1>1, <1>2, <2>1, StepBusy, ConnectingIsBusy DEF SInv, ThreadStep
  <2>4. /\ pc'[t] = "init"
        /\ \A u \in Threads : u # t => pc'[u] = pc[u] \/ pc'[u] = "free"
    BY <1>1, <2>2 DEF TypeOK, CancelTimer
  <2>5. Connecting(t)' /\ \A u \in Threads : u # t => ~Connecting(u)'
    BY <1>1, <1>3, <2>3, <2>4, OthersSame DEF Connecting, Stuck
  <2>6. SesInv'
    BY <1>1, <1>3, <1>4, <2>1, <2>2, <2>5, NoneAliveFacts
    DEF SesInv, OneConnecting, ReadyRests, GivenRests, AttemptSeen, ClosedRests, Opened, Alive
  <2>7. SesLink' = SesLink /\ SesEnded' = SesEnded /\ SesLink = NoConn
    BY <1>3, <1>4, <2>1, NoneAliveFacts DEF SesLink, SesEnded
  <2>8. ~SesTrying /\ SesTrying'
    BY <2>3, <2>5 DEF SesTrying
  <2>9. SesStatus \in {"DOWN", "READY"} /\ SesStatus' = "DOWN"
    BY <2>1, <2>2 DEF SesStatus
  <2> QED
    BY <1>3, <2>1, <2>6, <2>7, <2>8, <2>9 DEF Ses!Try, SesTrying
<1> QED
  BY <1>5, <1>6

\* _connect_sync begins a connection, which does not stand yet.
LEMMA ConnectSyncSes ==
    ASSUME SInv, NEW t \in Threads, ConnectSync(t), status = "START"
    PROVE  SesInv' /\ UNCHANGED Ses!vars
<1>1. /\ TypeOK /\ WaitsOnConn /\ ConnectQueued /\ auto /\ AutoLone
      /\ OneConnecting /\ GivenRests /\ AttemptSeen /\ Opened
  BY DEF SInv, SesInv, LInv, Lone, CInv, IInv, CloseSettled
<1>2. Connecting(t) /\ SesTrying /\ \A u \in Threads : Connecting(u) => u = t
  BY StepConnecting DEF ConnectSync, ThreadStep
<1>3. NoneAlive /\ timer = NoTimer
  BY <1>1 DEF AutoLone, DownEmpty, TimerLast
<1> DEFINE w == [op |-> "connect", conn |-> nextConn]
<1>4. /\ nextConn \in Conns /\ status' = "CONNECTING" /\ connId' = nextConn
      /\ nextConn' = nextConn + 1 /\ conn' = [conn EXCEPT ![nextConn] = "queued"]
      /\ queue' = Append(queue, w)
      /\ myConn' = [myConn EXCEPT ![t] = nextConn] /\ pc' = [pc EXCEPT ![t] = "waitConn"]
      /\ UNCHANGED <<auto, timer, info>>
  BY DEF ConnectSync, Put
<1>5. \A c : Given(c)' <=> Given(c)
  <2>1. w \in Work /\ w.op = "connect" /\ queue \in Seq(Work)
    BY <1>1, <1>4, WorkConnect DEF TypeOK
  <2>2. queue' = Append(queue, w)
    BY <1>4
  <2> HIDE DEF w
  <2> QED
    BY <2>1, <2>2, GivenPut
<1>6. conn[nextConn] = "none" /\ nextConn \in Nat
  BY <1>1, <1>4, ConstantFacts DEF ConnectQueued
<1>7. /\ conn'[nextConn] = "queued" /\ \A c \in Conns : c # nextConn => conn'[c] = conn[c]
      /\ myConn'[t] = nextConn /\ pc'[t] = "waitConn"
      /\ \A u \in Threads : u # t => myConn'[u] = myConn[u] /\ pc'[u] = pc[u]
  BY <1>1, <1>4 DEF TypeOK
<1>8. Connecting(t)' /\ \A u \in Threads : u # t => ~Connecting(u)'
  BY <1>1, <1>2, <1>4, <1>6, <1>7 DEF Connecting, Stuck, WaitsOnConn
<1>9. SesTrying' = SesTrying
  BY <1>2, <1>8 DEF SesTrying
<1>10. SesLink' = NoConn /\ SesLink = NoConn
  BY <1>3, <1>4, <1>7, NoneAliveFacts DEF SesLink
<1>11. SesEnded' = SesEnded
  BY <1>5, <1>6, <1>7 DEF SesEnded
<1>12. SesStatus' = SesStatus
  BY <1>4 DEF SesStatus
<1>13. ~Given(nextConn)
  BY <1>1, <1>4, <1>6 DEF Opened
<1>14. GivenRests'
  BY <1>3, <1>5, <1>7, <1>13 DEF GivenRests, NoneAlive, Alive
<1>15. Opened'
  <2>1. \A c \in Conns : c \in Nat
    BY ConstantFacts
  <2> QED
    BY <1>1, <1>4, <1>5, <1>6, <1>7, <2>1 DEF Opened
<1>16. OneConnecting' /\ ReadyRests' /\ AttemptSeen' /\ ClosedRests'
  BY <1>1, <1>4, <1>8 DEF OneConnecting, ReadyRests, AttemptSeen, ClosedRests
<1> QED
  BY <1>4, <1>9, <1>10, <1>11, <1>12, <1>14, <1>15, <1>16 DEF SesInv, Ses!vars

\* The reply to InitConnect is applied: Grant.
LEMMA HandleSes ==
    ASSUME SInv, Steady, NEW t \in Threads, HandleInitConnectRsp(t)
    PROVE  SesInv' /\ Ses!Grant
<1>1. /\ TypeOK /\ WaitsOnConn /\ GivenRests /\ ClosedRests /\ Opened
  BY DEF SInv, SesInv, LInv, Lone, CInv, IInv
<1>2. Connecting(t) /\ SesTrying /\ \A u \in Threads : Connecting(u) => u = t
  BY StepConnecting DEF HandleInitConnectRsp, ThreadStep
<1>3. /\ UNCHANGED <<auto, timer, connId, nextConn, conn, info, myConn, queue>>
      /\ status' = "READY" /\ pc' = [pc EXCEPT ![t] = "free"] /\ pc[t] = "gotRsp"
  BY DEF HandleInitConnectRsp, netVars, Succeed, Steady
<1>4. \A c : Given(c)' <=> Given(c)
  BY <1>3 DEF Given
<1>5. \A u \in Threads : ~Connecting(u)'
  <2>1. pc'[t] = "free" /\ \A u \in Threads : u # t => pc'[u] = pc[u]
    BY <1>1, <1>3 DEF TypeOK
  <2> QED
    BY <1>1, <1>2, <1>3, <2>1, OthersSame DEF Connecting
<1>6. \A c \in Conns : conn[c] \notin {"queued", "connecting"}
  BY <1>2, <1>3, AttemptFacts
<1>7. \A c \in Conns : ~(Given(c) /\ Alive(c))
  BY <1>1, <1>2 DEF GivenRests
<1>8. SesInv'
  BY <1>1, <1>3, <1>4, <1>5, <1>6, <1>7
  DEF SesInv, OneConnecting, ReadyRests, GivenRests, AttemptSeen, ClosedRests, Opened, Alive
<1>9. SesLink' = SesLink /\ SesEnded' = SesEnded
  BY <1>3, <1>4 DEF SesLink, SesEnded
<1>10. ~SesTrying' /\ SesStatus' = "READY"
  BY <1>3, <1>5 DEF SesTrying, SesStatus
<1> QED
  BY <1>2, <1>3, <1>8, <1>9, <1>10 DEF Ses!Grant, SesTrying

\* Nobody is connecting any more when the session is dropped; p is pc without the
\* thread that is leaving.
LEMMA DropConnecting ==
    ASSUME TypeOK, WaitsOnConn, NEW st, NEW p \in [Threads -> Points], DropSession(st, p),
           \A u \in Threads : p[u] = pc[u] \/ p[u] = "free",
           UNCHANGED myConn, ClosedStays
    PROVE  \A u \in Threads : Connecting(u)' => Connecting(u) /\ p[u] = pc[u]
<1>1. timer \in Timers \union {NoTimer}
  BY DEF TypeOK
<1> DEFINE q == CancelTimer(p)
<1>2. q \in [Threads -> Points] /\ \A u \in Threads : q[u] = p[u] \/ q[u] = "free"
  BY <1>1, ConstantFacts DEF CancelTimer, Points
<1>3. pc' = q \/ \E k \in Timers : pc' = [q EXCEPT ![k] = "armed"]
  BY DEF DropSession, WaitReconnect
<1> HIDE DEF q
<1>4. \A u \in Threads : pc'[u] = p[u] \/ pc'[u] \in {"free", "armed"}
  BY <1>2, <1>3, ConstantFacts
<1> QED
  BY <1>4 DEF Connecting, Stuck, WaitsOnConn, ClosedStays

\* The failure branch of _reconnect: Abandon.
LEMMA FailedSes ==
    ASSUME SInv, NEW t \in Threads, ReconnectFailed(t)
    PROVE  SesInv' /\ Ses!Abandon
<1>1. /\ TypeOK /\ WaitsOnConn /\ GivenRests /\ ClosedRests /\ ReadyRests /\ Opened
      /\ CloseSettled /\ (auto => AutoLone)
  BY DEF SInv, SesInv, LInv, Lone, CInv, IInv
<1>2. Connecting(t) /\ SesTrying /\ \A u \in Threads : Connecting(u) => u = t
  BY StepConnecting DEF ReconnectFailed, ThreadStep
<1> DEFINE p == [pc EXCEPT ![t] = "free"]
           w == [op |-> "close", conn |-> connId, notify |-> FALSE]
<1>3. /\ p \in [Threads -> Points] /\ p[t] = "free" /\ pc[t] = "failed"
      /\ \A u \in Threads : p[u] = pc[u] \/ p[u] = "free"
  BY <1>1 DEF TypeOK, Points, ReconnectFailed
<1>4. /\ DropSession(status, p) /\ queue' = Append(queue, w)
      /\ UNCHANGED <<myConn, conn, info, nextConn>>
  BY DEF ReconnectFailed, Put
<1>5. \A c : Given(c)' <=> Given(c) \/ c = connId
  <2>1. w \in Work /\ w.op = "close" /\ w.conn = connId /\ ~w.notify /\ queue \in Seq(Work)
    BY <1>1, WorkClose DEF TypeOK
  <2>2. queue' = Append(queue, w)
    BY <1>4
  <2> HIDE DEF w
  <2> QED
    BY <2>1, <2>2, GivenPut
<1>6. \A u \in Threads : ~Connecting(u)'
  <2>1. ClosedStays /\ UNCHANGED myConn /\ DropSession(status, p)
    BY <1>4 DEF ClosedStays
  <2> HIDE DEF p
  <2> QED
    BY <1>1, <1>2, <1>3, <2>1, DropConnecting
<1>7. \A c \in Conns : conn[c] \notin {"queued", "connecting"}
  BY <1>2, <1>3, AttemptFacts
<1>8. status # "READY"
  BY <1>1, <1>2 DEF ReadyRests
<1>9. /\ auto' = auto
      /\ \/ auto /\ status' = "WAIT_RECONNECT" /\ connId' = NoConn
                 /\ status \notin {"CONNECTED", "CONNECTING", "CLOSING"}
         \/ status' = status /\ connId' = connId /\ timer' = NoTimer
  BY <1>4 DEF DropSession, WaitReconnect
<1>10. SesStatus' = SesStatus /\ status' # "READY"
  BY <1>8, <1>9 DEF SesStatus
<1>11. ~SesTrying'
  BY <1>6 DEF SesTrying
<1>12. connId \in Conns \union {NoConn} /\ NoConn \notin Conns
  BY <1>1, ConstantFacts DEF TypeOK
<1>13. SesLink' = NoConn
  BY <1>4, <1>5, <1>9, <1>12 DEF SesLink
<1>14. SesEnded' = SesEnded \union ({SesLink} \ {NoConn})
  BY <1>4, <1>5, <1>12 DEF SesLink, SesEnded
<1>15. ClosedRests' /\ Opened'
  BY <1>1, <1>4, <1>5, <1>9, <1>12 DEF ClosedRests, Opened
<1>16. OneConnecting' /\ ReadyRests' /\ GivenRests' /\ AttemptSeen'
  BY <1>4, <1>6, <1>7, <1>10 DEF OneConnecting, ReadyRests, GivenRests, AttemptSeen
<1> QED
  BY <1>2, <1>9, <1>10, <1>11, <1>13, <1>14, <1>15, <1>16 DEF SesInv, Ses!Abandon, SesTrying

\* The user closes the context.
LEMMA CloseSes ==
    ASSUME SInv, Close
    PROVE  SesInv' /\ (Ses!Close \/ UNCHANGED Ses!vars)
<1>1. /\ TypeOK /\ WaitsOnConn /\ OneConnecting /\ GivenRests /\ ReadyRests /\ AttemptSeen
      /\ ClosedRests /\ Opened /\ (auto => AutoLone)
  BY DEF SInv, SesInv, LInv, Lone, CInv, IInv
<1>2. auto' = FALSE /\ UNCHANGED <<connId, nextConn, conn, info, myConn>>
  BY DEF Close
<1>3. \A c : Given(c)' <=> Given(c)
  <2>1. CASE queue' = queue
    BY <2>1 DEF Given
  <2>2. CASE queue' # queue
    <3> DEFINE w == [op |-> "close", conn |-> connId, notify |-> TRUE]
    <3>1. w \in Work /\ w.notify /\ queue \in Seq(Work)
      BY <1>1, WorkClose DEF TypeOK
    <3>2. queue' = Append(queue, w)
      BY <2>2 DEF Close, Put
    <3> HIDE DEF w
    <3> QED
      BY <3>1, <3>2, GivenPut
  <2> QED
    BY <2>1, <2>2
<1>4. \A u \in Threads : Connecting(u)' <=> Connecting(u)
  <2>1. \A u \in Threads : pc'[u] = pc[u] \/ (pc[u] = "armed" /\ pc'[u] = "free")
    <3>1. timer \in Timers \union {NoTimer} /\ pc \in [Threads -> Points]
      BY <1>1 DEF TypeOK
    <3>2. pc' = pc \/ pc' = CancelTimer(pc)
      BY DEF Close
    <3> QED
      BY <3>1, <3>2, ConstantFacts DEF CancelTimer
  <2> QED
    BY <1>2, <2>1 DEF Connecting, Stuck
<1>5. \/ status \in {"CLOSING", "CLOSED"} /\ UNCHANGED <<status, timer>>
      \/ status \in {"START", "WAIT_RECONNECT"} /\ status' = "CLOSED" /\ timer' = NoTimer
      \/ status \in {"CONNECTING", "CONNECTED", "READY"} /\ status' = "CLOSING"
            /\ timer' = NoTimer
  BY <1>1 DEF Close, TypeOK
<1>6. timer' = NoTimer
  BY <1>1, <1>5 DEF ClosedRests, AutoLone, TimerLast
<1>7. AttemptSeen'
  BY <1>1, <1>2, <1>5 DEF AttemptSeen
<1>8. SesInv'
  BY <1>1, <1>2, <1>3, <1>4, <1>5, <1>6, <1>7
  DEF SesInv, OneConnecting, ReadyRests, GivenRests, ClosedRests, Opened, Alive
<1>9. SesLink' = SesLink /\ SesEnded' = SesEnded /\ SesTrying' = SesTrying
  BY <1>2, <1>3, <1>4 DEF SesLink, SesEnded, SesTrying
<1>10. \/ SesStatus = "READY" /\ SesStatus' = "CLOSING"
       \/ SesStatus = "DOWN" /\ SesStatus' \in {"CLOSING", "CLOSED"}
       \/ SesStatus \in {"CLOSING", "CLOSED"} /\ SesStatus' = SesStatus
  BY <1>2, <1>5 DEF SesStatus
<1> QED
  BY <1>2, <1>8, <1>9, <1>10 DEF Ses!Close

\* A connection in the table is closed, and the context told: Lose, or Refuse for
\* one that was not up yet.
LEMMA LostSes ==
    ASSUME SInv, NEW c \in Conns, InTable(c), CloseConn(c), OnDisconnect,
           UNCHANGED <<myConn, info, nextConn>>,
           \A d : Given(d)' => Given(d), \A d \in Conns \ {c} : Given(d) => Given(d)'
    PROVE  SesInv' /\ (Ses!Lose \/ Ses!Refuse \/ UNCHANGED Ses!vars)
<1>1. /\ TypeOK /\ WaitsOnConn /\ OneAlive /\ OneConnecting /\ GivenRests /\ ClosedRests
      /\ ReadyRests /\ Opened /\ CloseSettled /\ (auto => AutoLone)
  BY DEF SInv, SesInv, LInv, Lone, CInv, IInv
<1>2. /\ Alive(c) /\ c = connId /\ c # NoConn /\ conn[c] \in {"connecting", "connected"}
      /\ conn'[c] = "closed" /\ \A d \in Conns : d # c => conn'[d] = conn[d]
  BY <1>1, ConstantFacts DEF InTable, Alive, OneAlive, CloseConn, TypeOK
<1>3. NoneAlive'
  BY <1>1, <1>2 DEF NoneAlive, OneAlive, Alive
<1>4. DropSession("CLOSED", pc) /\ pc \in [Threads -> Points]
  BY <1>1 DEF OnDisconnect, TypeOK
<1>5. \A u \in Threads : Connecting(u)' => Connecting(u)
  <2>1. ClosedStays
    BY <1>2 DEF ClosedStays
  <2> QED
    BY <1>1, <1>4, <2>1, DropConnecting
<1>6. /\ auto' = auto
      /\ \/ auto /\ status' = "WAIT_RECONNECT" /\ connId' = NoConn
         \/ ~auto /\ status' = "CLOSED" /\ connId' = connId /\ timer' = NoTimer
  BY <1>4 DEF DropSession, WaitReconnect
<1>7. SesInv'
  BY <1>1, <1>2, <1>3, <1>5, <1>6, ConstantFacts
  DEF SesInv, OneConnecting, ReadyRests, GivenRests, AttemptSeen, ClosedRests, Opened,
      NoneAlive, Alive
<1>8. SesLink' = NoConn
  BY <1>2, <1>6 DEF SesLink
<1>9. SesEnded' = SesEnded \union {c}
  BY <1>2 DEF SesEnded
<1>10. SesStatus' = IF auto THEN "DOWN" ELSE "CLOSED"
  BY <1>6 DEF SesStatus
<1>11. SesTrying' \in {SesTrying, FALSE}
  BY <1>5 DEF SesTrying
<1>12. Ses!InOrder(c)
  BY <1>2, OpenedInOrder
<1>13. CASE conn[c] = "connected" /\ ~Given(c)
  <2>1. SesLink = c
    BY <1>2, <1>13 DEF SesLink
  <2> QED
    BY <1>2, <1>6, <1>7, <1>8, <1>9, <1>10, <1>11, <2>1 DEF Ses!Lose
<1>14. CASE conn[c] = "connected" /\ Given(c)
  <2>1. SesLink = NoConn /\ SesEnded' = SesEnded
    BY <1>2, <1>9, <1>14 DEF SesLink, SesEnded
  <2>2. status # "READY" /\ ~SesTrying /\ ~SesTrying'
    BY <1>1, <1>2, <1>5, <1>14 DEF GivenRests, SesTrying
  <2>3. auto => status \in {"CONNECTING", "CONNECTED"}
    BY <1>1, <1>2, <2>2 DEF AutoLone, DownEmpty, NoneAlive, TypeOK
  <2>4. ~auto => status \in {"CLOSING", "CLOSED"}
    BY <1>1, <2>2 DEF ClosedRests, CloseSettled, TypeOK
  <2>5. \/ SesStatus' = SesStatus
        \/ SesStatus = "CLOSING" /\ SesStatus' = "CLOSED"
    BY <1>10, <2>3, <2>4 DEF SesStatus
  <2>6. CASE SesStatus' = SesStatus
    BY <1>6, <1>7, <1>8, <2>1, <2>2, <2>6 DEF Ses!vars, SesTrying
  <2>7. CASE SesStatus = "CLOSING" /\ SesStatus' = "CLOSED"
    BY <1>6, <1>7, <1>8, <1>9, <1>11, <1>12, <2>1, <2>7 DEF Ses!Refuse
  <2> QED
    BY <2>5, <2>6, <2>7
<1>15. CASE conn[c] = "connecting"
  <2>1. /\ SesLink = NoConn /\ SesTrying
        /\ status = IF auto THEN "CONNECTING" ELSE "CLOSING"
    BY <1>15, AttemptFacts DEF SesTrying
  <2>2. \/ SesStatus' = SesStatus
        \/ SesStatus = "CLOSING" /\ SesStatus' = "CLOSED"
    BY <1>10, <2>1 DEF SesStatus
  <2> QED
    BY <1>6, <1>7, <1>8, <1>9, <1>11, <1>12, <2>1, <2>2 DEF Ses!Refuse
<1> QED
  BY <1>2, <1>13, <1>14, <1>15

\* An attempt ends, in do_connect or later: Connect or Refuse. st is the status that
\* on_connect leaves, when it is called, and told whether it sets the event.
LEMMA OutcomeSes ==
    ASSUME SInv, NEW c \in Conns, conn[c] \in {"queued", "connecting"},
           NEW up \in BOOLEAN, NEW told \in BOOLEAN, NEW st,
           conn' = [conn EXCEPT ![c] = IF up THEN "connected" ELSE "closed"],
           told => info'[c] # "pending", ~told => info' = info,
           \A d \in Conns \ {c} : info'[d] = info[d],
           status' = st, UNCHANGED <<auto, connId, timer, nextConn, pc, myConn>>,
           \/ st = status
           \/ auto /\ st \in {"CONNECTED", "CLOSED"}
           \/ ~auto /\ st = "CLOSED",
           \A d \in Conns : Given(d)' <=> Given(d)
    PROVE  SesInv' /\ (Ses!Connect \/ Ses!Refuse)
<1>1. /\ TypeOK /\ WaitsOnConn /\ OneAlive /\ OneConnecting /\ GivenRests /\ ClosedRests
      /\ ReadyRests /\ Opened
  BY DEF SInv, SesInv, LInv, Lone, CInv, IInv
<1>2. /\ c = connId /\ ~Given(c) /\ Ses!InOrder(c) /\ c # NoConn
      /\ SesLink = NoConn /\ c \notin SesEnded /\ timer = NoTimer /\ info[c] = "pending"
      /\ status = IF auto THEN "CONNECTING" ELSE "CLOSING"
      /\ SesTrying
  BY AttemptFacts, ConstantFacts DEF SesTrying
<1>3. PICK t \in Threads : Connecting(t) /\ pc[t] = "waitConn" /\ myConn[t] = c
  BY AttemptFacts
<1>4. /\ conn'[c] = IF up THEN "connected" ELSE "closed"
      /\ \A d \in Conns : d # c => conn'[d] = conn[d]
  BY <1>1 DEF TypeOK
<1>5. \A u \in Threads : u # t => ~Connecting(u)'
  <2> SUFFICES ASSUME NEW u \in Threads, u # t, Connecting(u)' PROVE FALSE
    OBVIOUS
  <2>1. ~Connecting(u) /\ pc'[u] = pc[u] /\ myConn'[u] = myConn[u]
    BY <1>1, <1>3 DEF OneConnecting
  <2>2. Stuck(u)
    BY <2>1 DEF Connecting
  <2>3. myConn[u] \in Conns /\ conn[myConn[u]] = "closed"
    BY <1>1, <2>2 DEF Stuck, WaitsOnConn
  <2> QED
    BY <1>4, <2>1, <2>2, <2>3 DEF Connecting, Stuck
<1>6. up \/ told => Connecting(t)'
  BY <1>2, <1>3, <1>4 DEF Connecting, Stuck
<1>7. \A d \in Conns : d # c => ~Alive(d) /\ conn'[d] \notin {"queued", "connecting"}
  BY <1>1, <1>2, <1>4 DEF OneAlive, Alive
<1>8. SesInv'
  <2>1. OneConnecting' /\ ReadyRests'
    BY <1>2, <1>5 DEF OneConnecting, ReadyRests
  <2>2. GivenRests' /\ AttemptSeen'
    BY <1>2, <1>4, <1>7 DEF GivenRests, AttemptSeen, Alive
  <2>3. ClosedRests' /\ Opened'
    BY <1>1, <1>2, <1>4 DEF ClosedRests, Opened
  <2> QED
    BY <2>1, <2>2, <2>3 DEF SesInv
<1>9. \/ SesStatus' = SesStatus
      \/ SesStatus = "CLOSING" /\ SesStatus' = "CLOSED"
  BY <1>2 DEF SesStatus
<1>10. SesStatus \in {"DOWN", "CLOSING"}
  BY <1>2 DEF SesStatus
<1>11. CASE up
  <2>1. SesLink' = c /\ SesEnded' = SesEnded
    BY <1>2, <1>4, <1>11 DEF SesLink, SesEnded
  <2>2. SesTrying'
    BY <1>6, <1>11 DEF SesTrying
  <2> QED
    BY <1>2, <1>8, <1>9, <1>10, <2>1, <2>2 DEF Ses!Connect, SesTrying
<1>12. CASE ~up
  <2>1. SesLink' = NoConn /\ SesEnded' = SesEnded \union {c}
    BY <1>2, <1>4, <1>12 DEF SesLink, SesEnded
  <2>2. SesTrying' \in {SesTrying, FALSE}
    BY <1>2 DEF SesTrying
  <2> QED
    BY <1>2, <1>8, <1>9, <2>1, <2>2 DEF Ses!Refuse
<1> QED
  BY <1>11, <1>12

LEMMA NetWorkSes ==
    ASSUME SInv, NetWork
    PROVE  SesInv' /\ (Ses!Next \/ UNCHANGED Ses!vars)
<1>1. /\ TypeOK /\ WaitsOnConn /\ ConnectQueued /\ GivenRests
      /\ queue # <<>> /\ queue' = Tail(queue) /\ queue \in Seq(Work)
      /\ 1 \in DOMAIN queue /\ Head(queue) = queue[1]
  BY DEF SInv, LInv, Lone, CInv, IInv, SesInv, TypeOK, NetWork, NetConnect, NetSend, NetClose
<1> DEFINE w == Head(queue)
           c == w.conn
<1>2. /\ w.op = "connect" => c \in Conns /\ conn[c] = "queued"
      /\ w.op = "send" => c \in Conns
      /\ w.op = "close" /\ InTable(c) => c \in Conns
  BY <1>1, GetType DEF TypeOK, InTable, ConnectQueued
<1>3. \A d : /\ Given(d)' => Given(d)
             /\ Given(d) => Given(d)' \/ (w.op = "close" /\ d = c /\ ~w.notify)
             /\ w.op = "close" /\ d = c /\ ~w.notify => Given(d)
  BY <1>1, GivenGet
<1>4. UNCHANGED <<myConn, info, nextConn>>
  BY DEF NetWork, NetConnect, NetSend, NetClose, thrVars
<1>5. CASE NetConnect
  <2>1. w.op = "connect" /\ UNCHANGED <<ctxVars, pc>> /\ DoConnect(c)
    BY <1>5 DEF NetConnect, thrVars
  <2> HIDE DEF w
  <2>2. c \in Conns /\ conn[c] = "queued" /\ \A d : Given(d)' <=> Given(d)
    BY <1>2, <1>3, <2>1
  <2> HIDE DEF c
  <2>3. CASE conn' = [conn EXCEPT ![c] = "connecting"]
    <3>1. conn'[c] = "connecting" /\ \A d \in Conns : d # c => conn'[d] = conn[d]
      BY <1>1, <2>2, <2>3 DEF TypeOK
    <3>2. \A u \in Threads : Connecting(u)' <=> Connecting(u)
      BY <1>1, <1>4, <2>1, <2>2, <3>1, OthersSame
    <3> QED
      BY <1>4, <2>1, <2>2, <3>1, <3>2, Unseen DEF ctxVars
  <2>4. CASE conn' = [conn EXCEPT ![c] = "connected"]
    <3> QED
      BY <1>4, <2>1, <2>2, <2>4, OutcomeSes DEF ctxVars, Ses!Next
  <2>5. CASE conn' = [conn EXCEPT ![c] = "closed"]
    <3> QED
      BY <1>4, <2>1, <2>2, <2>5, OutcomeSes DEF ctxVars, Ses!Next
  <2> QED
    BY <2>1, <2>3, <2>4, <2>5 DEF DoConnect
<1>6. ASSUME UNCHANGED <<ctxVars, pc, conn>>, InTable(c) => w.op # "close"
      PROVE  SesInv' /\ UNCHANGED Ses!vars
  <2>1. \A u \in Threads : Connecting(u)' <=> Connecting(u)
    BY <1>4, <1>6 DEF Connecting, Stuck
  <2>2. \A d \in Conns : Given(d) /\ conn[d] = "connected" => Given(d)'
    BY <1>3, <1>6, ConstantFacts DEF InTable
  <2> QED
    BY <1>3, <1>4, <1>6, <2>1, <2>2, Unseen DEF ctxVars
<1>7. CASE NetSend
  <2>1. w.op = "send" /\ c \in Conns
    BY <1>2, <1>7 DEF NetSend
  <2>2. \/ UNCHANGED <<ctxVars, pc, conn>>
        \/ conn[c] = "connected" /\ CloseConn(c) /\ OnDisconnect
    BY <1>7 DEF NetSend
  <2> HIDE DEF w
  <2>3. \A d : Given(d)' <=> Given(d)
    BY <1>3, <2>1
  <2>4. CASE UNCHANGED <<ctxVars, pc, conn>>
    BY <1>6, <2>1, <2>4
  <2>5. CASE conn[c] = "connected" /\ CloseConn(c) /\ OnDisconnect
    <3> HIDE DEF c
    <3>1. InTable(c)
      BY <2>1, <2>5, ConstantFacts DEF InTable
    <3> QED
      BY <1>4, <2>1, <2>3, <2>5, <3>1, LostSes DEF Ses!Next
  <2> QED
    BY <2>2, <2>4, <2>5
<1>8. CASE NetClose
  <2>1. w.op = "close" /\ (InTable(c) => c \in Conns)
    BY <1>2, <1>8 DEF NetClose
  <2>2. \/ ~InTable(c) /\ UNCHANGED <<ctxVars, pc, conn>>
        \/ InTable(c) /\ w.notify /\ CloseConn(c) /\ OnDisconnect
        \/ InTable(c) /\ ~w.notify /\ CloseConn(c) /\ UNCHANGED <<ctxVars, pc>>
    BY <1>8 DEF NetClose
  <2>3. \A d : d # c => (Given(d)' <=> Given(d))
    BY <1>3
  <2>4. CASE ~InTable(c) /\ UNCHANGED <<ctxVars, pc, conn>>
    BY <1>6, <2>4
  <2>5. CASE InTable(c) /\ w.notify /\ CloseConn(c) /\ OnDisconnect
    <3> HIDE DEF w, c
    <3> QED
      BY <1>3, <1>4, <2>1, <2>3, <2>5, LostSes DEF Ses!Next
  <2>6. CASE InTable(c) /\ ~w.notify /\ CloseConn(c) /\ UNCHANGED <<ctxVars, pc>>
    <3>1. Given(c)
      BY <1>3, <2>1, <2>6
    <3> HIDE DEF w, c
    <3>2. c \in Conns /\ conn[c] = "connected"
      BY <2>1, <2>6, <3>1, AttemptFacts DEF InTable
    <3>3. c = connId /\ conn'[c] = "closed" /\ \A d \in Conns : d # c => conn'[d] = conn[d]
      BY <1>1, <2>6, <3>2 DEF CloseConn, TypeOK, SInv, LInv, Lone, OneAlive, Alive
    <3>4. \A u \in Threads : ~Connecting(u) /\ ~Connecting(u)'
      <4>1. \A u \in Threads : ~Connecting(u)
        BY <1>1, <3>1, <3>2 DEF GivenRests, Alive
      <4>2. \A u \in Threads : Stuck(u) => Stuck(u)'
        BY <1>1, <1>4, <2>6, <3>3 DEF Stuck, WaitsOnConn
      <4> QED
        BY <2>6, <4>1, <4>2 DEF Connecting
    <3>5. UNCHANGED Ses!vars
      <4>1. UNCHANGED <<status, auto, connId, timer>>
        BY <2>6 DEF ctxVars
      <4>2. SesStatus' = SesStatus /\ SesTrying' = SesTrying
        BY <3>4, <4>1 DEF SesStatus, SesTrying
      <4>3. SesLink' = SesLink
        BY <3>1, <3>3, <4>1 DEF SesLink
      <4>4. SesEnded' = SesEnded
        BY <2>3, <3>1, <3>2, <3>3 DEF SesEnded
      <4> QED
        BY <4>1, <4>2, <4>3, <4>4 DEF Ses!vars
    <3>6. SesInv'
      BY <1>3, <1>4, <2>6, <3>3, <3>4
      DEF SInv, SesInv, OneConnecting, ReadyRests, GivenRests, AttemptSeen, ClosedRests,
          Opened, Alive, ctxVars
    <3> QED
      BY <3>5, <3>6
  <2> QED
    BY <2>2, <2>4, <2>5, <2>6
<1> QED
  BY <1>5, <1>7, <1>8 DEF NetWork

LEMMA NetEventSes ==
    ASSUME SInv, NEW c \in Conns, NetEvent(c)
    PROVE  SesInv' /\ (Ses!Next \/ UNCHANGED Ses!vars)
<1>1. TypeOK
  BY DEF SInv, LInv, CInv, IInv
<1>2. \A d : Given(d)' <=> Given(d)
  <2>1. queue' = queue
    BY DEF NetEvent, NetConnected, NetConnectFail, NetDisconnect
  <2> QED
    BY <2>1 DEF Given
<1>3. ASSUME NEW ok \in BOOLEAN, conn[c] = "connecting", OnConnect(c, ok),
             UNCHANGED <<thrVars, nextConn>>,
             conn' = [conn EXCEPT ![c] = IF ok THEN "connected" ELSE "closed"]
      PROVE  SesInv' /\ (Ses!Next \/ UNCHANGED Ses!vars)
  <2>1. status = IF auto THEN "CONNECTING" ELSE "CLOSING"
    BY <1>3, AttemptFacts
  <2>2. \/ auto /\ status' \in {"CONNECTED", "CLOSED"}
        \/ ~auto /\ status' = "CLOSED"
    BY <1>3, <2>1 DEF OnConnect
  <2>3. /\ info'[c] # "pending" /\ \A d \in Conns \ {c} : info'[d] = info[d]
        /\ UNCHANGED <<auto, connId, timer, nextConn, pc, myConn>>
    BY <1>1, <1>3 DEF OnConnect, thrVars, TypeOK
  <2> QED
    BY <1>2, <1>3, <2>2, <2>3, OutcomeSes DEF Ses!Next
<1>4. CASE NetConnected(c)
  BY <1>3, <1>4 DEF NetConnected
<1>5. CASE NetConnectFail(c)
  BY <1>3, <1>5 DEF NetConnectFail, CloseConn
<1>6. CASE NetDisconnect(c)
  <2>1. InTable(c)
    BY <1>6, ConstantFacts DEF NetDisconnect, InTable
  <2> QED
    BY <1>2, <1>6, <2>1, LostSes DEF NetDisconnect, Ses!Next
<1> QED
  BY <1>4, <1>5, <1>6 DEF NetEvent

LEMMA SesInit == Modes \subseteq {"async"} /\ Init => SInv /\ Ses!Init
<1> SUFFICES ASSUME Modes \subseteq {"async"}, Init PROVE SInv /\ Ses!Init
  OBVIOUS
<1>1. LInv
  BY LoneInit
<1>2. /\ status = "WAIT_RECONNECT" /\ auto = TRUE /\ connId = NoConn /\ queue = <<>> /\ nextConn = 1
      /\ pc = [t \in Threads |-> IF t = 1 THEN "armed" ELSE "free"]
      /\ conn = [c \in Conns |-> "none"]
  BY DEF Init
<1>3. (\A t \in Threads : ~Connecting(t)) /\ (\A c : ~Given(c))
  BY <1>2 DEF Connecting, Given
<1>4. \A c \in Conns : ~(c < 1) /\ c # NoConn /\ conn[c] = "none"
  BY <1>2, ConstantsAssumption, ConstantFacts DEF Conns
<1>5. SesInv
  BY <1>2, <1>3, <1>4
  DEF SesInv, OneConnecting, ReadyRests, GivenRests, AttemptSeen, ClosedRests, Opened, Alive
<1>6. SesStatus = "DOWN" /\ ~SesTrying /\ SesLink = NoConn /\ SesEnded = {}
  BY <1>2, <1>3, <1>4 DEF SesStatus, SesTrying, SesLink, SesEnded
<1> QED
  BY <1>1, <1>2, <1>5, <1>6 DEF SInv, Ses!Init, SesTrying

LEMMA SesNext ==
    Steady /\ SInv /\ [Next]_vars => SInv' /\ (Ses!Next \/ UNCHANGED Ses!vars)
<1> SUFFICES ASSUME Steady, SInv, [Next]_vars
             PROVE  SInv' /\ (Ses!Next \/ UNCHANGED Ses!vars)
  OBVIOUS
<1>1. LInv' /\ TypeOK /\ WaitsOnConn /\ pc[Ctor] = "free"
  BY LoneNext DEF SInv, LInv, Lone, CInv, IInv
<1>2. SesInv' /\ (Ses!Next \/ UNCHANGED Ses!vars)
  <2>1. ~CtorStart
    BY <1>1 DEF CtorStart
  <2>2. ASSUME NEW t \in Timers, TimerFire(t) PROVE SesInv' /\ UNCHANGED Ses!vars
    <3>1. pc[t] = "armed" /\ pc' = [pc EXCEPT ![t] = "fired"]
          /\ UNCHANGED <<ctxVars, myConn, netVars>>
      BY <2>2 DEF TimerFire
    <3>2. \A u \in Threads : Connecting(u)' <=> Connecting(u)
      BY <1>1, <3>1 DEF Connecting, Stuck, TypeOK, netVars
    <3>3. \A c : Given(c)' <=> Given(c)
      BY <3>1 DEF Given, netVars
    <3> QED
      BY <3>1, <3>2, <3>3, Unseen DEF ctxVars, netVars
  <2>3. ASSUME NEW t \in Threads, ThreadStep(t)
        PROVE  SesInv' /\ (Ses!Next \/ UNCHANGED Ses!vars)
    BY <2>3, LocalSes, ReconnectSes, ConnectSyncSes, HandleSes, FailedSes
    DEF ThreadStep, Ses!Next
  <2>4. ASSUME UNCHANGED <<ctxVars, pc, myConn, conn, info, nextConn, queue>>
        PROVE  SesInv' /\ UNCHANGED Ses!vars
    <3>1. (\A u \in Threads : Connecting(u)' <=> Connecting(u)) /\ \A c : Given(c)' <=> Given(c)
      BY <2>4 DEF Connecting, Stuck, Given
    <3> QED
      BY <2>4, <3>1, Unseen DEF ctxVars
  <2>5. ASSUME NEW r \in inbox, NEW answer \in InitReplies, NetInitRsp(r, answer)
        PROVE  SesInv' /\ UNCHANGED Ses!vars
    BY <2>4, <2>5 DEF NetInitRsp, thrVars
  <2>6. UNCHANGED vars => SesInv' /\ UNCHANGED Ses!vars
    BY <2>4 DEF vars, thrVars, netVars
  <2> QED
    BY <2>1, <2>2, <2>3, <2>5, <2>6, CloseSes, NetWorkSes, NetEventSes DEF Next, Ses!Next
<1> QED
  BY <1>1, <1>2 DEF SInv

\* What module Requests takes the session for is true of every context that was built
\* with is_async_connect, whose threads run before its timer fires and whose
\* on_api_socket_reconnected raises nothing: whatever attempts and replies come to, and
\* whenever its user closes it (open_context_base.py, _reconnect, on_connect,
\* on_disconnect, close).
THEOREM SessionRefined ==
    ASSUME Modes \subseteq {"async"}, Steady
    PROVE  Spec => KeepsSession
<1>1. Init => SInv /\ Ses!Init
  BY SesInit
<1>2. SInv /\ [Next]_vars => SInv' /\ [Ses!Next]_Ses!vars
  BY SesNext
<1> QED
  BY <1>1, <1>2, PTL DEF Spec, KeepsSession, Ses!Spec

-----------------------------------------------------------------------------
(***************************************************************************)
(* NoStrayConnection: what close() finds under way is closed. close() asks *)
(* for the connection _conn_id names, and there is no other (OneAlive); the *)
(* network thread opens a connection before it comes to closing it, so the *)
(* request does not go by a connection that is still to be opened.          *)
(***************************************************************************)
\* The work to open c is queued, before any request to close it.
OpensFirst(c) ==
    \E i \in DOMAIN queue :
        /\ queue[i].op = "connect" /\ queue[i].conn = c
        /\ \A j \in DOMAIN queue : queue[j].op = "close" /\ queue[j].conn = c => i < j

ConnectFirst == \A c \in Conns : conn[c] = "queued" => OpensFirst(c)

CloseOpened == \A c \in Conns : CloseQueued(c) => conn[c] # "none"

Doomed == ~auto => \A c \in Conns : Alive(c) => CloseQueued(c)

DInv == SInv /\ ConnectFirst /\ CloseOpened /\ Doomed

LEMMA QueuedPut ==
    ASSUME queue \in Seq(Work), NEW w \in Work, queue' = Append(queue, w)
    PROVE  \A c : /\ CloseQueued(c)' <=> CloseQueued(c) \/ (w.op = "close" /\ w.conn = c)
                  /\ OpensFirst(c) => OpensFirst(c)'
                  /\ w.op = "connect" /\ w.conn = c /\ ~CloseQueued(c) => OpensFirst(c)'
<1> DEFINE n == Len(queue)
<1>1. /\ n \in Nat /\ queue'[n + 1] = w
      /\ \A i \in 1 .. n : queue'[i] = queue[i]
      /\ DOMAIN queue = 1 .. n /\ DOMAIN queue' = 1 .. (n + 1)
  OBVIOUS
<1> HIDE DEF n
<1>2. /\ n + 1 \in DOMAIN queue'
      /\ \A i \in DOMAIN queue : i \in DOMAIN queue' /\ queue'[i] = queue[i] /\ i < n + 1
      /\ \A i \in DOMAIN queue' : i = n + 1 \/ i \in DOMAIN queue
  BY <1>1
<1> SUFFICES ASSUME NEW c
             PROVE  /\ CloseQueued(c)' <=> CloseQueued(c) \/ (w.op = "close" /\ w.conn = c)
                    /\ OpensFirst(c) => OpensFirst(c)'
                    /\ w.op = "connect" /\ w.conn = c /\ ~CloseQueued(c) => OpensFirst(c)'
  OBVIOUS
<1>3. CloseQueued(c)' <=> CloseQueued(c) \/ (w.op = "close" /\ w.conn = c)
  BY <1>1, <1>2 DEF CloseQueued
<1>4. ASSUME OpensFirst(c) PROVE OpensFirst(c)'
  <2>1. PICK i \in DOMAIN queue :
           /\ queue[i].op = "connect" /\ queue[i].conn = c
           /\ \A j \in DOMAIN queue : queue[j].op = "close" /\ queue[j].conn = c => i < j
    BY <1>4 DEF OpensFirst
  <2> QED
    BY <1>2, <2>1 DEF OpensFirst
<1>5. w.op = "connect" /\ w.conn = c /\ ~CloseQueued(c) => OpensFirst(c)'
  BY <1>1, <1>2 DEF OpensFirst, CloseQueued
<1> QED
  BY <1>3, <1>4, <1>5

LEMMA QueuedGet ==
    ASSUME queue \in Seq(Work), queue # <<>>, queue' = Tail(queue)
    PROVE  \A c : /\ CloseQueued(c)' => CloseQueued(c)
                  /\ CloseQueued(c) => \/ CloseQueued(c)'
                                       \/ Head(queue).op = "close" /\ Head(queue).conn = c
                  /\ OpensFirst(c) => /\ \/ OpensFirst(c)'
                                         \/ Head(queue).op = "connect" /\ Head(queue).conn = c
                                      /\ ~(Head(queue).op = "close" /\ Head(queue).conn = c)
<1>1. /\ Len(queue) \in Nat \ {0} /\ Len(queue') = Len(queue) - 1
      /\ Head(queue) = queue[1]
      /\ \A i \in 1 .. Len(queue') : queue'[i] = queue[i + 1]
      /\ DOMAIN queue = 1 .. Len(queue) /\ DOMAIN queue' = 1 .. Len(queue')
  OBVIOUS
<1>2. \A i \in DOMAIN queue' : i \in Nat /\ i + 1 \in DOMAIN queue /\ queue'[i] = queue[i + 1]
  BY <1>1
<1>3. \A i \in DOMAIN queue :
         i = 1 \/ (i \in Nat /\ i - 1 \in DOMAIN queue' /\ queue[i] = queue'[i - 1])
  BY <1>1
<1>4. 1 \in DOMAIN queue /\ \A i \in DOMAIN queue : i \in Nat /\ ~(i < 1)
  BY <1>1
<1> SUFFICES ASSUME NEW c
             PROVE  /\ CloseQueued(c)' => CloseQueued(c)
                    /\ CloseQueued(c) => \/ CloseQueued(c)'
                                         \/ queue[1].op = "close" /\ queue[1].conn = c
                    /\ OpensFirst(c) => /\ \/ OpensFirst(c)'
                                           \/ queue[1].op = "connect" /\ queue[1].conn = c
                                        /\ ~(queue[1].op = "close" /\ queue[1].conn = c)
  BY <1>1
<1>5. CloseQueued(c)' => CloseQueued(c)
  BY <1>2 DEF CloseQueued
<1>6. CloseQueued(c) => CloseQueued(c)' \/ (queue[1].op = "close" /\ queue[1].conn = c)
  BY <1>3 DEF CloseQueued
<1>7. ASSUME OpensFirst(c)
      PROVE  /\ OpensFirst(c)' \/ (queue[1].op = "connect" /\ queue[1].conn = c)
             /\ ~(queue[1].op = "close" /\ queue[1].conn = c)
  <2>1. PICK i \in DOMAIN queue :
           /\ queue[i].op = "connect" /\ queue[i].conn = c
           /\ \A j \in DOMAIN queue : queue[j].op = "close" /\ queue[j].conn = c => i < j
    BY <1>7 DEF OpensFirst
  <2>2. ~(queue[1].op = "close" /\ queue[1].conn = c)
    BY <1>4, <2>1
  <2>3. CASE i # 1
    <3>1. /\ i \in Nat /\ i - 1 \in DOMAIN queue' /\ queue'[i - 1] = queue[i]
      BY <1>3, <2>3
    <3>2. \A j \in DOMAIN queue' : queue'[j].op = "close" /\ queue'[j].conn = c => i - 1 < j
      BY <1>2, <2>1, <3>1
    <3> QED
      BY <2>1, <2>2, <3>1, <3>2 DEF OpensFirst
  <2> QED
    BY <2>1, <2>2, <2>3
<1> QED
  BY <1>5, <1>6, <1>7

\* Steps that begin no connection, and take no request from the queue that they do
\* not see to.
LEMMA DoomedFrame ==
    ASSUME DInv,
           \/ queue' = queue
           \/ \E w \in Work : /\ queue' = Append(queue, w)
                              /\ w.op = "close" => w.conn \in {connId, NoConn}
           \/ /\ queue # <<>> /\ queue' = Tail(queue)
              /\ \A c \in Conns : \/ Head(queue).conn # c
                                  \/ Head(queue).op = "connect" /\ conn'[c] # "queued"
                                  \/ Head(queue).op = "send"
                                  \/ Head(queue).op = "close" /\ (InTable(c) => ~Alive(c)'),
           \A c \in Conns : /\ Alive(c)' => Alive(c)
                            /\ conn'[c] = "queued" => conn[c] = "queued"
                            /\ conn[c] # "none" => conn'[c] # "none"
    PROVE  ConnectFirst' /\ CloseOpened' /\ (auto' = auto => Doomed')
<1>1. /\ queue \in Seq(Work) /\ ConnectFirst /\ CloseOpened /\ Doomed
      /\ \A c \in Conns : c = connId => conn[c] # "none"
  BY DEF DInv, SInv, SesInv, Opened, LInv, CInv, IInv, TypeOK
<1>2. CASE queue' = queue
  <2>1. \A c : (CloseQueued(c)' <=> CloseQueued(c)) /\ (OpensFirst(c)' <=> OpensFirst(c))
    BY <1>2 DEF CloseQueued, OpensFirst
  <2> QED
    BY <1>1, <2>1 DEF ConnectFirst, CloseOpened, Doomed
<1>3. ASSUME NEW w \in Work, queue' = Append(queue, w),
             w.op = "close" => w.conn \in {connId, NoConn}
      PROVE  ConnectFirst' /\ CloseOpened' /\ (auto' = auto => Doomed')
  <2>1. \A c : /\ CloseQueued(c)' <=> CloseQueued(c) \/ (w.op = "close" /\ w.conn = c)
               /\ OpensFirst(c) => OpensFirst(c)'
    BY <1>1, <1>3, QueuedPut
  <2> QED
    BY <1>1, <1>3, <2>1, ConstantFacts DEF ConnectFirst, CloseOpened, Doomed
<1>4. ASSUME queue # <<>>, queue' = Tail(queue),
             \A c \in Conns : \/ Head(queue).conn # c
                              \/ Head(queue).op = "connect" /\ conn'[c] # "queued"
                              \/ Head(queue).op = "send"
                              \/ Head(queue).op = "close" /\ (InTable(c) => ~Alive(c)')
      PROVE  ConnectFirst' /\ CloseOpened' /\ (auto' = auto => Doomed')
  <2> DEFINE h == Head(queue)
  <2>1. \A c : /\ CloseQueued(c)' => CloseQueued(c)
               /\ CloseQueued(c) => CloseQueued(c)' \/ (h.op = "close" /\ h.conn = c)
               /\ OpensFirst(c) => /\ OpensFirst(c)' \/ (h.op = "connect" /\ h.conn = c)
                                   /\ ~(h.op = "close" /\ h.conn = c)
    BY <1>1, <1>4, QueuedGet
  <2>2. \A c \in Conns : \/ h.conn # c
                         \/ h.op = "connect" /\ conn'[c] # "queued"
                         \/ h.op = "send"
                         \/ h.op = "close" /\ (InTable(c) => ~Alive(c)')
    BY <1>4
  <2> HIDE DEF h
  <2>3. ConnectFirst' /\ CloseOpened'
    BY <1>1, <2>1, <2>2 DEF ConnectFirst, CloseOpened
  <2>4. ASSUME auto' = auto PROVE Doomed'
    <3> SUFFICES ASSUME ~auto, NEW c \in Conns, Alive(c)' PROVE CloseQueued(c)'
      BY <2>4 DEF Doomed
    <3>1. Alive(c) /\ CloseQueued(c)
      BY <1>1 DEF Doomed
    <3>2. ASSUME h.op = "close", h.conn = c PROVE FALSE
      <4>1. conn[c] # "queued"
        BY <1>1, <2>1, <3>2 DEF ConnectFirst
      <4>2. InTable(c)
        BY <3>1, <4>1, ConstantFacts DEF Alive, InTable
      <4> QED
        BY <2>2, <3>2, <4>2
    <3> QED
      BY <2>1, <3>1, <3>2
  <2> QED
    BY <2>3, <2>4
<1> QED
  BY <1>2, <1>3, <1>4

LEMMA DoomedNetWork ==
    ASSUME DInv, NetWork
    PROVE  ConnectFirst' /\ CloseOpened' /\ Doomed'
<1>1. /\ TypeOK /\ ConnectQueued /\ queue # <<>> /\ queue' = Tail(queue)
      /\ 1 \in DOMAIN queue /\ Head(queue) = queue[1]
  BY DEF DInv, SInv, LInv, CInv, IInv, TypeOK, NetWork, NetConnect, NetSend, NetClose
<1>2. auto' = auto
  BY DEF NetWork, NetConnect, NetSend, NetClose, OnDisconnect, DropSession, ctxVars
<1> DEFINE h == Head(queue)
<1>3. CASE NetConnect
  <2>1. h.op = "connect" /\ DoConnect(h.conn) /\ h.conn \in Conns /\ conn[h.conn] = "queued"
    BY <1>1, <1>3, GetType DEF NetConnect, ConnectQueued, TypeOK
  <2>2. /\ conn'[h.conn] \in {"connecting", "connected", "closed"}
        /\ \A c \in Conns : c # h.conn => conn'[c] = conn[c]
    BY <1>1, <2>1 DEF DoConnect, TypeOK
  <2>3. \A c \in Conns : \/ h.conn # c
                         \/ h.op = "connect" /\ conn'[c] # "queued"
    BY <2>1, <2>2
  <2>4. \A c \in Conns : /\ Alive(c)' => Alive(c)
                         /\ conn'[c] = "queued" => conn[c] = "queued"
                         /\ conn[c] # "none" => conn'[c] # "none"
    BY <2>1, <2>2 DEF Alive
  <2> HIDE DEF h
  <2> QED
    BY <1>1, <1>2, <2>3, <2>4, DoomedFrame DEF h
<1>4. ASSUME NEW d, conn' = conn \/ (conn[d] \notin {"none", "queued"}
                                        /\ conn' = [conn EXCEPT ![d] = "closed"])
      PROVE  \A c \in Conns : /\ Alive(c)' => Alive(c)
                              /\ conn'[c] = "queued" => conn[c] = "queued"
                              /\ conn[c] # "none" => conn'[c] # "none"
  BY <1>1, <1>4 DEF Alive, TypeOK
<1>5. CASE NetSend
  <2>1. /\ h.op = "send"
        /\ conn' = conn \/ (conn[h.conn] \notin {"none", "queued"}
                               /\ conn' = [conn EXCEPT ![h.conn] = "closed"])
    BY <1>5 DEF NetSend, CloseConn
  <2>2. \A c \in Conns : /\ Alive(c)' => Alive(c)
                         /\ conn'[c] = "queued" => conn[c] = "queued"
                         /\ conn[c] # "none" => conn'[c] # "none"
    BY <1>4, <2>1
  <2> QED
    BY <1>1, <1>2, <2>1, <2>2, DoomedFrame
<1>6. CASE NetClose
  <2>1. /\ h.op = "close"
        /\ ~InTable(h.conn) => conn' = conn
        /\ InTable(h.conn) => conn' = [conn EXCEPT ![h.conn] = "closed"]
    BY <1>6 DEF NetClose, CloseConn
  <2>2. \A c \in Conns : /\ Alive(c)' => Alive(c)
                         /\ conn'[c] = "queued" => conn[c] = "queued"
                         /\ conn[c] # "none" => conn'[c] # "none"
    BY <1>4, <2>1 DEF InTable
  <2>3. \A c \in Conns : h.conn # c \/ (h.op = "close" /\ (InTable(c) => ~Alive(c)'))
    BY <1>1, <2>1 DEF Alive, TypeOK
  <2> QED
    BY <1>1, <1>2, <2>2, <2>3, DoomedFrame
<1> QED
  BY <1>3, <1>5, <1>6 DEF NetWork

LEMMA DoomedConnectSync ==
    ASSUME DInv, NEW t \in Threads, ConnectSync(t)
    PROVE  ConnectFirst' /\ CloseOpened' /\ Doomed'
<1>1. TypeOK /\ CloseSettled /\ ConnectQueued /\ ConnectFirst /\ CloseOpened
  BY DEF DInv, SInv, LInv, CInv, IInv
<1>2. auto' = auto
  BY DEF ConnectSync
<1>3. CASE status = "START"
  <2> DEFINE w == [op |-> "connect", conn |-> nextConn]
  <2>1. /\ nextConn \in Conns /\ queue' = Append(queue, w)
        /\ conn' = [conn EXCEPT ![nextConn] = "queued"]
    BY <1>3 DEF ConnectSync, Put
  <2>2. auto /\ conn[nextConn] = "none"
    BY <1>1, <1>3, <2>1 DEF CloseSettled, ConnectQueued, Conns
  <2>3. w \in Work /\ w.op = "connect" /\ w.conn = nextConn
    BY <2>1, WorkConnect
  <2> HIDE DEF w
  <2>4. \A c : /\ CloseQueued(c)' <=> CloseQueued(c)
               /\ OpensFirst(c) => OpensFirst(c)'
               /\ c = nextConn /\ ~CloseQueued(c) => OpensFirst(c)'
    BY <1>1, <2>1, <2>3, QueuedPut DEF TypeOK
  <2>5. \A c \in Conns : conn'[c] = IF c = nextConn THEN "queued" ELSE conn[c]
    BY <1>1, <2>1 DEF TypeOK
  <2> QED
    BY <1>1, <1>2, <2>1, <2>2, <2>4, <2>5 DEF ConnectFirst, CloseOpened, Doomed
<1>4. CASE status # "START"
  BY <1>2, <1>4, DoomedFrame DEF ConnectSync, Alive
<1> QED
  BY <1>3, <1>4

\* close() asks for the one connection there may be.
LEMMA DoomedClose ==
    ASSUME DInv, Close
    PROVE  ConnectFirst' /\ CloseOpened' /\ Doomed'
<1>1. TypeOK /\ OneAlive /\ (auto => AutoLone)
  BY DEF DInv, SInv, LInv, Lone, CInv, IInv
<1> DEFINE w == [op |-> "close", conn |-> connId, notify |-> TRUE]
<1>2. /\ queue' = queue \/ queue' = Append(queue, w)
      /\ auto' = FALSE /\ UNCHANGED conn
      /\ status \in {"CONNECTING", "CONNECTED", "READY"} => queue' = Append(queue, w)
  BY DEF Close, Put
<1>3. w \in Work /\ w.op = "close" /\ w.conn = connId
  BY <1>1, WorkClose DEF TypeOK
<1> HIDE DEF w
<1>4. ConnectFirst' /\ CloseOpened' /\ (auto' = auto => Doomed')
  <2>1. \/ queue' = queue
        \/ \E v \in Work : /\ queue' = Append(queue, v)
                           /\ v.op = "close" => v.conn \in {connId, NoConn}
    BY <1>2, <1>3
  <2>2. \A c \in Conns : /\ Alive(c)' => Alive(c)
                         /\ conn'[c] = "queued" => conn[c] = "queued"
                         /\ conn[c] # "none" => conn'[c] # "none"
    BY <1>2 DEF Alive
  <2> QED
    BY <2>1, <2>2, DoomedFrame
<1>5. CASE auto
  <2> SUFFICES ASSUME NEW c \in Conns, Alive(c) PROVE CloseQueued(c)'
    BY <1>2, <1>4 DEF Doomed, Alive
  <2>1. status \in {"CONNECTING", "CONNECTED", "READY"} /\ c = connId
    BY <1>1, <1>5 DEF AutoLone, DownEmpty, NoneAlive, OneAlive, TypeOK
  <2> QED
    BY <1>1, <1>2, <1>3, <2>1, QueuedPut DEF TypeOK
<1>6. CASE ~auto
  BY <1>1, <1>2, <1>4, <1>6 DEF TypeOK
<1> QED
  BY <1>4, <1>5, <1>6

LEMMA DoomedThread ==
    ASSUME DInv, NEW t \in Threads, ThreadStep(t)
    PROVE  ConnectFirst' /\ CloseOpened' /\ Doomed'
<1>1. TypeOK /\ HasConnId
  BY DEF DInv, SInv, LInv, CInv, IInv
<1>2. ASSUME UNCHANGED <<auto, conn, queue>> PROVE ConnectFirst' /\ CloseOpened' /\ Doomed'
  BY <1>2, DoomedFrame DEF Alive
<1>3. CASE SendInitConnect(t)
  <2>1. CASE status = "CONNECTED"
    <3> DEFINE w == [op |-> "send", conn |-> connId, req |-> <<t, connId>>]
    <3>1. queue' = Append(queue, w) /\ UNCHANGED <<auto, conn>>
      BY <1>3, <2>1 DEF SendInitConnect, Put, ctxVars
    <3>2. w \in Work /\ w.op = "send"
      BY <1>1, <2>1, WorkSend DEF HasConnId
    <3> HIDE DEF w
    <3> QED
      BY <3>1, <3>2, DoomedFrame DEF Alive
  <2>2. CASE status # "CONNECTED"
    BY <1>2, <1>3, <2>2 DEF SendInitConnect, ctxVars
  <2> QED
    BY <2>1, <2>2
<1>4. CASE ReconnectFailed(t)
  <2> DEFINE w == [op |-> "close", conn |-> connId, notify |-> FALSE]
  <2>1. queue' = Append(queue, w) /\ UNCHANGED <<auto, conn>>
    BY <1>4 DEF ReconnectFailed, DropSession, Put
  <2>2. w \in Work /\ w.op = "close" /\ w.conn = connId
    BY <1>1, WorkClose DEF TypeOK
  <2> HIDE DEF w
  <2> QED
    BY <2>1, <2>2, DoomedFrame DEF Alive
<1>5. CASE \/ Reconnect(t) \/ InitConnectSync(t) \/ ConnectDone(t) \/ ResponseDone(t)
           \/ ResponseTimeout(t) \/ HandleInitConnectRsp(t)
  BY <1>2, <1>5
  DEF Reconnect, InitConnectSync, ConnectDone, ResponseDone, ResponseTimeout,
      HandleInitConnectRsp, ctxVars, netVars
<1> QED
  BY <1>3, <1>4, <1>5, DoomedConnectSync DEF ThreadStep

LEMMA DoomedNext == Steady /\ DInv /\ [Next]_vars => DInv'
<1> SUFFICES ASSUME Steady, DInv, [Next]_vars PROVE DInv'
  OBVIOUS
<1>1. SInv' /\ TypeOK
  BY SesNext DEF DInv, SInv, LInv, CInv, IInv
<1>2. ConnectFirst' /\ CloseOpened' /\ Doomed'
  <2>1. ASSUME UNCHANGED <<auto, conn, queue>> PROVE ConnectFirst' /\ CloseOpened' /\ Doomed'
    BY <2>1, DoomedFrame DEF Alive
  <2>2. CASE CtorStart
    BY <2>1, <2>2 DEF CtorStart, netVars
  <2>3. ASSUME NEW t \in Timers, TimerFire(t) PROVE ConnectFirst' /\ CloseOpened' /\ Doomed'
    BY <2>1, <2>3 DEF TimerFire, ctxVars, netVars
  <2>4. ASSUME NEW c \in Conns, NetEvent(c) PROVE ConnectFirst' /\ CloseOpened' /\ Doomed'
    <3>1. /\ conn[c] \in {"connecting", "connected"} /\ queue' = queue /\ auto' = auto
          /\ conn' = [conn EXCEPT ![c] = "connected"] \/ conn' = [conn EXCEPT ![c] = "closed"]
      BY <2>4 DEF NetEvent, NetConnected, NetConnectFail, NetDisconnect, OnConnect, CloseConn,
                  OnDisconnect, DropSession
    <3>2. \A d \in Conns : /\ Alive(d)' => Alive(d)
                           /\ conn'[d] = "queued" => conn[d] = "queued"
                           /\ conn[d] # "none" => conn'[d] # "none"
      BY <1>1, <3>1 DEF Alive, TypeOK
    <3> QED
      BY <3>1, <3>2, DoomedFrame
  <2>5. ASSUME NEW r \in inbox, NEW answer \in InitReplies, NetInitRsp(r, answer)
        PROVE  ConnectFirst' /\ CloseOpened' /\ Doomed'
    BY <2>1, <2>5 DEF NetInitRsp, ctxVars
  <2>6. UNCHANGED vars => ConnectFirst' /\ CloseOpened' /\ Doomed'
    BY <2>1 DEF vars, ctxVars, netVars
  <2> QED
    BY <2>2, <2>3, <2>4, <2>5, <2>6, DoomedThread, DoomedClose, DoomedNetWork DEF Next
<1> QED
  BY <1>1, <1>2 DEF DInv

\* A context that was built with is_async_connect, whose threads run before its
\* timer fires and whose on_api_socket_reconnected raises nothing leaves no
\* connection behind, before close() or after it: whatever connection attempts and
\* replies come to, and whatever close() finds under way (open_context_base.py,
\* _reconnect, on_disconnect, _wait_reconnect and close; network_manager.py, close).
THEOREM NoneLeftBehind ==
    ASSUME Modes \subseteq {"async"}, Steady
    PROVE  Spec => []NoStrayConnection
<1>1. Init => DInv
  <2> SUFFICES ASSUME Init PROVE DInv
    OBVIOUS
  <2>1. queue = <<>> /\ auto = TRUE /\ conn = [c \in Conns |-> "none"]
    BY DEF Init
  <2> QED
    BY <2>1, SesInit DEF DInv, ConnectFirst, CloseOpened, Doomed, CloseQueued
<1>2. DInv /\ [Next]_vars => DInv'
  BY DoomedNext
<1>3. DInv => NoStrayConnection
  BY DEF DInv, SInv, LInv, Lone, OneAlive, Doomed, Alive, NoStrayConnection
<1> QED
  BY <1>1, <1>2, <1>3, PTL DEF Spec

=============================================================================
