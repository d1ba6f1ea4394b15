--------------------------- MODULE RequestsProofs ---------------------------
(***************************************************************************)
(* The safety of Requests for every set of queries, and the refinement of  *)
(* QueryPromise by it.                                                     *)
(***************************************************************************)
EXTENDS Requests, TLAPS

\* A ReqInfo is untouched while its entry is in the map, and its event is set
\* only when it holds an error or the reply.
InfoOrder(q) ==
    /\ q \in reqMap => ~event[q] /\ stage[q] = "none"
    /\ phase[q] \in {"idle", "trying"}
          => q \notin reqMap /\ ~event[q] /\ stage[q] = "none"
    /\ stage[q] = "rsp" /\ err[q] = "Ok" => rsp[q] = "answer"
    /\ event[q] /\ err[q] = "Ok" => rsp[q] = "answer"

\* How far a request has come on its way through the gateway: it is sent once,
\* carried out once, and only then replied to.
Passage(q) ==
    /\ executed[q] \in {0, 1}
    /\ q \in wire => executed[q] = 0
    /\ phase[q] \in {"idle", "trying"} => executed[q] = 0 /\ q \notin wire
    /\ q \in replies \/ stage[q] # "none" \/ rsp[q] = "answer"
          => executed[q] = 1
    /\ phase[q] = "answer" => executed[q] = 1
    /\ phase[q] \in Phases \ {"sent"}

IInv ==
    /\ TypeOK /\ EntriesCurrent /\ WaiterReachable
    /\ \A q \in Queries : InfoOrder(q) /\ Passage(q)

LEMMA KeepAliveFacts == \A K \in KeepAlives : K \subseteq Pings
BY DEF KeepAlives

LEMMA InitInvariant == Init => IInv
<1> SUFFICES ASSUME Init PROVE IInv
  OBVIOUS
<1>1. TypeOK
  <2>2. /\ status = "DOWN" /\ auto \in BOOLEAN /\ trying \in BOOLEAN
        /\ link = NoLink /\ ended = {}
        /\ sentOn \in [Reqs -> Links \union {NoLink}]
    BY DEF Init, Ses!Init
  <2>3. phase \in [Reqs -> Phases] /\ executed \in [Queries -> Nat]
    BY DEF Init, Phases
  <2>4. event \in [Queries -> BOOLEAN] /\ silent \in BOOLEAN
    BY DEF Init
  <2> QED
    BY <2>2, <2>3, <2>4 DEF Init, TypeOK
<1>2. EntriesCurrent /\ WaiterReachable
  BY DEF Init, EntriesCurrent, WaiterReachable, Reqs
<1>3. \A q \in Queries : InfoOrder(q) /\ Passage(q)
  BY DEF Init, InfoOrder, Passage, Phases, Reqs
<1> QED
  BY <1>1, <1>2, <1>3 DEF IInv

LEMMA NextInvariant == IInv /\ [Next]_vars => IInv'
<1> SUFFICES ASSUME IInv, [Next]_vars PROVE IInv'
  OBVIOUS
<1> USE RequestsAssumption
    DEF IInv, TypeOK, Reqs, Phases, Locked, Goto, Forget, sesVars, pktVars,
        infVars, gwVars, ctxVars
<1>1. ASSUME NEW q \in Queries, Call(q) PROVE IInv'
  BY <1>1 DEF Call, EntriesCurrent, WaiterReachable, InfoOrder, Passage
<1>2. ASSUME NEW q \in Queries, Send(q) PROVE IInv'
  BY <1>2 DEF Send, Register, EntriesCurrent, WaiterReachable, InfoOrder, Passage
<1>3. ASSUME NEW q \in Queries, GiveUp(q) PROVE IInv'
  BY <1>3 DEF GiveUp, EntriesCurrent, WaiterReachable, InfoOrder, Passage
<1>4. ASSUME NEW q \in Queries, WaitDone(q) \/ WaitTimeout(q) PROVE IInv'
  BY <1>4
  DEF WaitDone, WaitTimeout, EntriesCurrent, WaiterReachable, InfoOrder, Passage
<1>5. ASSUME NEW q \in Queries, SetTimeout(q) PROVE IInv'
  BY <1>5 DEF SetTimeout, EntriesCurrent, WaiterReachable, InfoOrder, Passage
<1>6. ASSUME NEW q \in Queries, Conclude(q) PROVE IInv'
  BY <1>6 DEF Conclude, EntriesCurrent, WaiterReachable, InfoOrder, Passage
<1>7. ASSUME NEW q \in Queries, RecvRsp(q) PROVE IInv'
  BY <1>7 DEF RecvRsp, EntriesCurrent, WaiterReachable, InfoOrder, Passage
<1>8. ASSUME NEW q \in Queries, RecvNotify(q) PROVE IInv'
  BY <1>8 DEF RecvNotify, EntriesCurrent, WaiterReachable, InfoOrder, Passage
<1>9. ASSUME NEW S \in SUBSET reqMap, NEW K \in KeepAlives, OnTick(S, K)
      PROVE  IInv'
  <2>1. K \subseteq Pings /\ K \intersect Queries = {}
    BY KeepAliveFacts
  <2>2. TypeOK'
    BY <1>9, <2>1 DEF OnTick, Finish
  <2>3. \A q \in Queries : /\ phase'[q] = phase[q]
                           /\ q \in reqMap' <=> q \in reqMap \ S
                           /\ q \in wire' <=> q \in wire
    BY <1>9, <2>1 DEF OnTick, Finish
  <2>4. EntriesCurrent'
    BY <1>9, <2>1 DEF OnTick, Finish, EntriesCurrent
  <2>5. WaiterReachable'
    BY <1>9, <2>3 DEF OnTick, Finish, WaiterReachable
  <2>6. ASSUME NEW q \in Queries PROVE InfoOrder(q)' /\ Passage(q)'
    BY <1>9, <2>3 DEF OnTick, Finish, InfoOrder, Passage
  <2> QED
    BY <2>2, <2>4, <2>5, <2>6
<1>10. ASSUME NEW q \in Reqs, Execute(q) PROVE IInv'
  BY <1>10 DEF Execute, EntriesCurrent, WaiterReachable, InfoOrder, Passage
<1>11. ASSUME NEW q \in Reqs, NEW ok \in BOOLEAN, RecvErr(q, ok) PROVE IInv'
  BY <1>11 DEF RecvErr, EntriesCurrent, WaiterReachable, InfoOrder, Passage
<1>12. ASSUME Ses!Try \/ Ses!Connect \/ Ses!Refuse \/ Ses!Grant \/ Ses!Close
                \/ Ses!Lose \/ Ses!Abandon
       PROVE  /\ status' \in {"DOWN", "READY", "CLOSING", "CLOSED"}
              /\ auto' \in BOOLEAN /\ trying' \in BOOLEAN
              /\ link' \in Links \union {NoLink} /\ ended' \subseteq Links
  <2>1. CASE Ses!Try \/ Ses!Connect \/ Ses!Refuse \/ Ses!Grant \/ Ses!Close
    BY <2>1 DEF Ses!Try, Ses!Connect, Ses!Refuse, Ses!Grant, Ses!Close
  <2>2. CASE Ses!Lose \/ Ses!Abandon
    BY <2>2 DEF Ses!Lose, Ses!Abandon
  <2> QED
    BY <1>12, <2>1, <2>2
<1>13. CASE Disconnect
  <2>1. TypeOK'
    <3>1. packed' \in [Reqs -> Links \union {NoLink}]
      BY <1>13 DEF Disconnect, Gone
    <3>2. /\ err' \in [Queries -> {"Ok", "Timeout", "Invalid", "Disconnect"}]
          /\ event' \in [Queries -> BOOLEAN]
          /\ sentOn' \in [Reqs -> Links \union {NoLink}]
      BY <1>13 DEF Disconnect, Finish
    <3> QED
      BY <1>12, <1>13, <3>1, <3>2 DEF Disconnect, Gone, Finish
  <2>2. reqMap' = {} /\ wire' = {} /\ replies' = {}
    BY <1>13 DEF Disconnect, Gone, Finish
  <2>3. EntriesCurrent' /\ WaiterReachable'
    BY <1>13, <2>2 DEF Disconnect, Gone, Finish, EntriesCurrent, WaiterReachable
  <2>4. ASSUME NEW q \in Queries PROVE InfoOrder(q)' /\ Passage(q)'
    <3>1. InfoOrder(q)'
      BY <1>13, <2>2 DEF Disconnect, Gone, Finish, InfoOrder
    <3>2. Passage(q)'
      BY <1>13, <2>2 DEF Disconnect, Gone, Finish, Passage
    <3> QED
      BY <3>1, <3>2
  <2> QED
    BY <2>1, <2>3, <2>4
<1>14. CASE SessionStep \/ GatewayDies
  <2>1. CASE SessionStep
    <3>1. TypeOK'
      BY <1>12, <2>1 DEF SessionStep
    <3>2. WaiterReachable' /\ \A q \in Queries : InfoOrder(q)' /\ Passage(q)'
      BY <2>1 DEF SessionStep, WaiterReachable, InfoOrder, Passage
    <3>3. Ses!Grant \/ Ses!Close => EntriesCurrent'
      BY <2>1 DEF SessionStep, Ses!Grant, Ses!Close, EntriesCurrent
    <3>4. ASSUME Ses!Try \/ Ses!Connect \/ Ses!Refuse PROVE EntriesCurrent'
      <4>1. \A q \in reqMap : sentOn[q] = NoLink
        BY <3>4 DEF EntriesCurrent, Ses!Try, Ses!Connect, Ses!Refuse
      <4> QED
        BY <2>1, <4>1 DEF SessionStep, EntriesCurrent
    <3> QED
      BY <2>1, <3>1, <3>2, <3>3, <3>4 DEF SessionStep
  <2>2. CASE GatewayDies
    BY <2>2 DEF GatewayDies, EntriesCurrent, WaiterReachable, InfoOrder, Passage
  <2> QED
    BY <1>14, <2>1, <2>2
<1>15. CASE UNCHANGED vars
  BY <1>15 DEF vars, EntriesCurrent, WaiterReachable, InfoOrder, Passage
<1> QED
  BY <1>1, <1>2, <1>3, <1>4, <1>5, <1>6, <1>7, <1>8, <1>9, <1>10, <1>11, <1>12,
     <1>13, <1>14, <1>15
  DEF Next, WaitStep, Recv

\* Every reachable state satisfies the inductive invariant, whatever the code of
\* the other threads has done.
THEOREM Invariance == Spec => []IInv
  BY InitInvariant, NextInvariant, PTL DEF Spec

-----------------------------------------------------------------------------
\* Type correctness of the request map, the ReqInfo objects and the gateway.
THEOREM TypeCorrect == Spec => []TypeOK
<1>1. IInv => TypeOK
  BY DEF IInv
<1> QED
  BY <1>1, Invariance, PTL

\* _req_map holds requests of the live session only (on_disconnect).
THEOREM EntriesStayCurrent == Spec => []EntriesCurrent
<1>1. IInv => EntriesCurrent
  BY DEF IInv
<1> QED
  BY <1>1, Invariance, PTL

\* A caller whose event is unset can be woken (_query_async, ReqInfo.wait).
THEOREM WaiterIsReachable == Spec => []WaiterReachable
<1>1. IInv => WaiterReachable
  BY DEF IInv
<1> QED
  BY <1>1, Invariance, PTL

\* A caller woken without an error finds its reply (_handle_recv, ReqInfo.wait).
THEOREM WokenFindsReply == Spec => []WokenWithReply
<1>1. IInv => WokenWithReply
  BY DEF IInv, InfoOrder, WokenWithReply
<1> QED
  BY <1>1, Invariance, PTL

\* Every behaviour of the SDK's calls is one QueryPromise allows: a request is
\* carried out at most once and an answer is never made up.
THEOREM Refinement == Spec => KeepsPromise
<1> DEFINE abs(ph) == CASE ph = "idle" -> "idle"
                        [] ph \in {"answer", "error"} -> ph
                        [] OTHER -> "pending"
           call == [q \in Queries |-> abs(phase[q])]
<1>1. Init => Promise!Init
  BY DEF Init, Promise!Init, Reqs
<1>2. IInv /\ [Next]_vars => [Promise!Next]_Promise!vars
  <2> SUFFICES ASSUME IInv, [Next]_vars
               PROVE  Promise!Next \/ UNCHANGED <<call, executed>>
    BY DEF Promise!vars
  <2> USE DEF IInv, TypeOK, Reqs, Goto
  <2>1. ASSUME NEW q \in Queries, Call(q) PROVE Promise!Invoke(q)
    BY <2>1 DEF Call, Promise!Invoke, gwVars
  <2>2. ASSUME NEW q \in Queries, GiveUp(q) PROVE Promise!ReturnError(q)
    BY <2>2 DEF GiveUp, Promise!ReturnError, gwVars
  <2>3. ASSUME NEW q \in Queries, Conclude(q)
        PROVE  Promise!ReturnAnswer(q) \/ Promise!ReturnError(q)
    BY <2>3 DEF Conclude, Promise!ReturnAnswer, Promise!ReturnError, gwVars, Passage
  <2>4. ASSUME NEW q \in Queries, Execute(q) PROVE Promise!Execute(q)
    <3>1. executed[q] = 0 /\ phase[q] \notin {"idle", "answer"}
      <4>1. q \in wire /\ Passage(q)
        BY <2>4 DEF Execute
      <4> QED
        BY <4>1 DEF Passage
    <3>2. call[q] \in {"pending", "error"}
      BY <3>1
    <3>3. phase' = phase /\ executed' = [executed EXCEPT ![q] = 1]
      BY <2>4, <3>1, RequestsAssumption DEF Execute
    <3>4. call' = call
      BY <3>3
    <3> QED
      BY <3>1, <3>2, <3>3, <3>4 DEF Promise!Execute
  <2>5. ASSUME NEW q \in Queries,
               Send(q) \/ WaitDone(q) \/ WaitTimeout(q) \/ SetTimeout(q)
        PROVE  UNCHANGED <<call, executed>>
    BY <2>5 DEF Send, Register, WaitDone, WaitTimeout, SetTimeout, gwVars
  <2>6. ASSUME NEW q \in Pings, Execute(q)
        PROVE  UNCHANGED <<call, executed>>
    BY <2>6, RequestsAssumption DEF Execute
  <2>7. ASSUME \/ \E q \in Queries : Recv(q)
               \/ \E q \in Reqs, ok \in BOOLEAN : RecvErr(q, ok)
               \/ Disconnect \/ SessionStep \/ GatewayDies \/ UNCHANGED vars
        PROVE  UNCHANGED <<call, executed>>
    <3>1. UNCHANGED <<phase, executed>>
      BY <2>7
      DEF Recv, RecvRsp, RecvNotify, RecvErr, Disconnect, Gone, SessionStep,
          GatewayDies, vars, gwVars
    <3> QED
      BY <3>1
  <2>8. CASE \E q \in Queries :
               Call(q) \/ Send(q) \/ GiveUp(q) \/ WaitStep(q) \/ Recv(q)
    <3>1. PICK q \in Queries :
               Call(q) \/ Send(q) \/ GiveUp(q) \/ WaitStep(q) \/ Recv(q)
      BY <2>8
    <3>2. CASE Call(q) \/ GiveUp(q) \/ Conclude(q)
      BY <3>2, <2>1, <2>2, <2>3 DEF Promise!Next
    <3>3. CASE Send(q) \/ WaitDone(q) \/ WaitTimeout(q) \/ SetTimeout(q)
      BY <3>3, <2>5
    <3>4. CASE Recv(q)
      BY <3>4, <2>7
    <3> QED
      BY <3>1, <3>2, <3>3, <3>4 DEF WaitStep
  <2>9. CASE \E q \in Reqs : Execute(q)
    <3>1. PICK q \in Reqs : Execute(q)
      BY <2>9
    <3>2. CASE q \in Queries
      BY <3>1, <3>2, <2>4 DEF Promise!Next
    <3>3. CASE q \in Pings
      BY <3>1, <3>3, <2>6
    <3> QED
      BY <3>2, <3>3
  <2>10. CASE \E S \in SUBSET reqMap, K \in KeepAlives : OnTick(S, K)
    <3>1. PICK S \in SUBSET reqMap, K \in KeepAlives : OnTick(S, K)
      BY <2>10
    <3>2. K \subseteq Pings
      BY KeepAliveFacts
    <3>3. (\A q \in Queries : phase'[q] = phase[q]) /\ executed' = executed
      BY <3>1, <3>2, RequestsAssumption DEF OnTick
    <3> QED
      BY <3>3
  <2> QED
    BY <2>7, <2>8, <2>9, <2>10 DEF Next
<1> QED
  BY <1>1, <1>2, Invariance, PTL DEF Spec, KeepsPromise, Promise!Spec

=============================================================================
