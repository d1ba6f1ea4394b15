------------------------------ MODULE Requests ------------------------------
(***************************************************************************)
(* Queries on a context: sync_query_processor and _query_async, the map of *)
(* outstanding requests, and the four ways a request ends - its reply, the *)
(* 12 second check on the tick, the 20 second wait of its own thread, and  *)
(* the loss of the connection (moomoo/common/open_context_base.py).        *)
(*                                                                         *)
(* The session comes and goes as module Session says, which OpenContext    *)
(* implements: every step of it is one of this module, with what it does   *)
(* to the requests. The caller reads its ReqInfo without the lock, so the  *)
(* stores of the network thread into a ReqInfo are steps.                  *)
(***************************************************************************)
EXTENDS Naturals

CONSTANTS
    Queries,     \* calls of sync query processors, each made once
    Pings,       \* keep-alives: _query_async from the tick
    Links,       \* bound: connections ever opened
    NoLink,      \* _conn_id names none of them
    MayDie       \* the gateway may fall silent without closing the connection

ASSUME RequestsAssumption ==
    /\ Queries \intersect Pings = {} /\ NoLink \notin Links
    /\ MayDie \in BOOLEAN

VARIABLES
    status, auto, trying, link, ended,  \* of the session, see module Session
    silent,   \* nothing was received for _conn_alive_timeout
    phase,    \* where the thread of each call is
    reqMap,   \* keys of _req_map
    packed,   \* the connection the packet of a request names, NoLink for none
              \* that stands; forgotten once the packet is gone
    sentOn,   \* the connection the request of an entry was sent on, NoLink if none
    err,      \* ReqInfo.err
    rsp,      \* ReqInfo.rsp: "none" or the "answer" to this very request
    event,    \* ReqInfo.event
    stage,    \* how far _handle_recv has filled in a ReqInfo
    wire,     \* requests on their way to the gateway
    replies,  \* requests carried out whose reply is on its way
    executed  \* history: how often the gateway has carried out each call

Reqs == Queries \union Pings

ctxVars == <<status, auto, trying, link, ended>>
sesVars == <<ctxVars, silent>>
pktVars == <<packed, sentOn>>
infVars == <<err, rsp, event, stage>>
gwVars  == <<wire, replies, executed>>
vars    == <<sesVars, phase, reqMap, pktVars, infVars, gwVars>>

Ses == INSTANCE Session

Phases == {"idle", "trying", "waiting", "timedOut", "check",
           "answer", "error", "sent"}

Returned(q) == phase[q] \in {"answer", "error"}

\* The network thread is inside on_recv, with the lock of the context.
Locked == \E q \in Queries : stage[q] # "none"

\* The packets of S are gone.
Forget(S) == packed' = [q \in Reqs |-> IF q \in S THEN NoLink ELSE packed[q]]

Goto(q, p) == phase' = [phase EXCEPT ![q] = p]

Init ==
    /\ Ses!Init /\ silent = FALSE
    /\ phase = [q \in Reqs |-> "idle"]
    /\ reqMap = {}
    /\ packed = [q \in Reqs |-> NoLink] /\ sentOn = [q \in Reqs |-> NoLink]
    /\ err = [q \in Queries |-> "Ok"] /\ rsp = [q \in Queries |-> "none"]
    /\ event = [q \in Queries |-> FALSE] /\ stage = [q \in Queries |-> "none"]
    /\ wire = {} /\ replies = {}
    /\ executed = [q \in Queries |-> 0]

(***************************************************************************)
(* The calling thread: sync_query_processor.                               *)
(***************************************************************************)
\* pack_func makes the request, with the id get_sync_conn_id() has just read
\* from _opend_conn_id, which names no connection that stands until READY.
Call(q) ==
    /\ phase[q] = "idle" /\ Goto(q, "trying")
    /\ packed' = [packed EXCEPT ![q] = IF status = "READY" THEN link ELSE NoLink]
    /\ UNCHANGED <<sesVars, reqMap, sentOn, infVars, gwVars>>

\* Variant: the request is sent on the connection that comes next.
Register_NextLink(q) ==
    /\ status = "READY" /\ ~Locked
    /\ reqMap' = reqMap \union {q}
    /\ sentOn' = [sentOn EXCEPT ![q] = link + 1]
    /\ wire' = wire \union {q} /\ UNCHANGED packed

\* Enter the request into the map, then hand it to the network thread, where
\* do_send drops it if _conn_id names no connection.
Register(q) ==
    /\ status = "READY" /\ ~Locked
    /\ reqMap' = reqMap \union {q}
    /\ sentOn' = [sentOn EXCEPT ![q] = link]
    /\ \/ link # NoLink /\ wire' = wire \union {q} /\ UNCHANGED packed
       \/ link = NoLink /\ UNCHANGED wire /\ Forget({q})

Send(q) ==
    /\ phase[q] = "trying"
    /\ Register(q)
    /\ Goto(q, "waiting")
    /\ UNCHANGED <<sesVars, infVars, replies, executed>>

\* Not READY: the loop ends when the status is CLOSED, which it also is for a
\* moment after every failed attempt to connect, or after the limit set by
\* set_sync_query_connect_timeout.
GiveUp(q) ==
    /\ phase[q] = "trying" /\ ~Locked
    /\ status # "READY"
    /\ Goto(q, "error")
    /\ Forget({q})
    /\ UNCHANGED <<sesVars, reqMap, sentOn, infVars, gwVars>>

WaitDone(q) ==
    /\ phase[q] = "waiting" /\ event[q] /\ Goto(q, "check")
    /\ UNCHANGED <<sesVars, reqMap, pktVars, infVars, gwVars>>

\* Variant: a wait without a limit.
WaitTimeout_Never(q) == FALSE /\ UNCHANGED vars

\* event.wait(timeout=20) returned False; the error is set afterwards and the
\* entry stays in the map.
WaitTimeout(q) ==
    /\ phase[q] = "waiting" /\ ~event[q] /\ Goto(q, "timedOut")
    /\ UNCHANGED <<sesVars, reqMap, pktVars, infVars, gwVars>>

SetTimeout(q) ==
    /\ phase[q] = "timedOut" /\ Goto(q, "check")
    /\ err' = [err EXCEPT ![q] = "Timeout"]
    /\ UNCHANGED <<sesVars, reqMap, pktVars, rsp, event, stage, gwVars>>

\* Variant: a request lost with its connection is tried again.
Conclude_Retry(q) ==
    /\ phase[q] = "check"
    /\ \/ err[q] = "Disconnect" /\ Goto(q, "trying")
       \/ err[q] = "Ok" /\ rsp[q] = "answer" /\ Goto(q, "answer")
       \/ err[q] \notin {"Ok", "Disconnect"} /\ Goto(q, "error")
       \/ err[q] = "Ok" /\ rsp[q] = "none" /\ Goto(q, "error")
    /\ UNCHANGED <<sesVars, reqMap, pktVars, infVars, gwVars>>

\* unpack_func raises on a reply that is not there, and the exception becomes
\* an error.
Conclude(q) ==
    /\ phase[q] = "check"
    /\ \/ err[q] = "Ok" /\ rsp[q] = "answer" /\ Goto(q, "answer")
       \/ (err[q] # "Ok" \/ rsp[q] = "none") /\ Goto(q, "error")
    /\ UNCHANGED <<sesVars, reqMap, pktVars, infVars, gwVars>>

(***************************************************************************)
(* The network thread.                                                     *)
(***************************************************************************)
\* do_send and the gateway: a request on the connection in use is carried out.
\* do_send drops one whose connection is gone, see Disconnect.
Execute(q) ==
    /\ q \in wire /\ ~silent
    /\ wire' = wire \ {q}
    /\ \/ q \in Queries /\ executed' = [executed EXCEPT ![q] = @ + 1]
       \/ q \in Pings /\ UNCHANGED executed
    /\ replies' = replies \union {q}
    /\ Forget({q})
    /\ UNCHANGED <<sesVars, phase, reqMap, sentOn, infVars>>

\* Variant: the event is set before the reply is stored.
RecvErr_NotifyFirst(q, ok) ==
    /\ q \in replies /\ status = "READY" /\ ~Locked /\ q \in reqMap \ Pings
    /\ replies' = replies \ {q}
    /\ reqMap' = reqMap \ {q}
    /\ err' = [err EXCEPT ![q] = IF ok THEN "Ok" ELSE "Invalid"]
    /\ event' = [event EXCEPT ![q] = TRUE]
    /\ stage' = [stage EXCEPT ![q] = IF ok THEN "err" ELSE "rsp"]
    /\ sentOn' = [sentOn EXCEPT ![q] = NoLink]
    /\ UNCHANGED <<sesVars, phase, packed, rsp, wire, executed>>

\* on_recv and _handle_recv: the entry is popped and, for a synchronous
\* request, the ReqInfo filled in; a reply nobody waits for is dropped.
RecvErr(q, ok) ==
    /\ q \in replies /\ status = "READY" /\ ~Locked
    /\ replies' = replies \ {q}
    /\ reqMap' = reqMap \ {q}
    /\ \/ /\ q \in reqMap \ Pings
          /\ err' = [err EXCEPT ![q] = IF ok THEN "Ok" ELSE "Invalid"]
          /\ stage' = [stage EXCEPT ![q] = IF ok THEN "err" ELSE "rsp"]
       \/ /\ q \notin reqMap \ Pings
          /\ UNCHANGED <<err, stage>>
    /\ sentOn' = [sentOn EXCEPT ![q] = NoLink]
    /\ UNCHANGED <<sesVars, phase, packed, rsp, event, wire, executed>>

RecvRsp(q) ==
    /\ stage[q] = "err"
    /\ rsp' = [rsp EXCEPT ![q] = "answer"]
    /\ stage' = [stage EXCEPT ![q] = "rsp"]
    /\ UNCHANGED <<sesVars, phase, reqMap, pktVars, err, event, gwVars>>

RecvNotify(q) ==
    /\ stage[q] = "rsp"
    /\ event' = [event EXCEPT ![q] = TRUE]
    /\ stage' = [stage EXCEPT ![q] = "none"]
    /\ UNCHANGED <<sesVars, phase, reqMap, pktVars, err, rsp, gwVars>>

\* Variant: the waiting threads are not woken.
Finish_Silent(S, e, K) ==
    /\ err' = [q \in Queries |-> IF q \in S THEN e ELSE err[q]]
    /\ reqMap' = (reqMap \ S) \union K
    /\ sentOn' = [q \in Reqs |-> IF q \in K THEN link
                                ELSE IF q \in S THEN NoLink ELSE sentOn[q]]
    /\ UNCHANGED <<rsp, event, stage>>

\* End the requests of S with error e and enter those of K, as
\* _check_req_timeout and _pop_all_req_info do.
Finish(S, e, K) ==
    /\ err' = [q \in Queries |-> IF q \in S THEN e ELSE err[q]]
    /\ event' = [q \in Queries |-> IF q \in S THEN TRUE ELSE event[q]]
    /\ reqMap' = (reqMap \ S) \union K
    /\ sentOn' = [q \in Reqs |-> IF q \in K THEN link
                                ELSE IF q \in S THEN NoLink ELSE sentOn[q]]
    /\ UNCHANGED <<rsp, stage>>

\* Variant: entries that are too old are answered and left in the map.
OnTick_Kept(S, K) ==
    /\ status = "READY" /\ link # NoLink /\ ~silent /\ ~Locked
    /\ err' = [q \in Queries |-> IF q \in S THEN "Timeout" ELSE err[q]]
    /\ event' = [q \in Queries |-> IF q \in S THEN TRUE ELSE event[q]]
    /\ reqMap' = reqMap \union K
    /\ sentOn' = [q \in Reqs |-> IF q \in K THEN link ELSE sentOn[q]]
    /\ phase' = [q \in Reqs |-> IF q \in K THEN "sent" ELSE phase[q]]
    /\ packed' = [q \in Reqs |-> IF q \in K THEN link ELSE packed[q]]
    /\ wire' = wire \union K
    /\ UNCHANGED <<sesVars, rsp, stage, replies, executed>>

\* on_tick of a connection that has received something lately: K holds the
\* keep-alive, if its interval has passed, and S the requests that are older
\* than _query_timeout.
OnTick(S, K) ==
    /\ status = "READY" /\ link # NoLink /\ ~silent /\ ~Locked
    /\ Finish(S, "Timeout", K)
    /\ phase' = [q \in Reqs |-> IF q \in K THEN "sent" ELSE phase[q]]
    /\ packed' = [q \in Reqs |-> IF q \in K THEN link ELSE packed[q]]
    /\ wire' = wire \union K
    /\ UNCHANGED <<sesVars, replies, executed>>

KeepAlives == {{}} \union {{p} : p \in {k \in Pings : phase[k] = "idle"}}

(***************************************************************************)
(* The session, the user and the gateway.                                  *)
(***************************************************************************)
\* The connection, if there is one, is gone with what was on its way.
Gone ==
    /\ silent' = FALSE
    /\ wire' = {} /\ replies' = {} /\ Forget(wire)
    /\ UNCHANGED <<phase, executed>>

\* Variant: _pop_all_req_info is left out.
Disconnect_KeepMap ==
    /\ ~Locked /\ (Ses!Lose \/ Ses!Abandon \/ Ses!Refuse)
    /\ Gone
    /\ UNCHANGED <<reqMap, sentOn, infVars>>

\* on_disconnect, and the failure branch of _reconnect: whoever waits is woken.
Disconnect ==
    /\ ~Locked /\ (Ses!Lose \/ Ses!Abandon \/ Ses!Refuse)
    /\ Gone
    /\ Finish(reqMap, "Disconnect", {})

\* Steps of the session that leave the requests alone: on_connect of an attempt
\* that has failed does not call on_disconnect.
SessionStep ==
    /\ ~Locked /\ (Ses!Try \/ Ses!Connect \/ Ses!Refuse \/ Ses!Grant \/ Ses!Close)
    /\ UNCHANGED <<silent, phase, reqMap, pktVars, infVars, gwVars>>

\* The peer is gone and no FIN arrives. on_tick notices after 33 seconds, but
\* calls self.close(reason=...), which neither context class accepts: the
\* TypeError is swallowed by _tick, and no step is left for the tick to take.
GatewayDies ==
    /\ MayDie /\ status = "READY" /\ link # NoLink /\ ~silent /\ ~Locked
    /\ silent' = TRUE /\ wire' = {} /\ replies' = {} /\ Forget(wire)
    /\ UNCHANGED <<ctxVars, phase, reqMap, sentOn, infVars, executed>>

WaitStep(q) == WaitDone(q) \/ WaitTimeout(q) \/ SetTimeout(q) \/ Conclude(q)

Recv(q) == RecvRsp(q) \/ RecvNotify(q)

Next ==
    \/ \E q \in Queries : Call(q) \/ Send(q) \/ GiveUp(q) \/ WaitStep(q) \/ Recv(q)
    \/ \E q \in Reqs : Execute(q) \/ \E ok \in BOOLEAN : RecvErr(q, ok)
    \/ \E S \in SUBSET reqMap, K \in KeepAlives : OnTick(S, K)
    \/ Disconnect \/ SessionStep \/ GatewayDies

Spec == Init /\ [][Next]_vars

\* A waiting thread runs; the network thread goes on with the reply it is
\* storing and with a close() it was asked for; the tick reaches every entry
\* once it is old enough. Nothing is asked of the gateway or of the user.
Fairness ==
    /\ \A q \in Queries : WF_vars(WaitStep(q)) /\ WF_vars(Recv(q))
    /\ WF_vars(status = "CLOSING" /\ link # NoLink /\ Disconnect)
    /\ \A q \in Reqs :
          WF_vars(\E S \in SUBSET reqMap, K \in KeepAlives :
                      q \in S /\ OnTick(S, K))

FairSpec == Spec /\ Fairness
-----------------------------------------------------------------------------
(***************************************************************************)
(* Properties.                                                             *)
(***************************************************************************)
\* Every variable keeps its type (ReqInfo.__init__ and the fields of the
\* context).
TypeOK ==
    /\ status \in {"DOWN", "READY", "CLOSING", "CLOSED"}
    /\ auto \in BOOLEAN /\ trying \in BOOLEAN /\ silent \in BOOLEAN
    /\ link \in Links \union {NoLink} /\ ended \subseteq Links
    /\ phase \in [Reqs -> Phases]
    /\ reqMap \subseteq Reqs
    /\ packed \in [Reqs -> Links \union {NoLink}]
    /\ sentOn \in [Reqs -> Links \union {NoLink}]
    /\ err \in [Queries -> {"Ok", "Timeout", "Invalid", "Disconnect"}]
    /\ rsp \in [Queries -> {"none", "answer"}]
    /\ event \in [Queries -> BOOLEAN]
    /\ stage \in [Queries -> {"none", "err", "rsp"}]
    /\ wire \subseteq Reqs /\ replies \subseteq Reqs
    /\ executed \in [Queries -> Nat]

\* What _req_map holds was sent on the connection that stands, or on none at all
\* (the context was READY without one): a reply, a tick or a disconnect of the
\* next session never ends a request that was under way in the last one.
EntriesCurrent ==
    \A q \in reqMap :
        sentOn[q] # NoLink => sentOn[q] = link /\ status \in {"READY", "CLOSING"}

\* A thread waiting for its event can be found by whoever has to set it: through
\* the map, or because _handle_recv is working on its ReqInfo.
WaiterReachable ==
    \A q \in Queries :
        phase[q] = "waiting" /\ ~event[q] => q \in reqMap \/ stage[q] # "none"

\* A caller woken by its event without an error finds the reply: the stores of
\* _handle_recv come in that order, though the caller holds no lock.
WokenWithReply ==
    \A q \in Queries :
        phase[q] = "check" /\ event[q] /\ err[q] = "Ok"
            => rsp[q] = "answer"

\* Calls keep the promise of QueryPromise: at most one execution, one return,
\* and no answer to a request that was not carried out.
Promise ==
    INSTANCE QueryPromise WITH
        call <- [q \in Queries |->
                    CASE phase[q] = "idle" -> "idle"
                      [] phase[q] \in {"answer", "error"} -> phase[q]
                      [] OTHER -> "pending"]

KeepsPromise == Promise!Spec

\* A call whose request was sent returns, even if the gateway dies in silence.
CallsReturn == \A q \in Queries : phase[q] = "waiting" ~> Returned(q)

\* No request that was sent stays in _req_map for good, not even one whose
\* caller gave up or a keep-alive nobody answered, as long as the peer is heard of.
EntriesExpire ==
    \A q \in Reqs :
        q \in reqMap /\ sentOn[q] # NoLink ~> q \notin reqMap \/ silent

\* A request names the connection it travels on (PacketID.connID, and the key
\* it was encrypted with).
PacketNamesConnection == \A q \in wire : packed[q] = link

\* A connection on which nothing has been received for 33 seconds is closed.
DeadPeerDropped == silent ~> ~silent
=============================================================================
