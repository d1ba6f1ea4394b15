--------------------------- MODULE Subscriptions ---------------------------
(***************************************************************************)
(* The subscriptions of an OpenQuoteContext: the record the context keeps, *)
(* what the gateway pushes on the present connection, and how the thread   *)
(* that has opened a new session subscribes everything again while the     *)
(* threads of the user go on calling subscribe() and unsubscribe()         *)
(* (moomoo/quote/open_quote_context.py).                                   *)
(*                                                                         *)
(* A query is a call of module Requests, seen from outside: it waits for a *)
(* session, is sent, and ends in "ok" or "error". The gateway serves the   *)
(* requests it has received in any order, and forgets the subscriptions    *)
(* and pushes of a connection that ends.                                   *)
(***************************************************************************)
EXTENDS Naturals, FiniteSets, SequencesExt

CONSTANTS
    Codes,       \* stocks
    KTypes,      \* KLINE_SUBTYPE_LIST
    OTypes,      \* the other subtypes
    Flavours,    \* (is_orderbook_detail, extended_time, session)
    Quota,       \* 100: codes times kline subtypes in one request
    Users,       \* threads of the user
    Calls,       \* what they may ask for, see CallType
    MaxCalls,    \* bound: calls of the user
    MaxSession,  \* bound: sessions ever opened
    MaxFaults    \* bound: requests refused or left without a reply

Types == KTypes \union OTypes
Keys  == Types \X Flavours
NoOne == "none"

\* The arguments of subscribe, where push is subscribe_push, and of unsubscribe,
\* whose unsubscribe_all stands for all codes and types.
CallType ==
    [op : {"sub", "unsub", "unsub_all"}, codes : (SUBSET Codes) \ {{}},
     types : (SUBSET Types) \ {{}}, flavour : Flavours, push : BOOLEAN]

ASSUME SubscriptionsAssumption ==
    /\ KTypes \intersect OTypes = {} /\ NoOne \notin Flavours
    /\ IsFiniteSet(Codes) /\ IsFiniteSet(KTypes) /\ IsFiniteSet(OTypes)
    /\ Quota \in Nat \ {0} /\ Cardinality(KTypes) <= Quota
    /\ Calls \subseteq CallType
    /\ \A c \in Calls : c.op = "unsub_all" => c.codes = Codes /\ c.types = Types
    /\ Users \intersect (1 .. MaxSession) = {}
    /\ MaxCalls \in Nat /\ MaxSession \in Nat /\ MaxFaults \in Nat

Resubs  == 1 .. MaxSession  \* on_api_socket_reconnected of each session
Threads == Users \union Resubs

VARIABLES
    up,         \* the status is READY
    session,    \* sessions opened so far
    record,     \* SubRecord.subMap; no entry is the empty set
    gateway,    \* of a type of a code: the flavour subscribed, or NoOne, and whether it is pushed
    req,        \* the query of each thread: "idle", "trying", "sent", "ok", "error",
                \* or "unpush": an unsubscribe() about to make its second request
    call,       \* what that query asks for
    unpush,     \* second requests the gateway has not served; nobody waits for them
    resub,      \* resubscription of each session: "none", "due", "taken", "failed"
    todo,       \* the queries it has still to make
    calls,      \* calls the user has made
    faults,     \* requests refused or left without a reply
    mute,       \* history: last subscribed with subscribe_push=False on this session
    disturbed   \* history: see Disturbing

cnts == <<calls, faults>>
vars == <<up, session, record, gateway, req, call, unpush, resub, todo, cnts, mute,
          disturbed>>

\* What a call is about.
Pairs(c) == c.types \X c.codes

Nothing == [flavour |-> NoOne, push |-> FALSE]

-----------------------------------------------------------------------------
(***************************************************************************)
(* SubRecord.                                                              *)
(***************************************************************************)
\* Variant: codes are left under the flavour they had.
Sub_KeepOld(rec, c) ==
    [k \in Keys |-> IF k[1] \in c.types /\ k[2] = c.flavour
                    THEN rec[k] \union c.codes ELSE rec[k]]

Sub(rec, c) ==
    [k \in Keys |-> IF k[1] \notin c.types THEN rec[k]
                    ELSE IF k[2] = c.flavour THEN rec[k] \union c.codes
                    ELSE rec[k] \ c.codes]

Unsub(rec, c) ==
    [k \in Keys |-> IF k[1] \in c.types THEN rec[k] \ c.codes ELSE rec[k]]

\* get_sub_list: subtypes whose codes come out in the same list go together. Two
\* sets with the same members may be listed in different orders.
Orders == [Types -> BOOLEAN]

SubList(rec, order) ==
    {[codes   |-> rec[k],
      types   |-> {t \in Types : /\ rec[<<t, k[2]>>] = rec[k]
                                 /\ order[t] = order[k[1]]},
      flavour |-> k[2]] : k \in {x \in Keys : rec[x] # {}}}

\* Variant: one slice too many.
Slices_TooMany(S, n) ==
    LET q == SetToSeq(S) IN
    {{q[i] : i \in {j \in DOMAIN q : j > s * n /\ j <= (s + 1) * n}} :
        s \in 0 .. Cardinality(S) \div n}

\* The codes of S in lists of at most n.
Slices(S, n) ==
    LET q == SetToSeq(S) IN
    {{q[i] : i \in {j \in DOMAIN q : j > s * n /\ j <= (s + 1) * n}} :
        s \in 0 .. (Cardinality(S) - 1) \div n}

\* Variant: the number of kline subtypes is not allowed for.
Batches_Full(g) ==
    {[op |-> "sub", codes |-> s, types |-> g.types, flavour |-> g.flavour,
      push |-> TRUE] : s \in Slices(g.codes, Quota)}

\* _reconnect_subscribe: kline subtypes apart from the others, in slices that
\* keep codes times kline subtypes within the quota, and all of it to be pushed.
Batches(g) ==
    LET ks == g.types \intersect KTypes
        os == g.types \intersect OTypes
        Ask(ts, n) ==
            {[op |-> "sub", codes |-> s, types |-> ts, flavour |-> g.flavour,
              push |-> TRUE] : s \in IF ts = {} THEN {} ELSE Slices(g.codes, n)}
    IN  Ask(ks, IF ks = {} THEN 1 ELSE Quota \div Cardinality(ks))
            \union Ask(os, Quota)

Plan(rec, order) == UNION {Batches(g) : g \in SubList(rec, order)}

-----------------------------------------------------------------------------
Init ==
    /\ up = FALSE /\ session = 0
    /\ record = [k \in Keys |-> {}]
    /\ gateway = [p \in Types \X Codes |-> Nothing]
    /\ req = [t \in Threads |-> "idle"]
    /\ call = [t \in Threads |-> NoOne] /\ unpush = {}
    /\ resub = [s \in Resubs |-> "none"]
    /\ todo = [s \in Resubs |-> {}]
    /\ calls = 0 /\ faults = 0 /\ mute = {} /\ disturbed = FALSE

Resubscribing(s) == resub[s] = "due" \/ req[s] # "idle" \/ todo[s] # {}

\* What may take the record and the gateway apart: a call that overlaps a
\* resubscription, the end of a session, or another call or second request about
\* some of the same stocks; a resubscription that outlives its session; and a
\* query that fails.
Disturbing(is) == disturbed' = (disturbed \/ is)

\* Somebody else is at work on what c is about.
Contended(u, c) ==
    \/ \E v \in Users \ {u} : req[v] # "idle" /\ Pairs(call[v]) \intersect Pairs(c) # {}
    \/ \E q \in unpush : Pairs(q) \intersect Pairs(c) # {}

Fault == faults < MaxFaults /\ faults' = faults + 1

Start(t, c) ==
    /\ req' = [req EXCEPT ![t] = "trying"] /\ call' = [call EXCEPT ![t] = c]

(***************************************************************************)
(* A thread of the user, up to the query. No lock is held from here to the *)
(* end of the call.                                                        *)
(***************************************************************************)
NewCall(u, c) ==
    /\ req[u] = "idle" /\ calls < MaxCalls /\ calls' = calls + 1
    /\ Start(u, c)
    /\ Disturbing(~up \/ (\E s \in Resubs : Resubscribing(s)) \/ Contended(u, c))
    /\ UNCHANGED <<up, session, gateway, unpush, resub, todo, faults, mute>>

Subscribe(u, c) ==
    /\ c.op = "sub"
    /\ NewCall(u, c)
    /\ UNCHANGED record

\* Variant: the record is left alone.
Unsubscribe_Kept(u, c) ==
    /\ c.op # "sub"
    /\ NewCall(u, c)
    /\ UNCHANGED record

\* unsubscribe and unsubscribe_all: out of the record before the query.
Unsubscribe(u, c) ==
    /\ c.op # "sub"
    /\ NewCall(u, c)
    /\ record' = Unsub(record, c)

(***************************************************************************)
(* Every query: sync_query_processor, and the gateway.                     *)
(***************************************************************************)
Send(t) ==
    /\ req[t] = "trying" /\ up
    /\ req' = [req EXCEPT ![t] = "sent"]
    /\ UNCHANGED <<up, session, record, gateway, call, unpush, resub, todo, cnts,
                   mute, disturbed>>

GiveUp(t) ==
    /\ req[t] = "trying" /\ ~up
    /\ req' = [req EXCEPT ![t] = "error"]
    /\ UNCHANGED <<up, session, record, gateway, call, unpush, resub, todo, cnts,
                   mute, disturbed>>

Obeyed(c) ==
    [p \in Types \X Codes |->
        IF p \notin Pairs(c) THEN gateway[p]
        ELSE IF c.op = "sub" THEN [flavour |-> c.flavour, push |-> c.push]
        ELSE Nothing]

\* Served and answered, served and the reply comes too late, or refused.
Serve(t) ==
    /\ req[t] = "sent"
    /\ \/ /\ gateway' = Obeyed(call[t])
          /\ req' = [req EXCEPT ![t] = "ok"]
          /\ UNCHANGED <<faults, disturbed>>
       \/ /\ Fault
          /\ gateway' \in {Obeyed(call[t]), gateway}
          /\ req' = [req EXCEPT ![t] = "error"]
          /\ Disturbing(TRUE)
    /\ UNCHANGED <<up, session, record, call, unpush, resub, todo, calls, mute>>

\* The reply is unpacked; a subscription that succeeded enters the record, an
\* unsubscription of some stocks that succeeded goes on to its second request,
\* and the first query of a resubscription that fails ends it.
Finish(t) ==
    /\ req[t] \in {"ok", "error"}
    /\ IF req[t] = "ok" /\ call[t].op = "unsub"
       THEN req' = [req EXCEPT ![t] = "unpush"] /\ UNCHANGED call
       ELSE req' = [req EXCEPT ![t] = "idle"] /\ call' = [call EXCEPT ![t] = NoOne]
    /\ IF req[t] = "ok" /\ call[t].op = "sub"
       THEN /\ record' = Sub(record, call[t])
            /\ mute' = IF call[t].push THEN mute \ Pairs(call[t])
                                       ELSE mute \union Pairs(call[t])
       ELSE UNCHANGED <<record, mute>>
    /\ \/ /\ req[t] = "error" /\ t \in Resubs
          /\ todo' = [todo EXCEPT ![t] = {}]
          /\ resub' = [resub EXCEPT ![t] = "failed"]
          /\ Disturbing(TRUE)
       \/ /\ req[t] = "ok" \/ t \in Users
          /\ UNCHANGED <<todo, resub, disturbed>>
    /\ UNCHANGED <<up, session, gateway, unpush, cnts>>

\* The second request of unsubscribe(), which takes the pushes back once more:
\* _query_async sends it if there is a session and waits for nothing. Requests
\* about the same stocks count as one.
Unpush(u) ==
    /\ req[u] = "unpush"
    /\ unpush' = IF up THEN unpush \union {call[u]} ELSE unpush
    /\ req' = [req EXCEPT ![u] = "idle"] /\ call' = [call EXCEPT ![u] = NoOne]
    /\ UNCHANGED <<up, session, record, gateway, resub, todo, cnts, mute, disturbed>>

\* Served or refused.
ServeUnpush(q) ==
    /\ q \in unpush /\ unpush' = unpush \ {q}
    /\ \/ gateway' = [p \in Types \X Codes |->
                        IF p \in Pairs(q) THEN [gateway[p] EXCEPT !.push = FALSE]
                                          ELSE gateway[p]]
       \/ UNCHANGED gateway
    /\ UNCHANGED <<up, session, record, req, call, resub, todo, cnts, mute, disturbed>>

(***************************************************************************)
(* Sessions, and the resubscription of each.                               *)
(***************************************************************************)
SessionUp ==
    /\ ~up /\ session < MaxSession
    /\ up' = TRUE /\ session' = session + 1
    /\ resub' = [resub EXCEPT ![session + 1] = "due"]
    /\ UNCHANGED <<record, gateway, req, call, unpush, todo, cnts, mute, disturbed>>

\* What is under way fails; the gateway drops what belongs to the connection.
Disconnect ==
    /\ up /\ up' = FALSE
    /\ gateway' = [p \in Types \X Codes |-> Nothing] /\ unpush' = {}
    /\ req' = [t \in Threads |-> IF req[t] = "sent" THEN "error" ELSE req[t]]
    /\ Disturbing(\/ \E t \in Threads : req[t] # "idle"
                  \/ \E s \in Resubs : Resubscribing(s))
    /\ UNCHANGED <<session, record, call, resub, todo, cnts, mute>>

\* on_api_socket_reconnected takes its list under the lock. With nobody else at
\* work the new session starts from a clean slate.
Snapshot(s) ==
    /\ resub[s] = "due"
    /\ resub' = [resub EXCEPT ![s] = "taken"]
    /\ \E order \in Orders : todo' = [todo EXCEPT ![s] = Plan(record, order)]
    /\ disturbed' = \/ ~up \/ session # s
                    \/ gateway # [p \in Types \X Codes |-> Nothing] \/ unpush # {}
                    \/ \E t \in Threads : req[t] # "idle"
                    \/ \E r \in Resubs \ {s} : Resubscribing(r)
    /\ mute' = {}
    /\ UNCHANGED <<up, session, record, gateway, req, call, unpush, cnts>>

Resubscribe(s) ==
    /\ req[s] = "idle"
    /\ \E c \in todo[s] :
          Start(s, c) /\ todo' = [todo EXCEPT ![s] = @ \ {c}]
    /\ UNCHANGED <<up, session, record, gateway, unpush, resub, cnts, mute, disturbed>>

Next ==
    \/ \E u \in Users, c \in Calls : Subscribe(u, c) \/ Unsubscribe(u, c)
    \/ \E u \in Users : Unpush(u)
    \/ \E q \in unpush : ServeUnpush(q)
    \/ \E t \in Threads : Send(t) \/ GiveUp(t) \/ Serve(t) \/ Finish(t)
    \/ \E s \in Resubs : Snapshot(s) \/ Resubscribe(s)
    \/ SessionUp \/ Disconnect

Spec == Init /\ [][Next]_vars
-----------------------------------------------------------------------------
(***************************************************************************)
(* Properties.                                                             *)
(***************************************************************************)
\* Every variable keeps its type; in particular the resubscription never sends
\* an empty list, which _check_subscribe_param rejects as an error.
TypeOK ==
    /\ up \in BOOLEAN /\ session \in 0 .. MaxSession
    /\ record \in [Keys -> SUBSET Codes]
    /\ gateway \in [Types \X Codes -> [flavour : Flavours \union {NoOne}, push : BOOLEAN]]
    /\ req \in [Threads -> {"idle", "trying", "sent", "ok", "error", "unpush"}]
    /\ unpush \subseteq CallType /\ mute \subseteq Types \X Codes
    /\ \A t \in Threads : IF req[t] = "idle" THEN call[t] = NoOne
                                             ELSE call[t] \in CallType
    /\ resub \in [Resubs -> {"none", "due", "taken", "failed"}]
    /\ \A s \in Resubs : todo[s] \subseteq CallType
    /\ calls \in 0 .. MaxCalls /\ faults \in 0 .. MaxFaults
    /\ disturbed \in BOOLEAN

\* A type of a code is recorded in one flavour at most, whatever the threads
\* that subscribe it in different ones: otherwise the resubscription would ask
\* for both and the order of a dictionary decide.
OneFlavour ==
    \A t \in Types, f, g \in Flavours :
        f # g => record[<<t, f>>] \intersect record[<<t, g>>] = {}

\* The queries a resubscription would make cover the record exactly, no query
\* repeats another, and none exceeds the quota.
PlanCoversRecord ==
    \A order \in Orders :
        LET plan == Plan(record, order) IN
        /\ \A t \in Types, c \in Codes, f \in Flavours :
              Cardinality({q \in plan :
                              t \in q.types /\ c \in q.codes /\ f = q.flavour})
                = IF c \in record[<<t, f>>] THEN 1 ELSE 0
        /\ \A q \in plan :
              Cardinality(q.codes) * Cardinality(q.types \intersect KTypes)
                <= Quota

\* While nothing is under way, the gateway has subscribed what the record says,
\* in its flavour, and pushes it unless subscribe_push=False was the last asked.
\* Excepted is what Disturbing names since the last reconnection at rest, and
\* only that: several threads may call at a time about different stocks. A
\* reconnection at rest sets everything right.
Quiet ==
    /\ up /\ unpush = {}
    /\ \A t \in Threads : req[t] = "idle"
    /\ \A s \in Resubs : ~Resubscribing(s)

InSync ==
    Quiet /\ ~disturbed =>
        \A t \in Types, c \in Codes, f \in Flavours :
            LET g == gateway[<<t, c>>] IN
            /\ g.flavour = f <=> c \in record[<<t, f>>]
            /\ c \in record[<<t, f>>] => (g.push <=> <<t, c>> \notin mute)

\* A session on which the resubscription failed is closed to be tried again.
FailedSessionClosed ==
    \A s \in Resubs : resub[s] = "failed" => ~(up /\ session = s)
=============================================================================
