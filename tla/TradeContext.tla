---------------------------- MODULE TradeContext ----------------------------
(***************************************************************************)
(* OpenTradeContextBase (moomoo/trade/open_trade_context.py): the cached   *)
(* list of accounts, the choice of the account a call is about, the unlock *)
(* password that is remembered for later sessions, and what a new session  *)
(* restores.                                                               *)
(*                                                                         *)
(* None of this state has a lock, and three kinds of threads meet in it:   *)
(* the user's, and the reconnecting thread of each session, one of which   *)
(* may outlive its session. An action is what happens between two accesses *)
(* to shared state. A query waits until a session stands, and fails or is  *)
(* answered; whatever else Requests says of it is not repeated here.       *)
(*                                                                         *)
(* An account is its place in the list the gateway returns.                *)
(***************************************************************************)
EXTENDS Integers, Sequences, FiniteSets

CONSTANTS
    Users,       \* threads of the user
    Setups,      \* constructor's arguments and the accounts of the login
    Wanted,      \* what calls about an account ask for: [env, id, index]
    MaxSessions, \* bound: sessions
    MaxThreads,  \* bound: threads that take part, the user's and those of sessions
    MaxCalls     \* bound: calls of the user

None == "none"

Reconnecting == 1 .. MaxSessions     \* the thread that makes each session
Threads == Users \union Reconnecting

AccountType ==
    [env : {"REAL", "SIMULATE"}, markets : SUBSET STRING, firm : {"own", "other", None}]

\* market is filter_trdmarket and security says that the category is SECURITY.
ASSUME TradeContextAssumption ==
    /\ MaxSessions \in Nat /\ MaxCalls \in Nat /\ MaxThreads \in Nat
    /\ Wanted \subseteq [env : {"REAL", "SIMULATE"}, id : Nat, index : Nat]
    /\ Users \intersect Reconnecting = {}
    /\ Setups \subseteq
          [market : STRING, security : BOOLEAN, listed : Seq(AccountType)]

VARIABLES
    setup,     \* the element of Setups
    up,        \* the context is READY
    session,   \* sessions so far
    lastAcc,   \* __last_acc_list
    ctxUnlock, \* _ctx_unlock
    gUnlocked, \* at the gateway: the session may trade
    gPush,     \* at the gateway: accounts the session has subscribed
    calls,     \* calls of the user so far
    active,    \* threads of the user that have made one
    pc,        \* where each thread is
    job,       \* what it does
    back,      \* where get_acc_list returns to
    at,        \* records get_acc_list has looked at
    acc,       \* acc_id, once it is chosen
    tries,     \* rounds of place_order's lookup
    placed,    \* history: what became of the order of the call at the gateway
    misreported, \* history: an order whose acceptance was answered was not reported
               \* OK, or one that was not accepted was
    mixed,     \* history: another thread wrote the list this one is filling
    calm       \* history: since the session began one thread at a time was
               \* active, and no query failed

locals == <<at, acc, tries, placed, misreported>>
here == <<pc, job, back, locals>>
list == <<lastAcc, mixed>>
gate == <<gUnlocked, gPush>>
base == <<setup, up, session, calls, active>>
tradeVars == <<base, list, ctxUnlock, gate, here, calm>>

NoJob == [what |-> "none"]

TradeInit ==
    /\ setup \in Setups
    /\ up = FALSE /\ session = 0 /\ calls = 0 /\ active = {}
    /\ lastAcc = <<>> /\ ctxUnlock = None
    /\ gUnlocked = FALSE /\ gPush = {}
    /\ pc = [t \in Threads |-> "idle"] /\ job = [t \in Threads |-> NoJob]
    /\ back = [t \in Threads |-> None] /\ at = [t \in Threads |-> 0]
    /\ acc = [t \in Threads |-> 0] /\ tries = [t \in Threads |-> 0]
    /\ placed = [t \in Threads |-> "no"] /\ misreported = FALSE
    /\ mixed = [t \in Threads |-> FALSE] /\ calm = TRUE

-----------------------------------------------------------------------------
(***************************************************************************)
(* Accounts.                                                               *)
(***************************************************************************)
Listed == 1 .. Len(setup.listed)
Env(i) == setup.listed[i].env

\* TRADE.check_mkt_envtype; a pair that is not in the table is not enabled.
MktEnvEnabled(env) ==
    setup.market \in {"NONE", "HK", "US", "FUTURES"} \union
        (IF env = "REAL" THEN {"HKCC", "SG", "HKFUND", "USFUND", "CA", "MY", "JP"}
         ELSE {"CN"})

\* The accounts get_acc_list keeps: those of the market and of the firm, or
\* simulated. A futures context takes simulated futures markets for its own.
Keeps(i) ==
    LET r == setup.listed[i] IN
    /\ \/ setup.market = "NONE"
       \/ setup.market \in r.markets
       \/ setup.market = "FUTURES" /\ "FUTURES_SIMULATE" \in r.markets
    /\ r.env = "SIMULATE" \/ r.firm \in {"own", None}

Elements(s) == {s[i] : i \in DOMAIN s}

\* The place of the k-th record among those of its environment.
Rank(table, k) ==
    Cardinality({l \in 1 .. k : Env(table[l]) = Env(table[k])})

Quiet(T) == \A t \in T : pc[t] = "idle"

\* The list is written by t: what other threads are filling is a mixture.
Mix(t) == mixed' = [o \in Threads |-> o # t /\ (mixed[o] \/ pc[o] = "append")]

\* What the call says of its order is not so.
Misreports(t, r) ==
    job[t].what = "order" /\ placed[t] = IF r = "ok" THEN "no" ELSE "answered"

Return(t, r) ==
    /\ pc' = [pc EXCEPT ![t] = "idle"] /\ job' = [job EXCEPT ![t] = NoJob]
    /\ back' = [back EXCEPT ![t] = None] /\ at' = [at EXCEPT ![t] = 0]
    /\ acc' = [acc EXCEPT ![t] = 0] /\ tries' = [tries EXCEPT ![t] = 0]
    /\ placed' = [placed EXCEPT ![t] = "no"]
    /\ misreported' = (misreported \/ Misreports(t, r))

Go(t, to) == pc' = [pc EXCEPT ![t] = to]

-----------------------------------------------------------------------------
(***************************************************************************)
(* The user's calls, once the constructor has returned. Every call about   *)
(* an account checks the environment (get_margin_ratio and                 *)
(* get_acc_cash_flow do not), chooses the account, and makes its query     *)
(* with the first market of the account ("auth") or that of the code.      *)
(***************************************************************************)
Begin(t, j, to, from) ==
    /\ t \in Users /\ pc[t] = "idle"
    /\ session > 0 /\ pc[1] = "idle"
    /\ calls < MaxCalls
    /\ calls' = calls + 1 /\ active' = active \union {t}
    /\ session + Cardinality(active') <= MaxThreads
    /\ calm' = (calm /\ Quiet(Threads))
    /\ job' = [job EXCEPT ![t] = j] /\ back' = [back EXCEPT ![t] = from]
    /\ Go(t, to)
    /\ UNCHANGED <<setup, up, session, list, ctxUnlock, gate, locals>>

About(t, what, w) ==
    /\ ~(setup.security /\ setup.market = "FUTURES")
    /\ Begin(t, [what |-> what, env |-> w.env, id |-> w.id, index |-> w.index],
             "list", "choose")

Checked(t, what, w) == MktEnvEnabled(w.env) /\ About(t, what, w)

accinfo_query(t, w)            == Checked(t, "auth", w)
position_list_query(t, w)      == Checked(t, "auth", w)
order_list_query(t, w)         == Checked(t, "auth", w)
place_order(t, w)              == Checked(t, "order", w)
modify_order(t, w)             == Checked(t, "auth", w)
cancel_all_order(t, w)         == Checked(t, "auth", w)
deal_list_query(t, w)          == Checked(t, "auth", w)
history_order_list_query(t, w) == Checked(t, "auth", w)
order_fee_query(t, w)          == Checked(t, "auth", w)
history_deal_list_query(t, w)  == Checked(t, "auth", w)
acctradinginfo_query(t, w)     == Checked(t, "code", w)
get_acc_cash_flow(t, w)        == About(t, "auth", w)
get_margin_ratio(t) == About(t, "code", [env |-> "REAL", id |-> 0, index |-> 0])

get_acc_list(t) == Begin(t, [what |-> "list"], "list", "return")

\* unlock_trade. The gateway knows whether the password is right.
unlock_trade(t, password) ==
    /\ MktEnvEnabled("REAL")
    /\ Begin(t, [what |-> "unlock", password |-> password], "account", None)

\* unlock_trade(is_unlock=False).
lock_trade(t) == Begin(t, [what |-> "lock"], "account", None)

Call(t) ==
    \/ \E w \in Wanted :
          \/ accinfo_query(t, w) \/ position_list_query(t, w) \/ order_list_query(t, w)
          \/ place_order(t, w) \/ modify_order(t, w) \/ cancel_all_order(t, w)
          \/ deal_list_query(t, w) \/ history_order_list_query(t, w)
          \/ order_fee_query(t, w) \/ history_deal_list_query(t, w)
          \/ acctradinginfo_query(t, w) \/ get_acc_cash_flow(t, w)
    \/ get_margin_ratio(t) \/ get_acc_list(t) \/ lock_trade(t)
    \/ \E password \in {"right", "wrong"} : unlock_trade(t, password)

-----------------------------------------------------------------------------
(***************************************************************************)
(* get_acc_list.                                                           *)
(***************************************************************************)
\* __check_acc_sub_push ends. On a new session that was unlocked it is called
\* once more, by on_api_socket_reconnected.
SubscribeDone(t) ==
    IF job[t].what = "auto"
    THEN /\ Go(t, "subscribe") /\ job' = [job EXCEPT ![t] = [what |-> "fresh"]]
         /\ UNCHANGED <<back, locals>>
    ELSE Return(t, "ok")

\* The query.
AskList(t) ==
    /\ pc[t] = "list"
    /\ \/ up /\ Go(t, "reset") /\ UNCHANGED <<job, back, locals, calm>>
       \/ /\ calm' = FALSE
          /\ IF back[t] = "push" THEN SubscribeDone(t) ELSE Return(t, "error")
    /\ UNCHANGED <<base, list, ctxUnlock, gate>>

Reset(t) ==
    /\ pc[t] = "reset" /\ Go(t, "append")
    /\ lastAcc' = <<>> /\ Mix(t)
    /\ UNCHANGED <<base, ctxUnlock, gate, job, back, locals, calm>>

\* One round of the loop over the records of the reply.
AppendRecord(t) ==
    /\ pc[t] = "append" /\ at[t] < Len(setup.listed)
    /\ at' = [at EXCEPT ![t] = @ + 1]
    /\ IF Keeps(at[t] + 1)
       THEN /\ lastAcc' = Append(lastAcc, at[t] + 1)
            /\ mixed' = [o \in Threads |-> mixed[o] \/ (o # t /\ pc[o] = "append")]
       ELSE UNCHANGED list
    /\ UNCHANGED <<base, ctxUnlock, gate, pc, job, back, acc, tries, placed, misreported, calm>>

\* Variant: an acc_id is looked up in all environments.
Chosen_AnyEnv(j, k) ==
    IF j.id = 0 THEN Env(lastAcc[k]) = j.env /\ Rank(lastAcc, k) = j.index + 1
    ELSE lastAcc[k] = j.id

\* Variant: acc_index counts the accounts of both environments.
Chosen_Unfiltered(j, k) ==
    /\ Env(lastAcc[k]) = j.env
    /\ IF j.id = 0 THEN k = j.index + 1 ELSE lastAcc[k] = j.id

\* The k-th record of the table is the one the call asks for:
\* _get_acc_id_by_acc_index and _check_acc_id_exist.
Chosen(j, k) ==
    /\ Env(lastAcc[k]) = j.env
    /\ IF j.id = 0 THEN Rank(lastAcc, k) = j.index + 1 ELSE lastAcc[k] = j.id

\* The list is copied, and get_acc_list returns. For a call about an account
\* _check_acc_id_and_acc_index goes on with the copy.
CopyList(t) ==
    /\ pc[t] = "append" /\ at[t] = Len(setup.listed)
    /\ CASE back[t] = "choose" ->
              \/ \E k \in DOMAIN lastAcc :
                    /\ Chosen(job[t], k)
                    /\ acc' = [acc EXCEPT ![t] = lastAcc[k]]
                    /\ Go(t, "query") /\ at' = [at EXCEPT ![t] = 0]
                    /\ UNCHANGED <<job, back, tries, placed, misreported>>
              \/ /\ \A k \in DOMAIN lastAcc : ~Chosen(job[t], k)
                 /\ Return(t, "error")
         [] back[t] = "return" -> Return(t, "ok")
         [] OTHER -> /\ Go(t, back[t]) /\ at' = [at EXCEPT ![t] = 0]
                     /\ UNCHANGED <<job, back, acc, tries, placed, misreported>>
    /\ UNCHANGED <<base, list, ctxUnlock, gate, calm>>

-----------------------------------------------------------------------------
(***************************************************************************)
(* The query of a call about an account.                                   *)
(***************************************************************************)
\* acc_auth_list[0] of an account without a market.
Raises(t) == setup.listed[acc[t]].markets = {}

\* The query, or what keeps it from being made: the check of the other arguments,
\* where the method has one. The query of an order may be accepted and its reply not
\* come.
MakeQuery(t) ==
    /\ pc[t] = "query"
    /\ \/ /\ job[t].what = "auth" /\ Raises(t)
          /\ Return(t, "raised") /\ UNCHANGED calm
       \/ Return(t, "error") /\ UNCHANGED calm
       \/ /\ job[t].what = "auth" => ~Raises(t)
          /\ \/ Return(t, "error") /\ calm' = FALSE
             \/ /\ up /\ job[t].what # "order"
                /\ Return(t, "ok") /\ UNCHANGED calm
             \/ /\ up /\ job[t].what = "order"
                /\ placed' = [placed EXCEPT ![t] = "accepted"] /\ Go(t, "reply")
                /\ UNCHANGED <<job, back, at, acc, tries, misreported, calm>>
    /\ UNCHANGED <<base, list, ctxUnlock, gate>>

\* The reply to an order has come (perhaps before its session was lost), or it is
\* late or lost and the order is reported as an error.
OrderReply(t) ==
    /\ pc[t] = "reply"
    /\ \/ /\ placed' = [placed EXCEPT ![t] = "answered"] /\ Go(t, "lookup")
          /\ UNCHANGED <<job, back, at, acc, tries, misreported, calm>>
       \/ Return(t, "error") /\ calm' = FALSE
    /\ UNCHANGED <<base, list, ctxUnlock, gate>>

\* Variant: an order that cannot be looked up is reported as an error.
Lookup_Strict(t) ==
    /\ pc[t] = "lookup"
    /\ IF Raises(t) THEN Return(t, "raised")
       ELSE \/ up /\ Return(t, "ok")
            \/ IF tries[t] = 2 THEN Return(t, "error")
               ELSE /\ tries' = [tries EXCEPT ![t] = @ + 1]
                    /\ UNCHANGED <<pc, job, back, at, acc, placed, misreported>>
    /\ UNCHANGED <<base, list, ctxUnlock, gate, calm>>

\* place_order looks its order up, three times if need be, and returns what it has.
Lookup(t) ==
    /\ pc[t] = "lookup"
    /\ IF Raises(t) THEN Return(t, "raised")
       ELSE \/ up /\ Return(t, "ok")
            \/ IF tries[t] = 2 THEN Return(t, "ok")
               ELSE /\ tries' = [tries EXCEPT ![t] = @ + 1]
                    /\ UNCHANGED <<pc, job, back, at, acc, placed, misreported>>
    /\ UNCHANGED <<base, list, ctxUnlock, gate, calm>>

-----------------------------------------------------------------------------
(***************************************************************************)
(* unlock_trade.                                                           *)
(***************************************************************************)
\* _check_acc_id(REAL, 0): the cached list will do if there is one.
CheckAccId(t) ==
    /\ pc[t] = "account"
    /\ IF lastAcc = <<>>
       THEN Go(t, "list") /\ back' = [back EXCEPT ![t] = "default"]
       ELSE Go(t, "default") /\ UNCHANGED back
    /\ UNCHANGED <<base, list, ctxUnlock, gate, job, locals, calm>>

\* _get_default_acc_id, on whatever the list is by now.
DefaultAccId(t) ==
    /\ pc[t] = "default"
    /\ IF \E i \in Elements(lastAcc) : Env(i) = "REAL"
       THEN Go(t, "unlock") /\ UNCHANGED <<job, back, locals>>
       ELSE Return(t, "error")
    /\ UNCHANGED <<base, list, ctxUnlock, gate, calm>>

\* Variant: the password is remembered whatever the gateway says of it.
AskUnlock_Trusting(t) ==
    /\ pc[t] = "unlock" /\ up
    /\ gUnlocked' = (gUnlocked \/ job[t].what # "lock")
    /\ Go(t, "remember")
    /\ UNCHANGED <<base, list, ctxUnlock, gPush, job, back, locals, calm>>

\* The query. If it fails the gateway may have obeyed all the same.
AskUnlock(t) ==
    LET wanted == job[t].what # "lock"
        right  == wanted => job[t].password = "right"
    IN
    /\ pc[t] = "unlock"
    /\ \/ /\ up /\ right
          /\ gUnlocked' = wanted /\ Go(t, "remember")
          /\ UNCHANGED <<job, back, locals, calm>>
       \/ /\ up /\ ~right
          /\ Return(t, "error") /\ UNCHANGED <<gUnlocked, calm>>
       \/ /\ gUnlocked' \in {gUnlocked} \union IF up /\ right THEN {wanted} ELSE {}
          /\ Return(t, "error") /\ calm' = FALSE
    /\ UNCHANGED <<base, list, ctxUnlock, gPush>>

\* _ctx_unlock is set.
Remember(t) ==
    /\ pc[t] = "remember"
    /\ IF job[t].what = "lock"
       THEN ctxUnlock' = None /\ Return(t, "ok")
       ELSE /\ ctxUnlock' = job[t].password /\ Go(t, "subscribe")
            /\ UNCHANGED <<job, back, locals>>
    /\ UNCHANGED <<base, list, gate, calm>>

\* __check_acc_sub_push. (__is_acc_sub_push stays FALSE: nobody calls
\* on_async_sub_acc_push.)
CheckAccSubPush(t) ==
    /\ pc[t] = "subscribe"
    /\ IF lastAcc = <<>>
       THEN Go(t, "list") /\ back' = [back EXCEPT ![t] = "push"]
       ELSE Go(t, "push") /\ UNCHANGED back
    /\ UNCHANGED <<base, list, ctxUnlock, gate, job, locals, calm>>

\* The ids are taken from whatever the list is by now; what is sent replaces what
\* the session had subscribed. Nobody waits for the reply.
SubAccPush(t) ==
    /\ pc[t] = "push"
    /\ gPush' = IF up /\ lastAcc # <<>> THEN Elements(lastAcc) ELSE gPush
    /\ SubscribeDone(t)
    /\ UNCHANGED <<base, list, ctxUnlock, gUnlocked, calm>>

-----------------------------------------------------------------------------
(***************************************************************************)
(* Sessions.                                                               *)
(***************************************************************************)
\* The context is READY, and the thread that made it so calls
\* on_api_socket_reconnected.
SessionUp ==
    /\ ~up /\ session < MaxSessions
    /\ session + Cardinality(active) < MaxThreads
    /\ up' = TRUE /\ session' = session + 1
    /\ calm' = Quiet(Threads)
    /\ pc' = [pc EXCEPT ![session + 1] = "fresh"]
    /\ UNCHANGED <<setup, calls, active, list, ctxUnlock, gate, job, back, locals>>

Down ==
    /\ up' = FALSE /\ gUnlocked' = FALSE /\ gPush' = {}

SessionDown ==
    /\ up /\ Down
    /\ calm' = (calm /\ Quiet(Threads))
    /\ UNCHANGED <<setup, session, calls, active, list, ctxUnlock, here>>

Forget(t) ==
    /\ pc[t] = "fresh" /\ Go(t, "recall")
    /\ lastAcc' = <<>> /\ Mix(t)
    /\ UNCHANGED <<base, ctxUnlock, gate, job, back, locals, calm>>

\* Variant: a session that has nothing to unlock is left as it is.
Recall_NoPush(t) ==
    /\ pc[t] = "recall"
    /\ IF ctxUnlock = None THEN Return(t, "ok")
       ELSE Go(t, "unpack") /\ UNCHANGED <<job, back, locals>>
    /\ UNCHANGED <<base, list, ctxUnlock, gate, calm>>

\* Whether there is a password to unlock with.
Recall(t) ==
    /\ pc[t] = "recall"
    /\ IF ctxUnlock = None
       THEN Go(t, "subscribe") /\ job' = [job EXCEPT ![t] = [what |-> "fresh"]]
       ELSE Go(t, "unpack") /\ UNCHANGED job
    /\ UNCHANGED <<base, list, ctxUnlock, gate, back, locals, calm>>

\* _ctx_unlock is read again. If it has been cleared meanwhile the exception ends
\* in _reconnect, which takes it for a failed connection and closes it.
Unpack(t) ==
    /\ pc[t] = "unpack"
    /\ IF ctxUnlock = None
       THEN Down /\ Return(t, "raised")
       ELSE /\ job' = [job EXCEPT ![t] = [what |-> "auto", password |-> ctxUnlock]]
            /\ Go(t, "account")
            /\ UNCHANGED <<up, gate, back, locals>>
    /\ UNCHANGED <<setup, session, calls, active, list, ctxUnlock, calm>>

Step(t) ==
    \/ AskList(t) \/ Reset(t) \/ AppendRecord(t) \/ CopyList(t)
    \/ MakeQuery(t) \/ OrderReply(t) \/ Lookup(t)
    \/ CheckAccId(t) \/ DefaultAccId(t) \/ AskUnlock(t) \/ Remember(t)
    \/ CheckAccSubPush(t) \/ SubAccPush(t)
    \/ Forget(t) \/ Recall(t) \/ Unpack(t)

TradeNext ==
    \/ \E t \in Users : Call(t)
    \/ \E t \in Threads : Step(t)
    \/ SessionUp \/ SessionDown

TradeSpec == TradeInit /\ [][TradeNext]_tradeVars
-----------------------------------------------------------------------------
(***************************************************************************)
(* Properties.                                                             *)
(***************************************************************************)
\* Every variable keeps its type; in particular a password the gateway has refused
\* is never remembered.
JobType ==
    [what : {"none", "list", "lock", "fresh"}]
        \union [what : {"unlock", "auto"}, password : {"right", "wrong"}]
        \union [what : {"auth", "code", "order"}, env : {"REAL", "SIMULATE"},
                id : Nat, index : Nat]

TradeTypeOK ==
    /\ setup \in Setups /\ up \in BOOLEAN
    /\ session \in 0 .. MaxSessions /\ calls \in 0 .. MaxCalls /\ active \subseteq Users
    /\ lastAcc \in Seq(Listed) /\ ctxUnlock \in {None, "right"}
    /\ gUnlocked \in BOOLEAN /\ gPush \subseteq Listed
    /\ pc \in [Threads -> {"idle", "list", "reset", "append", "query", "reply", "lookup",
                           "account", "default", "unlock", "remember", "subscribe", "push",
                           "fresh", "recall", "unpack"}]
    /\ job \in [Threads -> JobType]
    /\ back \in [Threads -> {None, "choose", "return", "default", "push"}]
    /\ at \in [Threads -> 0 .. Len(setup.listed)]
    /\ acc \in [Threads -> 0 .. Len(setup.listed)] /\ tries \in [Threads -> 0 .. 2]
    /\ placed \in [Threads -> {"no", "accepted", "answered"}] /\ misreported \in BOOLEAN
    /\ mixed \in [Threads -> BOOLEAN]
    /\ calm \in BOOLEAN

Asking(t) == pc[t] \in {"query", "reply", "lookup"}

\* However threads and sessions interfere with the list, a call is about an account
\* of the environment it names (no order meant for the simulation reaches a real
\* account), of the context's market and firm, and, if it names an account, about
\* that one; and no others are subscribed.
OwnAccounts ==
    /\ \A t \in Threads : Asking(t) =>
          /\ Keeps(acc[t]) /\ Env(acc[t]) = job[t].env
          /\ job[t].id # 0 => acc[t] = job[t].id
    /\ \A i \in gPush : Keeps(i)

\* get_acc_list builds the list it says: of the records it has looked at those it
\* keeps, in their order, each once, unless another thread wrote the list as well.
Increasing(s) == \A i, j \in DOMAIN s : i < j => s[i] < s[j]

ListIntact ==
    \A t \in Threads : pc[t] = "append" /\ ~mixed[t] =>
        Increasing(lastAcc) /\ Elements(lastAcc) = {i \in 1 .. at[t] : Keeps(i)}

\* A call that names an index is about the account at that place among those of the
\* environment (the first for 0, as the documentation of acctradinginfo_query has
\* it), unless another thread wrote the list while it was being built.
RightAccount ==
    \A t \in Threads : Asking(t) /\ job[t].id = 0 /\ ~mixed[t] =>
        Cardinality({i \in 1 .. acc[t] : Keeps(i) /\ Env(i) = job[t].env})
            = job[t].index + 1

\* What place_order returns can be relied on as far as a reply goes: an order whose
\* acceptance the gateway has answered is reported OK, even if it cannot be looked
\* up, and none is that the gateway has not accepted. An error says less: if the
\* reply is lost or late, the order may have been accepted. (Not of a context for
\* any market: an account without a market makes place_order raise after the order.)
OrderReported == setup.market # "NONE" => ~misreported

\* A session in which one thread at a time was active and no query failed is, when
\* all is quiet, what the one before it was: unlocked if and only if a password is
\* remembered, and with all accounts subscribed.
Restored ==
    up /\ calm /\ Quiet(Threads) =>
        /\ gUnlocked <=> ctxUnlock # None
        /\ gPush = {i \in Listed : Keeps(i)}
=============================================================================
