------------------------- MODULE TradeContextProofs -------------------------
(***************************************************************************)
(* For any accounts, any arguments and any number of threads, sessions and *)
(* calls: which account a call of the trade context is about.              *)
(*                                                                         *)
(* The invariant says of each thread where it can be with which job, that  *)
(* the list it fills is the one it means to fill unless it is mixed, and   *)
(* that the account it has chosen is the right one; and of the shared list *)
(* only that every record of it is to be kept. What other threads do to    *)
(* the list in between can do no more than that.                           *)
(*                                                                         *)
(* The last section puts the trade context and the web application         *)
(* together.                                                               *)
(***************************************************************************)
EXTENDS MCAccounts, AccountWebProofs, FunctionTheorems, SequenceTheorems

Pcs == {"idle", "list", "reset", "append", "query", "reply", "lookup",
        "account", "default", "unlock", "remember", "subscribe", "push", "fresh", "recall", "unpack"}

Backs == {None, "choose", "return", "default", "push"}

Listing(t) == pc[t] \in {"list", "reset", "append"}

Count == Len(setup.listed)

\* Where a thread can be with which job.
Unlocking(t) ==
    \/ pc[t] \in {"account", "default", "unlock"}
    \/ Listing(t) /\ back[t] = "default"

Located(t) ==
    /\ Listing(t) => back[t] # None
    /\ Unlocking(t) => job[t].what \in {"unlock", "auto", "lock"}
    /\ pc[t] = "remember" =>
          \/ job[t].what = "lock"
          \/ job[t].what \in {"unlock", "auto"} /\ job[t].password = "right"
    /\ pc[t] # "append" => at[t] = 0
    /\ placed[t] = "accepted" => pc[t] = "reply"
    /\ placed[t] = "answered" <=> pc[t] = "lookup"
    /\ job[t].what = "order" => Asking(t) \/ (Listing(t) /\ back[t] = "choose")

Intact(t) ==
    pc[t] = "append" /\ ~mixed[t] =>
        Increasing(lastAcc) /\ Elements(lastAcc) = {i \in 1 .. at[t] : Keeps(i)}

Own(t) ==
    Asking(t) => /\ acc[t] \in Listed /\ Keeps(acc[t]) /\ Env(acc[t]) = job[t].env
                 /\ job[t].id # 0 => acc[t] = job[t].id

Right(t) ==
    Asking(t) /\ job[t].id = 0 /\ ~mixed[t] =>
        Cardinality({i \in 1 .. acc[t] : Keeps(i) /\ Env(i) = job[t].env})
            = job[t].index + 1

ThreadInv(t) == Located(t) /\ Intact(t) /\ Own(t) /\ Right(t)

KeptList == \A i \in Elements(lastAcc) : Keeps(i)

KeptPush == \A i \in gPush : Keeps(i)

NotBegun == \A t \in Reconnecting : t > session => pc[t] = "idle"

TradeInv ==
    /\ TradeTypeOK /\ KeptList /\ KeptPush /\ NotBegun /\ OrderReported
    /\ \A t \in Threads : ThreadInv(t)

USE TradeContextAssumption

LEMMA CountType == ASSUME TradeTypeOK PROVE Count \in Nat /\ Listed = 1 .. Count
<1>1. setup.listed \in Seq(AccountType)
  BY DEF TradeTypeOK
<1> QED
  BY <1>1 DEF Count, Listed


-----------------------------------------------------------------------------
(***************************************************************************)
(* Types.                                                                  *)
(***************************************************************************)
\* The parts of TradeTypeOK that threads change.
LocalTypes ==
    /\ pc \in [Threads -> Pcs] /\ job \in [Threads -> JobType]
    /\ back \in [Threads -> Backs] /\ at \in [Threads -> 0 .. Count]
    /\ acc \in [Threads -> 0 .. Count] /\ tries \in [Threads -> 0 .. 2]
    /\ placed \in [Threads -> {"no", "accepted", "answered"}] /\ misreported \in BOOLEAN

SharedTypes ==
    /\ setup \in Setups /\ up \in BOOLEAN
    /\ session \in 0 .. MaxSessions /\ calls \in 0 .. MaxCalls /\ active \subseteq Users
    /\ lastAcc \in Seq(Listed) /\ ctxUnlock \in {None, "right"}
    /\ gUnlocked \in BOOLEAN /\ gPush \subseteq Listed
    /\ mixed \in [Threads -> BOOLEAN] /\ calm \in BOOLEAN

LEMMA Types ==
    /\ TradeTypeOK => LocalTypes /\ SharedTypes
    /\ LocalTypes' /\ SharedTypes' => TradeTypeOK'
BY DEF TradeTypeOK, LocalTypes, SharedTypes, Pcs, Backs, Count

LEMMA ReturnTypes ==
    ASSUME LocalTypes, Count \in Nat, setup' = setup, NEW t \in Threads, NEW r, Return(t, r)
    PROVE  LocalTypes'
<1>1. NoJob \in JobType
  BY DEF NoJob, JobType
<1>2. 0 \in 0 .. Count /\ 0 \in 0 .. 2 /\ None \in Backs /\ "idle" \in Pcs
  BY DEF Backs, Pcs
<1>3. /\ pc' \in [Threads -> Pcs] /\ job' \in [Threads -> JobType]
      /\ back' \in [Threads -> Backs]
  BY <1>1, <1>2 DEF Return, LocalTypes
<1>4. /\ at' \in [Threads -> 0 .. Count] /\ acc' \in [Threads -> 0 .. Count]
      /\ tries' \in [Threads -> 0 .. 2]
  BY <1>2 DEF Return, LocalTypes
<1>5. placed' \in [Threads -> {"no", "accepted", "answered"}] /\ misreported' \in BOOLEAN
  BY DEF Return, LocalTypes
<1> QED
  BY <1>3, <1>4, <1>5 DEF LocalTypes, Count

LEMMA BeginTypes ==
    ASSUME LocalTypes, SharedTypes, NEW t, NEW j \in JobType, NEW to \in Pcs,
           NEW from \in Backs, Begin(t, j, to, from)
    PROVE  LocalTypes' /\ SharedTypes'
<1>1. /\ t \in Users /\ t \in Threads
      /\ pc' = [pc EXCEPT ![t] = to] /\ job' = [job EXCEPT ![t] = j]
      /\ back' = [back EXCEPT ![t] = from] /\ calls < MaxCalls /\ calls' = calls + 1
      /\ active' = active \union {t} /\ calm' \in BOOLEAN
      /\ UNCHANGED <<setup, up, session, lastAcc, mixed, ctxUnlock, gUnlocked, gPush, at, acc,
                     tries, placed, misreported>>
  BY DEF Begin, Go, list, gate, locals, Threads, SharedTypes
<1>2. LocalTypes'
  BY <1>1 DEF LocalTypes, Count
<1>3. SharedTypes'
  BY <1>1 DEF SharedTypes, Listed
<1> QED
  BY <1>2, <1>3

\* Every call of the user is one of three kinds.
LEMMA CallKinds ==
    ASSUME NEW t \in Users, Call(t)
    PROVE  \E j \in JobType :
              \/ j.what \in {"auth", "code", "order"} /\ Begin(t, j, "list", "choose")
              \/ j.what = "list" /\ Begin(t, j, "list", "return")
              \/ j.what \in {"unlock", "lock"} /\ Begin(t, j, "account", None)
<1>1. ASSUME NEW w \in [env : {"REAL", "SIMULATE"}, id : Nat, index : Nat],
             NEW what \in {"auth", "code", "order"}, About(t, what, w)
      PROVE  \E j \in JobType : j.what \in {"auth", "code", "order"}
                                   /\ Begin(t, j, "list", "choose")
  <2>1. [what |-> what, env |-> w.env, id |-> w.id, index |-> w.index] \in JobType
    BY DEF JobType
  <2> QED
    BY <1>1, <2>1 DEF About
<1>2. ASSUME NEW w \in Wanted,
             \/ accinfo_query(t, w) \/ position_list_query(t, w) \/ order_list_query(t, w)
             \/ place_order(t, w) \/ modify_order(t, w) \/ cancel_all_order(t, w)
             \/ deal_list_query(t, w) \/ history_order_list_query(t, w)
             \/ order_fee_query(t, w) \/ history_deal_list_query(t, w)
             \/ acctradinginfo_query(t, w) \/ get_acc_cash_flow(t, w)
      PROVE  \E what \in {"auth", "code", "order"} : About(t, what, w)
  BY <1>2 DEF accinfo_query, position_list_query, order_list_query, place_order, modify_order,
              cancel_all_order, deal_list_query, history_order_list_query, order_fee_query,
              history_deal_list_query, acctradinginfo_query, get_acc_cash_flow, Checked
<1>3. CASE \E w \in Wanted : \E what \in {"auth", "code", "order"} : About(t, what, w)
  BY <1>1, <1>3
<1>4. CASE get_margin_ratio(t)
  <2>1. [env |-> "REAL", id |-> 0, index |-> 0]
            \in [env : {"REAL", "SIMULATE"}, id : Nat, index : Nat]
    OBVIOUS
  <2> QED
    BY <1>1, <1>4, <2>1 DEF get_margin_ratio
<1>5. CASE get_acc_list(t)
  BY <1>5 DEF get_acc_list, JobType
<1>6. CASE lock_trade(t)
  BY <1>6 DEF lock_trade, JobType
<1>7. CASE \E password \in {"right", "wrong"} : unlock_trade(t, password)
  <2> PICK password \in {"right", "wrong"} : unlock_trade(t, password)
    BY <1>7
  <2>1. [what |-> "unlock", password |-> password] \in JobType
    BY DEF JobType
  <2> QED
    BY <2>1 DEF unlock_trade
<1> QED
  BY <1>2, <1>3, <1>4, <1>5, <1>6, <1>7 DEF Call

LEMMA Calls ==
    ASSUME NEW t \in Users, Call(t)
    PROVE  \E j \in JobType :
              \/ \E from \in {"choose", "return"} : Begin(t, j, "list", from)
              \/ j.what \in {"unlock", "lock"} /\ Begin(t, j, "account", None)
BY CallKinds

LEMMA CallTypes ==
    ASSUME TradeTypeOK, NEW t \in Users, Call(t) PROVE TradeTypeOK'
<1>1. LocalTypes /\ SharedTypes
  BY Types
<1>2. PICK j \in JobType :
         \/ \E from \in {"choose", "return"} : Begin(t, j, "list", from)
         \/ j.what \in {"unlock", "lock"} /\ Begin(t, j, "account", None)
  BY Calls
<1>3. LocalTypes' /\ SharedTypes'
  <2>1. "list" \in Pcs /\ "account" \in Pcs /\ {"choose", "return", None} \subseteq Backs
    BY DEF Pcs, Backs
  <2> QED
    BY <1>1, <1>2, <2>1, BeginTypes
<1> QED
  BY <1>3, Types

LEMMA GoTypes ==
    ASSUME LocalTypes, Count \in Nat, setup' = setup, NEW t \in Threads, NEW to \in Pcs,
           Go(t, to), UNCHANGED <<job, back, at, acc, tries, placed, misreported>>
    PROVE  LocalTypes'
BY DEF Go, LocalTypes, Count

LEMMA SubscribeDoneTypes ==
    ASSUME LocalTypes, Count \in Nat, setup' = setup, NEW t \in Threads, SubscribeDone(t)
    PROVE  LocalTypes'
<1>1. CASE job[t].what = "auto"
  <2>1. /\ pc' = [pc EXCEPT ![t] = "subscribe"]
        /\ job' = [job EXCEPT ![t] = [what |-> "fresh"]]
        /\ UNCHANGED <<back, at, acc, tries, placed, misreported>>
    BY <1>1 DEF SubscribeDone, Go, locals
  <2>2. [what |-> "fresh"] \in JobType /\ "subscribe" \in Pcs
    BY DEF JobType, Pcs
  <2> QED
    BY <2>1, <2>2 DEF LocalTypes, Count
<1>2. CASE job[t].what # "auto"
  BY <1>2, ReturnTypes DEF SubscribeDone
<1> QED
  BY <1>1, <1>2

LEMMA MixTypes == ASSUME SharedTypes, NEW t, Mix(t) PROVE mixed' \in [Threads -> BOOLEAN]
BY DEF Mix

LEMMA ListTypes ==
    ASSUME TradeInv, NEW t \in Threads,
           AskList(t) \/ Reset(t) \/ AppendRecord(t) \/ CopyList(t) \/ Forget(t)
    PROVE  TradeTypeOK'
<1>1. LocalTypes /\ SharedTypes /\ Count \in Nat /\ Listed = 1 .. Count
  BY Types, CountType DEF TradeInv
<1>2. setup' = setup /\ Listed' = Listed /\ UNCHANGED <<session, calls, active, gUnlocked, gPush>>
  BY DEF AskList, Reset, AppendRecord, CopyList, Forget, base, gate, Listed
<1>3. {"reset", "append", "query", "recall", "choose", "return", "default", "push"} \subseteq
          Pcs \union Backs
      /\ {"reset", "append", "query", "recall", "default", "push"} \subseteq Pcs
  BY DEF Pcs, Backs
<1>4. CASE AskList(t)
  <2>1. SharedTypes'
    BY <1>1, <1>2, <1>4 DEF AskList, SharedTypes, base, list
  <2>2. \/ Go(t, "reset") /\ UNCHANGED <<job, back, at, acc, tries, placed, misreported>>
        \/ SubscribeDone(t) \/ Return(t, "error")
    BY <1>4 DEF AskList, locals
  <2>3. LocalTypes'
    BY <1>1, <1>2, <1>3, <2>2, GoTypes, SubscribeDoneTypes, ReturnTypes
  <2> QED
    BY <2>1, <2>3, Types
<1>5. CASE Reset(t) \/ Forget(t)
  <2>1. lastAcc' \in Seq(Listed) /\ mixed' \in [Threads -> BOOLEAN]
    <3>1. lastAcc' = <<>> /\ Mix(t)
      BY <1>5 DEF Reset, Forget
    <3>2. <<>> \in Seq(Listed)
      OBVIOUS
    <3> QED
      BY <1>1, <3>1, <3>2, MixTypes
  <2>2. UNCHANGED <<setup, up, session, calls, active, ctxUnlock, gUnlocked, gPush, calm>>
    BY <1>5 DEF Reset, Forget, base, gate
  <2>3. SharedTypes'
    BY <1>1, <1>2, <2>1, <2>2 DEF SharedTypes
  <2>4. /\ \E to \in {"append", "recall"} : Go(t, to)
        /\ UNCHANGED <<job, back, at, acc, tries, placed, misreported>>
    BY <1>5 DEF Reset, Forget, locals
  <2>5. LocalTypes'
    BY <1>1, <1>2, <1>3, <2>4, GoTypes
  <2> QED
    BY <2>3, <2>5, Types
<1>6. CASE AppendRecord(t)
  <2>1. /\ at[t] < Count /\ at' = [at EXCEPT ![t] = @ + 1]
        /\ UNCHANGED <<setup, up, session, calls, active, ctxUnlock, gUnlocked, gPush, pc, job,
                       back, acc, tries, placed, misreported, calm>>
    BY <1>6 DEF AppendRecord, base, gate, Count
  <2>2. at[t] \in 0 .. Count /\ at[t] + 1 \in 1 .. Count
    BY <1>1, <2>1 DEF LocalTypes
  <2>3. lastAcc' \in Seq(Listed) /\ mixed' \in [Threads -> BOOLEAN]
    <3>1. CASE Keeps(at[t] + 1)
      <4>1. lastAcc' = Append(lastAcc, at[t] + 1)
        BY <1>6, <3>1 DEF AppendRecord
      <4>2. lastAcc' \in Seq(Listed)
        BY <1>1, <2>2, <4>1 DEF SharedTypes
      <4>3. mixed' = [o \in Threads |-> mixed[o] \/ (o # t /\ pc[o] = "append")]
        BY <1>6, <3>1 DEF AppendRecord
      <4>4. mixed \in [Threads -> BOOLEAN]
        BY <1>1 DEF SharedTypes
      <4> QED
        BY <4>2, <4>3, <4>4
    <3>2. CASE ~Keeps(at[t] + 1)
      BY <1>1, <1>6, <3>2 DEF AppendRecord, list, SharedTypes
    <3> QED
      BY <3>1, <3>2
  <2>4. SharedTypes'
    BY <1>1, <1>2, <2>1, <2>3 DEF SharedTypes
  <2>5. LocalTypes'
    BY <1>1, <2>1, <2>2 DEF LocalTypes, Count
  <2> QED
    BY <2>4, <2>5, Types
<1>7. CASE CopyList(t)
  <2>1. UNCHANGED <<setup, up, session, calls, active, lastAcc, mixed, ctxUnlock, gUnlocked,
                    gPush, calm>>
    BY <1>7 DEF CopyList, base, list, gate
  <2>2. SharedTypes'
    BY <1>1, <1>2, <2>1 DEF SharedTypes
  <2>3. LocalTypes'
    <3>1. CASE back[t] = "choose" /\ ~Return(t, "error")
      <4>1. PICK k \in DOMAIN lastAcc :
               /\ acc' = [acc EXCEPT ![t] = lastAcc[k]]
               /\ Go(t, "query") /\ at' = [at EXCEPT ![t] = 0]
               /\ UNCHANGED <<job, back, tries, placed, misreported>>
        BY <1>7, <3>1 DEF CopyList
      <4>2. lastAcc[k] \in 0 .. Count
        BY <1>1 DEF SharedTypes
      <4> QED
        BY <1>1, <1>2, <1>3, <4>1, <4>2 DEF LocalTypes, Go, Count
    <3>2. CASE Return(t, "error") \/ Return(t, "ok")
      BY <1>1, <1>2, <3>2, ReturnTypes
    <3>3. CASE back[t] \notin {"choose", "return"}
      <4>1. /\ Go(t, back[t]) /\ at' = [at EXCEPT ![t] = 0]
            /\ UNCHANGED <<job, back, acc, tries, placed, misreported>>
        BY <1>7, <3>3 DEF CopyList
      <4>2. back[t] \in {"default", "push"}
        BY <1>1, <1>7, <3>3 DEF CopyList, TradeInv, ThreadInv, Located, Listing, LocalTypes, Backs
      <4> QED
        BY <1>1, <1>2, <1>3, <4>1, <4>2 DEF LocalTypes, Go, Count
    <3> QED
      BY <1>7, <3>1, <3>2, <3>3 DEF CopyList
  <2> QED
    BY <2>2, <2>3, Types
<1> QED
  BY <1>4, <1>5, <1>6, <1>7

LEMMA StepTypes ==
    ASSUME TradeInv, NEW t \in Threads, Step(t) PROVE TradeTypeOK'
<1>1. LocalTypes /\ SharedTypes /\ Count \in Nat /\ Listed = 1 .. Count
  BY Types, CountType DEF TradeInv
<1>2. CASE AskList(t) \/ Reset(t) \/ AppendRecord(t) \/ CopyList(t) \/ Forget(t)
  BY <1>2, ListTypes
<1>3. CASE MakeQuery(t) \/ OrderReply(t) \/ Lookup(t)
  <2>1. /\ UNCHANGED <<setup, up, session, calls, active, lastAcc, mixed, ctxUnlock, gUnlocked,
                       gPush>>
        /\ calm' \in BOOLEAN
    BY <1>1, <1>3 DEF MakeQuery, OrderReply, Lookup, base, list, gate, SharedTypes
  <2>2. SharedTypes'
    BY <1>1, <2>1 DEF SharedTypes, Listed
  <2>3. CASE \E r \in {"error", "ok", "raised"} : Return(t, r)
    <3>1. LocalTypes'
      BY <1>1, <2>1, <2>3, ReturnTypes
    <3> QED
      BY <2>2, <3>1, Types
  <2>4. CASE /\ \E b \in {"accepted", "answered"} : placed' = [placed EXCEPT ![t] = b]
             /\ \E to \in {"reply", "lookup"} : Go(t, to)
             /\ UNCHANGED <<job, back, at, acc, tries, misreported>>
    <3>1. LocalTypes'
      BY <1>1, <2>1, <2>4 DEF LocalTypes, Go, Count, Pcs
    <3> QED
      BY <2>2, <3>1, Types
  <2>5. CASE /\ tries[t] # 2 /\ tries' = [tries EXCEPT ![t] = @ + 1]
             /\ UNCHANGED <<pc, job, back, at, acc, placed, misreported>>
    <3>1. tries' \in [Threads -> 0 .. 2]
      <4>1. tries \in [Threads -> 0 .. 2] /\ tries[t] \in 0 .. 2 /\ tries[t] # 2
        BY <1>1, <2>5 DEF LocalTypes
      <4>2. tries[t] + 1 \in 0 .. 2
        BY <4>1
      <4> QED
        BY <2>5, <4>1, <4>2
    <3>2. LocalTypes'
      BY <1>1, <2>1, <2>5, <3>1 DEF LocalTypes, Count
    <3> QED
      BY <2>2, <3>2, Types
  <2> QED
    BY <1>3, <2>3, <2>4, <2>5 DEF MakeQuery, OrderReply, Lookup
<1>4. CASE CheckAccId(t) \/ CheckAccSubPush(t)
  <2>1. /\ UNCHANGED <<setup, up, session, calls, active, lastAcc, mixed, ctxUnlock, gUnlocked,
                       gPush, calm, job, at, acc, tries, placed, misreported>>
        /\ \E to \in {"list", "default", "push"} : pc' = [pc EXCEPT ![t] = to]
        /\ back' = back \/ \E to \in {"default", "push"} : back' = [back EXCEPT ![t] = to]
    BY <1>4 DEF CheckAccId, CheckAccSubPush, base, list, gate, locals, Go
  <2>2. SharedTypes'
    BY <1>1, <2>1 DEF SharedTypes, Listed
  <2>3. LocalTypes'
    BY <1>1, <2>1 DEF LocalTypes, Count, Pcs, Backs
  <2> QED
    BY <2>2, <2>3, Types
<1>5. CASE DefaultAccId(t) \/ AskUnlock(t)
  <2>1. /\ UNCHANGED <<setup, up, session, calls, active, lastAcc, mixed, ctxUnlock, gPush>>
        /\ calm' \in BOOLEAN
    BY <1>1, <1>5 DEF DefaultAccId, AskUnlock, base, list, gate, SharedTypes
  <2>2. gUnlocked' \in BOOLEAN
    BY <1>1, <1>5 DEF DefaultAccId, AskUnlock, gate, SharedTypes
  <2>3. SharedTypes'
    BY <1>1, <2>1, <2>2 DEF SharedTypes, Listed
  <2>4. \/ Return(t, "error")
        \/ /\ \E to \in {"unlock", "remember"} : Go(t, to)
           /\ UNCHANGED <<job, back, at, acc, tries, placed, misreported>>
    BY <1>5 DEF DefaultAccId, AskUnlock, locals
  <2>5. LocalTypes'
    BY <1>1, <2>1, <2>4, ReturnTypes, GoTypes DEF Pcs
  <2> QED
    BY <2>3, <2>5, Types
<1>6. CASE Remember(t)
  <2>1. UNCHANGED <<setup, up, session, calls, active, lastAcc, mixed, gUnlocked, gPush, calm>>
    BY <1>6 DEF Remember, base, list, gate
  <2>2. ctxUnlock' \in {None, "right"}
    BY <1>6 DEF Remember, TradeInv, ThreadInv, Located
  <2>3. SharedTypes'
    BY <1>1, <2>1, <2>2 DEF SharedTypes, Listed
  <2>4. \/ Return(t, "ok")
        \/ Go(t, "subscribe") /\ UNCHANGED <<job, back, at, acc, tries, placed, misreported>>
    BY <1>6 DEF Remember, locals
  <2>5. LocalTypes'
    BY <1>1, <2>1, <2>4, ReturnTypes, GoTypes DEF Pcs
  <2> QED
    BY <2>3, <2>5, Types
<1>7. CASE SubAccPush(t)
  <2>1. /\ UNCHANGED <<setup, up, session, calls, active, lastAcc, mixed, ctxUnlock, gUnlocked,
                       calm>>
        /\ SubscribeDone(t)
    BY <1>7 DEF SubAccPush, base, list
  <2>2. gPush' \subseteq Listed
    <3>1. Elements(lastAcc) \subseteq Listed
      BY <1>1 DEF Elements, SharedTypes
    <3> QED
      BY <1>1, <1>7, <3>1 DEF SubAccPush, SharedTypes
  <2>3. SharedTypes'
    BY <1>1, <2>1, <2>2 DEF SharedTypes, Listed
  <2>4. LocalTypes'
    BY <1>1, <2>1, SubscribeDoneTypes
  <2> QED
    BY <2>3, <2>4, Types
<1>8. CASE Recall(t)
  <2>1. UNCHANGED <<setup, up, session, calls, active, lastAcc, mixed, ctxUnlock, gUnlocked,
                    gPush, calm, back, at, acc, tries, placed, misreported>>
    BY <1>8 DEF Recall, base, list, gate, locals
  <2>2. SharedTypes'
    BY <1>1, <2>1 DEF SharedTypes, Listed
  <2>3. job' \in [Threads -> JobType] /\ pc' \in [Threads -> Pcs]
    <3>1. [what |-> "fresh"] \in JobType
      BY DEF JobType
    <3>2. /\ \E to \in {"subscribe", "unpack"} : pc' = [pc EXCEPT ![t] = to]
          /\ job' = job \/ job' = [job EXCEPT ![t] = [what |-> "fresh"]]
      BY <1>8 DEF Recall, Go
    <3> QED
      BY <1>1, <3>1, <3>2 DEF LocalTypes, Pcs
  <2>4. LocalTypes'
    BY <1>1, <2>1, <2>3 DEF LocalTypes, Count
  <2> QED
    BY <2>2, <2>4, Types
<1>9. CASE Unpack(t)
  <2>1. /\ UNCHANGED <<setup, session, calls, active, lastAcc, mixed, ctxUnlock, calm>>
        /\ up' \in BOOLEAN /\ gUnlocked' \in BOOLEAN /\ gPush' \subseteq Listed
    BY <1>1, <1>9 DEF Unpack, Down, list, gate, SharedTypes
  <2>2. SharedTypes'
    BY <1>1, <2>1 DEF SharedTypes, Listed
  <2>3. CASE Return(t, "raised")
    <3>1. LocalTypes'
      BY <1>1, <2>1, <2>3, ReturnTypes
    <3> QED
      BY <2>2, <3>1, Types
  <2>4. CASE ~Return(t, "raised")
    <3>1. /\ ctxUnlock # None /\ pc' = [pc EXCEPT ![t] = "account"]
          /\ job' = [job EXCEPT ![t] = [what |-> "auto", password |-> ctxUnlock]]
          /\ UNCHANGED <<back, at, acc, tries, placed, misreported>>
      BY <1>9, <2>4 DEF Unpack, Go, locals
    <3>2. [what |-> "auto", password |-> ctxUnlock] \in JobType
      BY <1>1, <3>1 DEF JobType, SharedTypes
    <3>3. LocalTypes'
      BY <1>1, <2>1, <3>1, <3>2 DEF LocalTypes, Count, Pcs
    <3> QED
      BY <2>2, <3>3, Types
  <2> QED
    BY <2>3, <2>4
<1> QED
  BY <1>2, <1>3, <1>4, <1>5, <1>6, <1>7, <1>8, <1>9 DEF Step

-----------------------------------------------------------------------------
(***************************************************************************)
(* What a thread's step leaves to the others.                              *)
(***************************************************************************)
Elsewhere(t) ==
    \A u \in Threads \ {t} :
        /\ pc'[u] = pc[u] /\ job'[u] = job[u] /\ back'[u] = back[u] /\ at'[u] = at[u]
        /\ acc'[u] = acc[u] /\ placed'[u] = placed[u]

LEMMA ReturnElsewhere ==
    ASSUME LocalTypes, NEW t \in Threads, NEW r, Return(t, r) PROVE Elsewhere(t)
BY DEF Return, LocalTypes, Elsewhere

LEMMA SubscribeDoneElsewhere ==
    ASSUME LocalTypes, NEW t \in Threads, SubscribeDone(t) PROVE Elsewhere(t)
<1>1. CASE job[t].what = "auto"
  <2>1. /\ pc' = [pc EXCEPT ![t] = "subscribe"]
        /\ job' = [job EXCEPT ![t] = [what |-> "fresh"]]
        /\ UNCHANGED <<back, at, acc, placed>>
    BY <1>1 DEF SubscribeDone, Go, locals
  <2> QED
    BY <2>1 DEF LocalTypes, Elsewhere
<1>2. CASE job[t].what # "auto"
  BY <1>2, ReturnElsewhere DEF SubscribeDone
<1> QED
  BY <1>1, <1>2

LEMMA StepElsewhere ==
    ASSUME LocalTypes, NEW t \in Threads, Step(t) PROVE Elsewhere(t)
<1>1. ASSUME \E to : pc' = [pc EXCEPT ![t] = to],
             job' = job \/ (\E j : job' = [job EXCEPT ![t] = j]),
             back' = back \/ (\E b : back' = [back EXCEPT ![t] = b]),
             at' = at \/ (\E n : at' = [at EXCEPT ![t] = n]),
             acc' = acc \/ (\E n : acc' = [acc EXCEPT ![t] = n]),
             placed' = placed \/ (\E b : placed' = [placed EXCEPT ![t] = b])
      PROVE  Elsewhere(t)
  BY <1>1 DEF LocalTypes, Elsewhere
<1>2. CASE AskList(t)
  BY <1>1, <1>2, ReturnElsewhere, SubscribeDoneElsewhere DEF AskList, Go, locals
<1>3. CASE Reset(t) \/ Forget(t)
  BY <1>1, <1>3 DEF Reset, Forget, Go, locals
<1>4. CASE AppendRecord(t)
  BY <1>4 DEF AppendRecord, LocalTypes, Elsewhere
<1>5. CASE CopyList(t)
  BY <1>1, <1>5, ReturnElsewhere DEF CopyList, Go
<1>6. CASE MakeQuery(t) \/ OrderReply(t)
  BY <1>1, <1>6, ReturnElsewhere DEF MakeQuery, OrderReply, Go
<1>7. CASE Lookup(t)
  <2>1. CASE UNCHANGED <<pc, job, back, at, acc, placed, misreported>>
    BY <2>1 DEF Elsewhere
  <2> QED
    BY <1>7, <2>1, ReturnElsewhere DEF Lookup
<1>8. CASE CheckAccId(t) \/ CheckAccSubPush(t)
  BY <1>1, <1>8 DEF CheckAccId, CheckAccSubPush, Go, locals
<1>9. CASE DefaultAccId(t) \/ AskUnlock(t) \/ Remember(t)
  BY <1>1, <1>9, ReturnElsewhere DEF DefaultAccId, AskUnlock, Remember, Go, locals
<1>10. CASE SubAccPush(t)
  BY <1>10, SubscribeDoneElsewhere DEF SubAccPush
<1>11. CASE Recall(t) \/ Unpack(t)
  BY <1>1, <1>11, ReturnElsewhere DEF Recall, Unpack, Go, locals
<1> QED
  BY <1>2, <1>3, <1>4, <1>5, <1>6, <1>7, <1>8, <1>9, <1>10, <1>11 DEF Step

\* The list is written only together with the marks of those that fill it.
Marked(t) ==
    \A u \in Threads \ {t} :
        /\ mixed[u] => mixed'[u]
        /\ pc[u] # "append" => (mixed'[u] => mixed[u])
        /\ pc[u] = "append" /\ lastAcc' # lastAcc => mixed'[u]

LEMMA StepMarked ==
    ASSUME SharedTypes, NEW t \in Threads, Step(t) PROVE Marked(t)
<1>1. CASE lastAcc' = lastAcc /\ mixed' = mixed
  BY <1>1 DEF Marked
<1>2. CASE Reset(t) \/ Forget(t)
  <2>1. mixed' = [o \in Threads |-> o # t /\ (mixed[o] \/ pc[o] = "append")]
    BY <1>2 DEF Reset, Forget, Mix
  <2>2. \A u \in Threads \ {t} : mixed'[u] <=> (mixed[u] \/ pc[u] = "append")
    BY <2>1
  <2> QED
    BY <2>2 DEF Marked
<1>3. CASE AppendRecord(t) /\ ~(lastAcc' = lastAcc /\ mixed' = mixed)
  <2>1. mixed' = [o \in Threads |-> mixed[o] \/ (o # t /\ pc[o] = "append")]
    BY <1>3 DEF AppendRecord, list
  <2>2. \A u \in Threads \ {t} : mixed'[u] <=> (mixed[u] \/ pc[u] = "append")
    BY <2>1
  <2> QED
    BY <2>2 DEF Marked
<1>4. AskList(t) \/ CopyList(t) \/ MakeQuery(t) \/ OrderReply(t) \/ Lookup(t) \/ CheckAccId(t)
         \/ DefaultAccId(t) \/ AskUnlock(t) \/ Remember(t) \/ CheckAccSubPush(t)
         \/ SubAccPush(t) \/ Recall(t) \/ Unpack(t)
      => lastAcc' = lastAcc /\ mixed' = mixed
  BY DEF AskList, CopyList, MakeQuery, OrderReply, Lookup, CheckAccId, DefaultAccId, AskUnlock, Remember,
         CheckAccSubPush, SubAccPush, Recall, Unpack, list
<1> QED
  BY <1>1, <1>2, <1>3, <1>4 DEF Step

LEMMA SetupFixed ==
    ASSUME NEW t \in Threads, Step(t) PROVE setup' = setup
BY DEF Step, AskList, Reset, AppendRecord, CopyList, MakeQuery, OrderReply, Lookup, CheckAccId, DefaultAccId,
       AskUnlock, Remember, CheckAccSubPush, SubAccPush, Forget, Recall, Unpack, base

\* What holds of a thread goes on to hold while another one runs.
LEMMA OthersKept ==
    ASSUME setup' = setup, NEW t, Elsewhere(t), Marked(t), NEW u \in Threads \ {t},
           ThreadInv(u)
    PROVE  ThreadInv(u)'
<1>1. /\ pc'[u] = pc[u] /\ job'[u] = job[u] /\ back'[u] = back[u] /\ at'[u] = at[u]
      /\ acc'[u] = acc[u] /\ placed'[u] = placed[u]
  BY DEF Elsewhere
<1>2. Located(u)'
  BY <1>1 DEF ThreadInv, Located, Listing, Unlocking, Asking
<1>3. Own(u)'
  BY <1>1 DEF ThreadInv, Own, Asking, Keeps, Env, Listed
<1>4. Intact(u)'
  <2> SUFFICES ASSUME pc[u] = "append", ~mixed'[u] PROVE Intact(u)'
    BY <1>1 DEF Intact
  <2>1. lastAcc' = lastAcc /\ ~mixed[u]
    BY DEF Marked
  <2> QED
    BY <1>1, <2>1 DEF ThreadInv, Intact, Increasing, Elements, Keeps
<1>5. Right(u)'
  <2> SUFFICES ASSUME Asking(u), ~mixed'[u] PROVE Right(u)'
    BY <1>1 DEF Right, Asking
  <2>1. ~mixed[u]
    BY DEF Marked, Asking
  <2> QED
    BY <1>1, <2>1 DEF ThreadInv, Right, Asking, Keeps, Env
<1> QED
  BY <1>2, <1>3, <1>4, <1>5 DEF ThreadInv

-----------------------------------------------------------------------------
(***************************************************************************)
(* What a thread's step does to itself.                                    *)
(***************************************************************************)
\* A place where nothing is claimed of the list or of the account.
LEMMA Plain ==
    ASSUME NEW t \in Threads, pc'[t] \notin {"append", "query", "reply", "lookup", "remember"},
           at'[t] = 0, placed'[t] = "no", Listing(t)' => back'[t] # None,
           Unlocking(t)' => job'[t].what \in {"unlock", "auto", "lock"},
           job'[t].what = "order" => Listing(t)' /\ back'[t] = "choose"
    PROVE  ThreadInv(t)'
BY DEF ThreadInv, Located, Intact, Own, Right, Asking

LEMMA ReturnPlain ==
    ASSUME LocalTypes, NEW t \in Threads, NEW r, Return(t, r) PROVE ThreadInv(t)'
<1>1. pc'[t] = "idle" /\ at'[t] = 0 /\ placed'[t] = "no" /\ job'[t].what = "none"
  BY DEF Return, LocalTypes, NoJob
<1> QED
  BY <1>1, Plain DEF Listing, Unlocking

LEMMA SubscribeDonePlain ==
    ASSUME LocalTypes, NEW t \in Threads, SubscribeDone(t), ThreadInv(t),
           pc[t] \in {"list", "push"}
    PROVE  ThreadInv(t)'
<1>1. CASE job[t].what = "auto"
  <2>1. /\ pc' = [pc EXCEPT ![t] = "subscribe"] /\ UNCHANGED <<at, placed>>
        /\ job' = [job EXCEPT ![t] = [what |-> "fresh"]]
    BY <1>1 DEF SubscribeDone, Go, locals
  <2>2. /\ pc'[t] = "subscribe" /\ at'[t] = 0 /\ placed'[t] = "no"
        /\ job'[t].what = "fresh"
    BY <2>1 DEF LocalTypes, ThreadInv, Located
  <2> QED
    BY <2>2, Plain DEF Listing, Unlocking
<1>2. CASE job[t].what # "auto"
  BY <1>2, ReturnPlain DEF SubscribeDone
<1> QED
  BY <1>1, <1>2

\* In a list that is what get_acc_list means it to be, the place of a record among
\* those of its environment is its account's place among the accounts of it.
LEMMA RankIsPlace ==
    ASSUME SharedTypes, Count \in Nat, Increasing(lastAcc),
           Elements(lastAcc) = {i \in 1 .. Count : Keeps(i)},
           NEW k \in DOMAIN lastAcc
    PROVE  Cardinality({i \in 1 .. lastAcc[k] : Keeps(i) /\ Env(i) = Env(lastAcc[k])})
               = Rank(lastAcc, k)
<1> DEFINE A == {l \in 1 .. k : Env(lastAcc[l]) = Env(lastAcc[k])}
           B == {i \in 1 .. lastAcc[k] : Keeps(i) /\ Env(i) = Env(lastAcc[k])}
           f == [l \in A |-> lastAcc[l]]
<1>1. /\ DOMAIN lastAcc = 1 .. Len(lastAcc) /\ Len(lastAcc) \in Nat
      /\ k \in 1 .. Len(lastAcc) /\ \A l \in 1 .. Len(lastAcc) : lastAcc[l] \in 1 .. Count
  BY DEF SharedTypes, Listed, Count
<1>2. \A i, j \in 1 .. Len(lastAcc) : i < j => lastAcc[i] < lastAcc[j]
  BY <1>1 DEF Increasing
<1>3. \A i \in 1 .. Count : Keeps(i) <=> \E l \in 1 .. Len(lastAcc) : lastAcc[l] = i
  BY <1>1 DEF Elements
<1> HIDE DEF f
<1>4. ASSUME NEW l \in A PROVE lastAcc[l] \in B
  <2>1. l \in 1 .. Len(lastAcc) /\ l <= k
    BY <1>1
  <2>2. lastAcc[l] <= lastAcc[k]
    BY <1>1, <1>2, <2>1
  <2> QED
    BY <1>1, <1>3, <2>1, <2>2
<1>5. \A l, m \in A : lastAcc[l] = lastAcc[m] => l = m
  <2> SUFFICES ASSUME NEW l \in A, NEW m \in A, lastAcc[l] = lastAcc[m], l # m PROVE FALSE
    OBVIOUS
  <2>1. l \in 1 .. Len(lastAcc) /\ m \in 1 .. Len(lastAcc)
    BY <1>1
  <2> QED
    BY <1>1, <1>2, <2>1
<1>6. ASSUME NEW i \in B PROVE \E l \in A : lastAcc[l] = i
  <2>1. i \in 1 .. Count /\ i <= lastAcc[k]
    BY <1>1
  <2>2. PICK l \in 1 .. Len(lastAcc) : lastAcc[l] = i
    BY <1>3, <2>1
  <2>3. l <= k
    BY <1>1, <1>2, <2>1, <2>2
  <2> QED
    BY <2>2, <2>3
<1>7. f \in Bijection(A, B)
  <2>1. f \in [A -> B]
    BY <1>4 DEF f
  <2>2. \A l, m \in A : f[l] = f[m] => l = m
    BY <1>5 DEF f
  <2>3. \A i \in B : \E l \in A : f[l] = i
    BY <1>6 DEF f
  <2> HIDE DEF A, B
  <2> QED
    BY <2>1, <2>2, <2>3, Fun_IsBij
<1>8. IsFiniteSet(A)
  <2>1. IsFiniteSet(1 .. k) /\ A \subseteq 1 .. k
    BY <1>1, FS_Interval
  <2> QED
    BY <2>1, FS_Subset
<1>9. Cardinality(B) = Cardinality(A)
  <2> HIDE DEF A, B
  <2> QED
    BY <1>7, <1>8, FS_Bijection DEF ExistsBijection
<1> QED
  BY <1>9 DEF Rank

LEMMA ListOwn ==
    ASSUME TradeInv, NEW t \in Threads,
           AskList(t) \/ Reset(t) \/ AppendRecord(t) \/ CopyList(t) \/ Forget(t)
    PROVE  ThreadInv(t)'
<1>1. LocalTypes /\ SharedTypes /\ ThreadInv(t) /\ Count \in Nat /\ setup' = setup
  BY Types, CountType, SetupFixed DEF TradeInv, Step
<1>2. CASE AskList(t)
  <2>1. CASE Go(t, "reset") /\ UNCHANGED <<job, back, at, acc, placed>>
    <3>1. /\ pc'[t] = "reset" /\ back'[t] = back[t] /\ at'[t] = 0 /\ placed'[t] = "no"
          /\ job'[t] = job[t] /\ pc[t] = "list"
      BY <1>1, <1>2, <2>1 DEF AskList, Go, LocalTypes, ThreadInv, Located
    <3> QED
      BY <1>1, <3>1, Plain DEF Listing, Unlocking, ThreadInv, Located, Asking
  <2>2. CASE SubscribeDone(t) /\ pc[t] = "list"
    BY <1>1, <2>2, SubscribeDonePlain
  <2>3. CASE Return(t, "error")
    BY <1>1, <2>3, ReturnPlain
  <2> QED
    BY <1>2, <2>1, <2>2, <2>3 DEF AskList, locals
<1>3. CASE Reset(t)
  <2>1. /\ pc[t] = "reset" /\ pc' = [pc EXCEPT ![t] = "append"] /\ lastAcc' = <<>> /\ Mix(t)
        /\ UNCHANGED <<job, back, at, acc, placed>>
    BY <1>3 DEF Reset, Go, locals
  <2>2. pc'[t] = "append" /\ at'[t] = 0 /\ placed'[t] = "no" /\ back'[t] = back[t] /\ job'[t] = job[t]
    BY <1>1, <2>1 DEF LocalTypes, ThreadInv, Located
  <2>3. Located(t)'
    BY <1>1, <2>1, <2>2 DEF ThreadInv, Located, Listing, Unlocking, Asking
  <2>4. Intact(t)'
    <3>1. Increasing(<<>>) /\ Elements(<<>>) = {}
      BY DEF Increasing, Elements
    <3>2. Increasing(lastAcc') /\ Elements(lastAcc') = {}
      BY <2>1, <3>1
    <3>3. {i \in 1 .. at'[t] : Keeps(i)'} = {}
      BY <2>2
    <3> QED
      BY <3>2, <3>3 DEF Intact, Increasing, Elements
  <2> QED
    BY <2>2, <2>3, <2>4 DEF ThreadInv, Own, Right, Asking
<1>4. CASE Forget(t)
  <2>1. /\ pc[t] = "fresh" /\ pc' = [pc EXCEPT ![t] = "recall"]
        /\ UNCHANGED <<job, at, placed>>
    BY <1>4 DEF Forget, Go, locals
  <2>2. /\ pc'[t] = "recall" /\ at'[t] = 0 /\ placed'[t] = "no"
        /\ job'[t].what # "order"
    BY <1>1, <2>1 DEF LocalTypes, ThreadInv, Located, Listing, Asking
  <2> QED
    BY <2>2, Plain DEF Listing, Unlocking
<1>5. CASE AppendRecord(t)
  <2> DEFINE n == at[t] + 1
  <2>1. /\ pc[t] = "append" /\ at[t] < Count /\ at' = [at EXCEPT ![t] = @ + 1]
        /\ UNCHANGED <<pc, job, back, acc, placed>>
    BY <1>5 DEF AppendRecord, Count
  <2>2. at[t] \in 0 .. Count /\ n \in 1 .. Count /\ at'[t] = n
    BY <1>1, <2>1 DEF LocalTypes
  <2>3. Located(t)' /\ Own(t)' /\ Right(t)'
    BY <1>1, <2>1 DEF ThreadInv, Located, Listing, Unlocking, Own, Right, Asking
  <2>4. Intact(t)'
    <3> HIDE DEF n
    <3> SUFFICES ASSUME ~mixed'[t]
                 PROVE  Increasing(lastAcc') /\ Elements(lastAcc') = {i \in 1 .. n : Keeps(i)}
      BY <1>1, <2>1, <2>2 DEF Intact, Increasing, Elements, Keeps
    <3>1. mixed[t] <=> mixed'[t]
      <4>1. mixed' = mixed \/
               mixed' = [o \in Threads |-> mixed[o] \/ (o # t /\ pc[o] = "append")]
        BY <1>5 DEF AppendRecord, list
      <4> QED
        BY <4>1
    <3>2. Increasing(lastAcc) /\ Elements(lastAcc) = {i \in 1 .. at[t] : Keeps(i)}
      BY <1>1, <2>1, <3>1 DEF ThreadInv, Intact
    <3>3. /\ lastAcc \in Seq(1 .. Count) /\ Len(lastAcc) \in Nat
          /\ DOMAIN lastAcc = 1 .. Len(lastAcc)
      BY <1>1, CountType DEF SharedTypes, TradeInv
    <3>4. CASE ~Keeps(n)
      <4>1. lastAcc' = lastAcc
        BY <1>5, <3>4 DEF AppendRecord, list, n
      <4>2. {i \in 1 .. n : Keeps(i)} = {i \in 1 .. at[t] : Keeps(i)}
        BY <2>2, <3>4 DEF n
      <4> QED
        BY <3>2, <4>1, <4>2
    <3>5. CASE Keeps(n)
      <4> DEFINE new == Append(lastAcc, n)
      <4>1. lastAcc' = new
        BY <1>5, <3>5 DEF AppendRecord, n
      <4>2. /\ DOMAIN new = 1 .. Len(lastAcc) + 1
            /\ new[Len(lastAcc) + 1] = n
            /\ \A i \in 1 .. Len(lastAcc) : new[i] = lastAcc[i]
        BY <2>2, <3>3
      <4> HIDE DEF new
      <4>3. \A i \in 1 .. Len(lastAcc) : lastAcc[i] \in 1 .. at[t]
        BY <3>2, <3>3 DEF Elements
      <4>4. Increasing(new)
        <5> SUFFICES ASSUME NEW i \in DOMAIN new, NEW j \in DOMAIN new, i < j
                     PROVE  new[i] < new[j]
          BY DEF Increasing
        <5>1. i \in 1 .. Len(lastAcc)
          BY <3>3, <4>2
        <5>2. CASE j = Len(lastAcc) + 1
          BY <2>2, <4>2, <4>3, <5>1, <5>2 DEF n
        <5>3. CASE j # Len(lastAcc) + 1
          <6>1. j \in 1 .. Len(lastAcc)
            BY <3>3, <4>2, <5>3
          <6> QED
            BY <3>2, <3>3, <4>2, <5>1, <6>1 DEF Increasing
        <5> QED
          BY <5>2, <5>3
      <4>5. Elements(new) = Elements(lastAcc) \union {n}
        BY <3>3, <4>2 DEF Elements
      <4>6. {i \in 1 .. n : Keeps(i)} = {i \in 1 .. at[t] : Keeps(i)} \union {n}
        BY <2>2, <3>5 DEF n
      <4> QED
        BY <3>2, <4>1, <4>4, <4>5, <4>6
    <3> QED
      BY <3>4, <3>5
  <2> QED
    BY <2>3, <2>4 DEF ThreadInv
<1>6. CASE CopyList(t)
  <2>1. /\ pc[t] = "append" /\ at[t] = Count /\ lastAcc' = lastAcc /\ mixed' = mixed
    BY <1>6 DEF CopyList, list, Count
  <2>2. CASE Return(t, "error") \/ Return(t, "ok")
    BY <1>1, <2>2, ReturnPlain
  <2>3. CASE back[t] \notin {"choose", "return"}
    <3>1. /\ pc' = [pc EXCEPT ![t] = back[t]] /\ at' = [at EXCEPT ![t] = 0]
          /\ UNCHANGED <<job, back, placed>>
      BY <1>6, <2>3 DEF CopyList, Go
    <3>2. back[t] \in {"default", "push"}
      BY <1>1, <2>1, <2>3 DEF ThreadInv, Located, Listing, LocalTypes, Backs
    <3>3. /\ pc'[t] = back[t] /\ at'[t] = 0 /\ placed'[t] = "no" /\ job'[t] = job[t]
      BY <1>1, <2>1, <3>1 DEF LocalTypes, ThreadInv, Located
    <3>4. /\ pc'[t] = "default" => job[t].what \in {"unlock", "auto", "lock"}
          /\ job[t].what # "order"
      BY <1>1, <2>1, <2>3, <3>3 DEF ThreadInv, Located, Unlocking, Listing, Asking
    <3> QED
      BY <3>2, <3>3, <3>4, Plain DEF Listing, Unlocking
  <2>4. CASE back[t] = "choose" /\ ~Return(t, "error")
    <3>1. PICK k \in DOMAIN lastAcc :
             /\ Chosen(job[t], k)
             /\ acc' = [acc EXCEPT ![t] = lastAcc[k]]
             /\ Go(t, "query") /\ at' = [at EXCEPT ![t] = 0]
             /\ UNCHANGED <<job, back, placed>>
      BY <1>6, <2>4 DEF CopyList
    <3>2. /\ pc'[t] = "query" /\ at'[t] = 0 /\ placed'[t] = "no" /\ job'[t] = job[t]
          /\ acc'[t] = lastAcc[k]
      BY <1>1, <2>1, <3>1 DEF Go, LocalTypes, ThreadInv, Located
    <3>3. lastAcc[k] \in Listed /\ Keeps(lastAcc[k])
      BY <1>1, <3>1 DEF TradeInv, KeptList, Elements, SharedTypes
    <3>4. Located(t)' /\ Intact(t)'
      BY <3>2 DEF Located, Listing, Unlocking, Intact, Asking
    <3>5. Own(t)'
      <4>1. acc'[t] \in Listed /\ Keeps(acc'[t])
        BY <3>2, <3>3
      <4>2. Env(acc'[t]) = job'[t].env /\ (job'[t].id # 0 => acc'[t] = job'[t].id)
        BY <3>1, <3>2 DEF Chosen
      <4> QED
        BY <1>1, <4>1, <4>2 DEF Own, Listed, Keeps, Env
    <3>6. Right(t)'
      <4> SUFFICES ASSUME job[t].id = 0, ~mixed[t]
                   PROVE  Cardinality({i \in 1 .. acc'[t] : Keeps(i) /\ Env(i) = job[t].env})
                              = job[t].index + 1
        BY <1>1, <2>1, <3>2 DEF Right, Keeps, Env
      <4>1. Env(lastAcc[k]) = job[t].env /\ Rank(lastAcc, k) = job[t].index + 1
        BY <3>1 DEF Chosen
      <4>2. Increasing(lastAcc) /\ Elements(lastAcc) = {i \in 1 .. Count : Keeps(i)}
        BY <1>1, <2>1 DEF ThreadInv, Intact
      <4>3. Cardinality({i \in 1 .. lastAcc[k] : Keeps(i) /\ Env(i) = Env(lastAcc[k])})
                = Rank(lastAcc, k)
        BY <1>1, <4>2, RankIsPlace
      <4> QED
        BY <3>2, <4>1, <4>3
    <3> QED
      BY <3>4, <3>5, <3>6 DEF ThreadInv
  <2> QED
    BY <1>6, <2>2, <2>3, <2>4 DEF CopyList
<1> QED
  BY <1>2, <1>3, <1>4, <1>5, <1>6

LEMMA StepOwn ==
    ASSUME TradeInv, NEW t \in Threads, Step(t) PROVE ThreadInv(t)'
<1>1. LocalTypes /\ SharedTypes /\ ThreadInv(t) /\ setup' = setup
  BY Types, SetupFixed DEF TradeInv
<1>2. CASE AskList(t) \/ Reset(t) \/ AppendRecord(t) \/ CopyList(t) \/ Forget(t)
  BY <1>2, ListOwn
<1>3. CASE \E r : Return(t, r)
  BY <1>1, <1>3, ReturnPlain
<1>4. CASE (MakeQuery(t) \/ OrderReply(t)) /\ ~\E r : Return(t, r)
  <2>1. /\ UNCHANGED <<job, back, at, acc, mixed>>
        /\ \/ /\ pc[t] = "query" /\ placed' = [placed EXCEPT ![t] = "accepted"]
              /\ pc' = [pc EXCEPT ![t] = "reply"]
           \/ /\ pc[t] = "reply" /\ placed' = [placed EXCEPT ![t] = "answered"]
              /\ pc' = [pc EXCEPT ![t] = "lookup"]
    BY <1>4 DEF MakeQuery, OrderReply, Go, list
  <2>2. \/ pc'[t] = "reply" /\ placed'[t] = "accepted"
        \/ pc'[t] = "lookup" /\ placed'[t] = "answered"
    BY <1>1, <2>1 DEF LocalTypes
  <2>3. Located(t)' /\ Intact(t)'
    BY <1>1, <2>1, <2>2 DEF ThreadInv, Located, Listing, Unlocking, Intact, Asking
  <2>4. Own(t)' /\ Right(t)'
    BY <1>1, <2>1, <2>2 DEF ThreadInv, Own, Right, Asking, Listed, Keeps, Env
  <2> QED
    BY <2>3, <2>4 DEF ThreadInv
<1>5. CASE Lookup(t) /\ ~\E r : Return(t, r)
  <2>1. /\ pc[t] = "lookup" /\ UNCHANGED <<pc, job, back, at, acc, placed, mixed>>
    BY <1>5 DEF Lookup, list
  <2>2. Located(t)' /\ Intact(t)'
    BY <1>1, <2>1 DEF ThreadInv, Located, Listing, Unlocking, Intact, Asking
  <2>3. Own(t)' /\ Right(t)'
    BY <1>1, <2>1 DEF ThreadInv, Own, Right, Asking, Listed, Keeps, Env
  <2> QED
    BY <2>2, <2>3 DEF ThreadInv
<1>6. CASE CheckAccId(t)
  <2>1. /\ pc[t] = "account" /\ UNCHANGED <<job, at, placed>>
        /\ \/ pc' = [pc EXCEPT ![t] = "list"] /\ back' = [back EXCEPT ![t] = "default"]
           \/ pc' = [pc EXCEPT ![t] = "default"]
    BY <1>6 DEF CheckAccId, Go, locals
  <2>2. /\ pc'[t] \in {"list", "default"} /\ at'[t] = 0 /\ placed'[t] = "no" /\ job'[t] = job[t]
        /\ pc'[t] = "list" => back'[t] = "default"
    BY <1>1, <2>1 DEF LocalTypes, ThreadInv, Located
  <2>3. job[t].what \in {"unlock", "auto", "lock"}
    BY <1>1, <2>1 DEF ThreadInv, Located, Unlocking
  <2> QED
    BY <2>2, <2>3, Plain DEF Listing, Unlocking, None
<1>7. CASE DefaultAccId(t) /\ ~\E r : Return(t, r)
  <2>1. /\ pc[t] = "default" /\ UNCHANGED <<job, at, placed>>
        /\ pc' = [pc EXCEPT ![t] = "unlock"]
    BY <1>7 DEF DefaultAccId, Go, locals
  <2>2. pc'[t] = "unlock" /\ at'[t] = 0 /\ placed'[t] = "no" /\ job'[t] = job[t]
    BY <1>1, <2>1 DEF LocalTypes, ThreadInv, Located
  <2>3. job[t].what \in {"unlock", "auto", "lock"}
    BY <1>1, <2>1 DEF ThreadInv, Located, Unlocking
  <2> QED
    BY <2>2, <2>3, Plain DEF Listing
<1>8. CASE AskUnlock(t) /\ ~\E r : Return(t, r)
  <2>1. /\ pc[t] = "unlock" /\ UNCHANGED <<job, at, placed>>
        /\ pc' = [pc EXCEPT ![t] = "remember"]
        /\ job[t].what # "lock" => job[t].password = "right"
    BY <1>8 DEF AskUnlock, Go, locals
  <2>2. pc'[t] = "remember" /\ at'[t] = 0 /\ placed'[t] = "no" /\ job'[t] = job[t]
    BY <1>1, <2>1 DEF LocalTypes, ThreadInv, Located
  <2>3. job[t].what \in {"unlock", "auto", "lock"}
    BY <1>1, <2>1 DEF ThreadInv, Located, Unlocking
  <2>4. Located(t)'
    BY <2>1, <2>2, <2>3 DEF Located, Listing, Unlocking, Asking
  <2> QED
    BY <2>2, <2>4 DEF ThreadInv, Intact, Own, Right, Asking
<1>9. CASE (Remember(t) \/ Recall(t)) /\ ~\E r : Return(t, r)
  <2>1. /\ pc[t] \in {"remember", "recall"} /\ UNCHANGED <<at, placed>>
        /\ \E to \in {"subscribe", "unpack"} : pc' = [pc EXCEPT ![t] = to]
        /\ job' = job \/ job' = [job EXCEPT ![t] = [what |-> "fresh"]]
    BY <1>9 DEF Remember, Recall, Go, locals
  <2>2. /\ pc'[t] \in {"subscribe", "unpack"} /\ at'[t] = 0 /\ placed'[t] = "no"
        /\ job[t].what # "order"
    BY <1>1, <2>1 DEF LocalTypes, ThreadInv, Located, Listing, Asking
  <2>3. job'[t].what # "order"
    BY <1>1, <2>1, <2>2 DEF LocalTypes
  <2> QED
    BY <2>2, <2>3, Plain DEF Listing, Unlocking
<1>10. CASE CheckAccSubPush(t)
  <2>1. /\ pc[t] = "subscribe" /\ UNCHANGED <<job, at, placed>>
        /\ \/ pc' = [pc EXCEPT ![t] = "list"] /\ back' = [back EXCEPT ![t] = "push"]
           \/ pc' = [pc EXCEPT ![t] = "push"]
    BY <1>10 DEF CheckAccSubPush, Go, locals
  <2>2. /\ pc'[t] \in {"list", "push"} /\ at'[t] = 0 /\ placed'[t] = "no"
        /\ pc'[t] = "list" => back'[t] = "push"
        /\ job'[t].what # "order"
    BY <1>1, <2>1 DEF LocalTypes, ThreadInv, Located, Listing, Asking
  <2> QED
    BY <2>2, Plain DEF Listing, Unlocking, None
<1>11. CASE SubAccPush(t)
  BY <1>1, <1>11, SubscribeDonePlain DEF SubAccPush
<1>12. CASE Unpack(t) /\ ~\E r : Return(t, r)
  <2>1. /\ pc[t] = "unpack" /\ UNCHANGED <<at, placed>>
        /\ pc' = [pc EXCEPT ![t] = "account"]
        /\ job' = [job EXCEPT ![t] = [what |-> "auto", password |-> ctxUnlock]]
    BY <1>12 DEF Unpack, Go, locals
  <2>2. pc'[t] = "account" /\ at'[t] = 0 /\ placed'[t] = "no" /\ job'[t].what = "auto"
    BY <1>1, <2>1 DEF LocalTypes, ThreadInv, Located
  <2> QED
    BY <2>2, Plain DEF Listing
<1> QED
  BY <1>2, <1>3, <1>4, <1>5, <1>6, <1>7, <1>8, <1>9, <1>10, <1>11, <1>12 DEF Step

-----------------------------------------------------------------------------
(***************************************************************************)
(* What is shared.                                                         *)
(***************************************************************************)
\* An account without a market is not kept, unless the context is for any market.
LEMMA KeptHasMarket ==
    ASSUME NEW i, Keeps(i), setup.market # "NONE" PROVE setup.listed[i].markets # {}
BY DEF Keeps

LEMMA StepShared ==
    ASSUME TradeInv, NEW t \in Threads, Step(t)
    PROVE  KeptList' /\ KeptPush' /\ NotBegun' /\ OrderReported'
<1>1. LocalTypes /\ SharedTypes /\ ThreadInv(t) /\ setup' = setup
  BY Types, SetupFixed DEF TradeInv
<1>2. \A i : Keeps(i)' <=> Keeps(i)
  BY <1>1 DEF Keeps
<1>3. KeptList'
  <2>1. CASE Reset(t) \/ Forget(t)
    <3>1. lastAcc' = <<>>
      BY <2>1 DEF Reset, Forget
    <3> QED
      BY <3>1 DEF KeptList, Elements
  <2>2. CASE AppendRecord(t) /\ lastAcc' # lastAcc
    <3>1. /\ lastAcc' = Append(lastAcc, at[t] + 1) /\ Keeps(at[t] + 1)
      BY <2>2 DEF AppendRecord, list
    <3>2. Len(lastAcc) \in Nat /\ DOMAIN lastAcc = 1 .. Len(lastAcc)
      BY <1>1 DEF SharedTypes
    <3>3. Elements(lastAcc') \subseteq Elements(lastAcc) \union {at[t] + 1}
      BY <1>1, <3>1, <3>2 DEF Elements, SharedTypes
    <3> QED
      BY <1>2, <3>1, <3>3 DEF TradeInv, KeptList
  <2>3. CASE lastAcc' = lastAcc
    BY <1>2, <2>3 DEF TradeInv, KeptList, Elements
  <2>4. Reset(t) \/ Forget(t) \/ AppendRecord(t) \/ lastAcc' = lastAcc
    BY DEF Step, AskList, CopyList, MakeQuery, OrderReply, Lookup, CheckAccId, DefaultAccId, AskUnlock,
           Remember, CheckAccSubPush, SubAccPush, Recall, Unpack, list
  <2> QED
    BY <2>1, <2>2, <2>3, <2>4
<1>4. KeptPush'
  <2>1. gPush' \in {gPush, {}, Elements(lastAcc)}
    BY DEF Step, AskList, Reset, AppendRecord, CopyList, MakeQuery, OrderReply, Lookup, CheckAccId,
           DefaultAccId, AskUnlock, Remember, CheckAccSubPush, SubAccPush, Forget, Recall,
           Unpack, Down, gate
  <2> QED
    BY <1>2, <2>1 DEF TradeInv, KeptPush, KeptList
<1>5. NotBegun'
  <2>1. session' = session
    BY DEF Step, AskList, Reset, AppendRecord, CopyList, MakeQuery, OrderReply, Lookup, CheckAccId,
           DefaultAccId, AskUnlock, Remember, CheckAccSubPush, SubAccPush, Forget, Recall,
           Unpack, base
  <2>2. pc[t] # "idle"
    BY DEF Step, AskList, Reset, AppendRecord, CopyList, MakeQuery, OrderReply, Lookup, CheckAccId,
           DefaultAccId, AskUnlock, Remember, CheckAccSubPush, SubAccPush, Forget, Recall,
           Unpack
  <2>3. \A u \in Threads \ {t} : pc'[u] = pc[u]
    BY <1>1, StepElsewhere DEF Elsewhere
  <2> QED
    BY <2>1, <2>2, <2>3 DEF TradeInv, NotBegun, Threads
<1>6. OrderReported'
  <2> SUFFICES ASSUME setup.market # "NONE" PROVE ~misreported'
    BY <1>1 DEF OrderReported
  <2>1. ~misreported
    BY DEF TradeInv, OrderReported
  <2>2. CASE pc[t] = "lookup"
    <3>1. Lookup(t)
      BY <2>2 DEF Step, AskList, Reset, AppendRecord, CopyList, MakeQuery, OrderReply, CheckAccId,
             DefaultAccId, AskUnlock, Remember, CheckAccSubPush, SubAccPush, Forget, Recall,
             Unpack
    <3>2. ~Raises(t) /\ placed[t] = "answered"
      BY <1>1, <2>2, KeptHasMarket DEF ThreadInv, Own, Asking, Raises, Located
    <3>3. misreported' = misreported \/ Return(t, "ok")
      BY <3>1, <3>2 DEF Lookup
    <3> QED
      BY <2>1, <3>2, <3>3 DEF Return, Misreports
  <2>3. CASE pc[t] # "lookup" /\ ~\E r : Return(t, r)
    BY <2>1, <2>3 DEF Step, AskList, Reset, AppendRecord, CopyList, MakeQuery, OrderReply, Lookup,
           CheckAccId, DefaultAccId, AskUnlock, Remember, CheckAccSubPush, SubAccPush, Forget,
           Recall, Unpack, SubscribeDone, locals
  <2>4. CASE pc[t] # "lookup" /\ \E r : Return(t, r)
    <3>1. PICK r : Return(t, r)
      BY <2>4
    <3>2. placed[t] # "answered"
      BY <1>1, <2>4 DEF ThreadInv, Located
    <3>3. CASE job[t].what = "order"
      <4>1. \/ pc[t] \in {"query", "reply"}
            \/ pc[t] \in {"list", "reset", "append"} /\ back[t] = "choose"
        BY <1>1, <2>4, <3>3 DEF ThreadInv, Located, Asking, Listing
      <4>2. pc'[t] = "idle"
        BY <1>1, <3>1 DEF Return, LocalTypes
      <4>3. \/ AskList(t) \/ CopyList(t) \/ MakeQuery(t) \/ OrderReply(t)
        <5>1. ~Reset(t)
          BY <1>1, <4>2 DEF Reset, Go, LocalTypes
        <5>2. ~AppendRecord(t)
          BY <4>2 DEF AppendRecord
        <5> QED
          BY <4>1, <5>1, <5>2 DEF Step, Lookup, CheckAccId, DefaultAccId, AskUnlock, Remember,
                 CheckAccSubPush, SubAccPush, Forget, Recall, Unpack
      <4>4. CASE AskList(t)
        <5>1. ~Go(t, "reset")
          BY <1>1, <4>2 DEF Go, LocalTypes
        <5>2. Return(t, "error")
          BY <4>1, <4>4, <5>1 DEF AskList
        <5> QED
          BY <2>1, <3>2, <5>2 DEF Return, Misreports
      <4>5. CASE CopyList(t)
        <5>1. ~Go(t, "query")
          BY <1>1, <4>2 DEF Go, LocalTypes
        <5>2. Return(t, "error")
          BY <4>1, <4>5, <5>1 DEF CopyList
        <5> QED
          BY <2>1, <3>2, <5>2 DEF Return, Misreports
      <4>6. CASE MakeQuery(t) \/ OrderReply(t)
        <5>1. ~Go(t, "reply") /\ ~Go(t, "lookup")
          BY <1>1, <4>2 DEF Go, LocalTypes
        <5>2. Return(t, "error") \/ Return(t, "raised")
          BY <3>3, <4>6, <5>1 DEF MakeQuery, OrderReply
        <5> QED
          BY <2>1, <3>2, <5>2 DEF Return, Misreports
      <4> QED
        BY <4>3, <4>4, <4>5, <4>6
    <3>4. CASE job[t].what # "order"
      BY <2>1, <3>1, <3>4 DEF Return, Misreports
    <3> QED
      BY <3>3, <3>4
  <2> QED
    BY <2>2, <2>3, <2>4
<1> QED
  BY <1>3, <1>4, <1>5, <1>6

-----------------------------------------------------------------------------
(***************************************************************************)
(* The invariant is kept.                                                  *)
(***************************************************************************)
LEMMA InitInvariant == TradeInit => TradeInv
<1> SUFFICES ASSUME TradeInit PROVE TradeInv
  OBVIOUS
<1> USE DEF TradeInit
<1>1. setup.listed \in Seq(AccountType) /\ Len(setup.listed) \in Nat
  OBVIOUS
<1>2. NoJob \in JobType /\ <<>> \in Seq(Listed)
  BY DEF NoJob, JobType
<1>3. TradeTypeOK
  <2>1. /\ pc \in [Threads -> Pcs] /\ job \in [Threads -> JobType]
        /\ back \in [Threads -> Backs] /\ at \in [Threads -> 0 .. Len(setup.listed)]
    BY <1>1, <1>2 DEF Pcs, Backs
  <2>2. /\ acc \in [Threads -> 0 .. Len(setup.listed)] /\ tries \in [Threads -> 0 .. 2]
        /\ placed \in [Threads -> {"no", "accepted", "answered"}] /\ mixed \in [Threads -> BOOLEAN]
    BY <1>1
  <2>3. session \in 0 .. MaxSessions /\ calls \in 0 .. MaxCalls
    OBVIOUS
  <2>4. /\ setup \in Setups /\ active \subseteq Users /\ lastAcc \in Seq(Listed)
        /\ gPush \subseteq Listed
    BY <1>2
  <2>5. /\ up \in BOOLEAN /\ ctxUnlock \in {None, "right"} /\ gUnlocked \in BOOLEAN
        /\ misreported \in BOOLEAN /\ calm \in BOOLEAN
    OBVIOUS
  <2> QED
    BY <2>1, <2>2, <2>3, <2>4, <2>5 DEF TradeTypeOK, Pcs, Backs
<1>4. KeptList /\ KeptPush /\ NotBegun /\ OrderReported
  BY DEF KeptList, Elements, KeptPush, NotBegun, Threads, OrderReported
<1>5. ASSUME NEW t \in Threads PROVE ThreadInv(t)
  BY DEF ThreadInv, Located, Listing, Unlocking, Intact, Own, Right, Asking, NoJob
<1> QED
  BY <1>3, <1>4, <1>5 DEF TradeInv

LEMMA StepInvariant ==
    ASSUME TradeInv, NEW t \in Threads, Step(t) PROVE TradeInv'
<1>1. LocalTypes /\ SharedTypes /\ setup' = setup
  BY Types, SetupFixed DEF TradeInv
<1>2. Elsewhere(t) /\ Marked(t)
  BY <1>1, StepElsewhere, StepMarked
<1>3. ASSUME NEW u \in Threads PROVE ThreadInv(u)'
  <2>1. CASE u = t
    BY <2>1, StepOwn
  <2>2. CASE u # t
    BY <1>1, <1>2, <2>2, OthersKept DEF TradeInv
  <2> QED
    BY <2>1, <2>2
<1> QED
  BY <1>3, StepTypes, StepShared DEF TradeInv

LEMMA CallInvariant ==
    ASSUME TradeInv, NEW t \in Users, Call(t) PROVE TradeInv'
<1>1. LocalTypes /\ SharedTypes /\ TradeTypeOK
  BY Types DEF TradeInv
<1>2. PICK j \in JobType :
         \/ j.what \in {"auth", "code", "order"} /\ Begin(t, j, "list", "choose")
         \/ j.what = "list" /\ Begin(t, j, "list", "return")
         \/ j.what \in {"unlock", "lock"} /\ Begin(t, j, "account", None)
  BY CallKinds
<1>3. /\ t \in Threads /\ pc[t] = "idle" /\ job' = [job EXCEPT ![t] = j]
      /\ \/ /\ pc' = [pc EXCEPT ![t] = "list"]
            /\ \/ back' = [back EXCEPT ![t] = "choose"]
               \/ j.what = "list" /\ back' = [back EXCEPT ![t] = "return"]
         \/ pc' = [pc EXCEPT ![t] = "account"] /\ j.what \in {"unlock", "lock"}
      /\ back' = back \/ (\E b : back' = [back EXCEPT ![t] = b])
      /\ UNCHANGED <<setup, session, lastAcc, mixed, gPush, at, acc, placed, misreported>>
  BY <1>2 DEF Begin, Go, list, gate, locals, Threads
<1>4. Elsewhere(t) /\ Marked(t)
  BY <1>1, <1>3 DEF Elsewhere, Marked, LocalTypes
<1>5. ThreadInv(t)'
  <2>1. /\ pc'[t] \in {"list", "account"} /\ at'[t] = 0 /\ placed'[t] = "no"
        /\ pc'[t] = "list" => back'[t] \in {"choose", "return"}
        /\ pc'[t] = "account" => job'[t].what \in {"unlock", "lock"}
        /\ job'[t].what = "order" => pc'[t] = "list" /\ back'[t] = "choose"
    BY <1>1, <1>3 DEF LocalTypes, TradeInv, ThreadInv, Located
  <2> QED
    BY <1>3, <2>1, Plain DEF Listing, Unlocking, None
<1>6. ASSUME NEW u \in Threads PROVE ThreadInv(u)'
  <2>1. CASE u # t
    BY <1>3, <1>4, <2>1, OthersKept DEF TradeInv
  <2> QED
    BY <1>5, <2>1
<1>7. KeptList' /\ KeptPush' /\ OrderReported'
  BY <1>3 DEF TradeInv, KeptList, KeptPush, OrderReported, Elements, Keeps
<1>8. NotBegun'
  <2>1. \A u \in Reconnecting : u # t /\ u \in Threads
    BY DEF Threads
  <2> QED
    BY <1>3, <1>4, <2>1 DEF TradeInv, NotBegun, Elsewhere
<1> QED
  BY <1>1, <1>6, <1>7, <1>8, CallTypes DEF TradeInv

LEMMA SessionUpInvariant == TradeInv /\ SessionUp => TradeInv'
<1> SUFFICES ASSUME TradeInv, SessionUp PROVE TradeInv'
  OBVIOUS
<1>1. LocalTypes /\ SharedTypes
  BY Types DEF TradeInv
<1>2. /\ session < MaxSessions /\ up' = TRUE /\ session' = session + 1
      /\ pc' = [pc EXCEPT ![session + 1] = "fresh"] /\ calm' \in BOOLEAN
      /\ UNCHANGED <<setup, calls, active, lastAcc, mixed, ctxUnlock, gUnlocked, gPush, job,
                     back, at, acc, tries, placed, misreported>>
  BY DEF SessionUp, Quiet, list, gate, locals
<1>3. PICK t \in Threads : /\ t = session + 1 /\ session \in Nat
                           /\ t \in Reconnecting /\ t > session
  BY <1>1, <1>2 DEF SharedTypes, Reconnecting, Threads
<1>4. pc[t] = "idle"
  BY <1>3 DEF TradeInv, NotBegun
<1>5. TradeTypeOK'
  <2>1. LocalTypes'
    BY <1>1, <1>2 DEF LocalTypes, Count, Pcs
  <2>2. SharedTypes'
    BY <1>1, <1>2 DEF SharedTypes, Listed
  <2> QED
    BY <2>1, <2>2, Types
<1>6. pc' = [pc EXCEPT ![t] = "fresh"]
  BY <1>2, <1>3
<1>7. Elsewhere(t) /\ Marked(t)
  BY <1>1, <1>2, <1>6 DEF Elsewhere, Marked, LocalTypes
<1>8. ThreadInv(t)'
  <2>1. /\ pc'[t] = "fresh" /\ at'[t] = 0 /\ placed'[t] = "no"
        /\ job'[t].what # "order"
    BY <1>1, <1>2, <1>3, <1>4, <1>6
       DEF LocalTypes, TradeInv, ThreadInv, Located, Listing, Asking
  <2> QED
    BY <1>3, <2>1, Plain DEF Listing, Unlocking
<1>9. ASSUME NEW u \in Threads PROVE ThreadInv(u)'
  <2>1. CASE u # t
    BY <1>2, <1>7, <2>1, OthersKept DEF TradeInv
  <2> QED
    BY <1>8, <2>1
<1>10. KeptList' /\ KeptPush' /\ OrderReported'
  BY <1>2 DEF TradeInv, KeptList, KeptPush, OrderReported, Elements, Keeps
<1>11. NotBegun'
  <2> SUFFICES ASSUME NEW u \in Reconnecting, u > session' PROVE pc'[u] = "idle"
    BY DEF NotBegun, Reconnecting
  <2>1. u # t /\ u > session /\ u \in Threads
    BY <1>2, <1>3 DEF Reconnecting, Threads
  <2> QED
    BY <1>7, <2>1 DEF TradeInv, NotBegun, Elsewhere
<1> QED
  BY <1>5, <1>9, <1>10, <1>11 DEF TradeInv

\* A step that is no thread's: SessionDown, or none.
LEMMA SessionDownInvariant ==
    ASSUME TradeInv,
           UNCHANGED <<setup, session, calls, active, lastAcc, mixed, ctxUnlock, pc, job, back,
                       at, acc, tries, placed, misreported>>,
           up' \in BOOLEAN, gUnlocked' \in BOOLEAN, calm' \in BOOLEAN, gPush' \in {{}, gPush}
    PROVE  TradeInv'
<1>1. LocalTypes /\ SharedTypes
  BY Types DEF TradeInv
<1>2. TradeTypeOK'
  <2>1. LocalTypes'
    BY <1>1 DEF LocalTypes, Count
  <2>2. SharedTypes'
    BY <1>1 DEF SharedTypes, Listed
  <2> QED
    BY <2>1, <2>2, Types
<1>3. KeptList' /\ KeptPush' /\ OrderReported' /\ NotBegun'
  BY DEF TradeInv, KeptList, KeptPush, OrderReported, NotBegun, Elements, Keeps
<1>4. ASSUME NEW u \in Threads PROVE ThreadInv(u)'
  <2>1. ThreadInv(u)
    BY DEF TradeInv
  <2>2. Located(u)'
    BY <2>1 DEF ThreadInv, Located, Listing, Unlocking, Asking
  <2>3. Intact(u)'
    BY <2>1 DEF ThreadInv, Intact, Increasing, Elements, Keeps
  <2>4. Own(u)' /\ Right(u)'
    BY <2>1 DEF ThreadInv, Own, Right, Asking, Listed, Keeps, Env
  <2> QED
    BY <2>2, <2>3, <2>4 DEF ThreadInv
<1> QED
  BY <1>2, <1>3, <1>4 DEF TradeInv

LEMMA Invariance == TradeSpec => []TradeInv
<1>1. TradeInv /\ [TradeNext]_tradeVars => TradeInv'
  <2> SUFFICES ASSUME TradeInv, [TradeNext]_tradeVars PROVE TradeInv'
    OBVIOUS
  <2>1. CASE SessionDown
    <3>1. SharedTypes
      BY Types DEF TradeInv
    <3> QED
      BY <2>1, <3>1, SessionDownInvariant
         DEF SessionDown, Down, list, here, locals, SharedTypes, Quiet
  <2>2. CASE UNCHANGED tradeVars
    <3>1. SharedTypes
      BY Types DEF TradeInv
    <3> QED
      BY <2>2, <3>1, SessionDownInvariant
         DEF tradeVars, base, list, gate, here, locals, SharedTypes
  <2> QED
    BY <2>1, <2>2, CallInvariant, StepInvariant, SessionUpInvariant DEF TradeNext
<1> QED
  BY <1>1, InitInvariant, PTL DEF TradeSpec

-----------------------------------------------------------------------------
(***************************************************************************)
(* What a new session restores.                                            *)
(*                                                                         *)
(* While one thread at a time is active and no query fails, where that     *)
(* thread is tells how far the session has got: whether it is unlocked     *)
(* already, whether its accounts are subscribed, what the list is.         *)
(***************************************************************************)
Kept == {i \in Listed : Keeps(i)}

RealKept == \E i \in Kept : Env(i) = "REAL"

AboutAccount(t) == job[t].what \in {"auth", "code", "order"}

\* What a thread does where. The trade is unlocked for an account only.
Errand(t) ==
    /\ Listing(t) /\ back[t] = "choose" => AboutAccount(t)
    /\ Listing(t) /\ back[t] = "return" => job[t].what = "list"
    /\ Asking(t) => AboutAccount(t)
    /\ pc[t] \in {"unlock", "remember"} /\ job[t].what # "lock" => RealKept

Arriving(t) == pc[t] \in {"fresh", "recall", "unpack"}

Relocking(t) == Unlocking(t) /\ job[t].what = "auto"

Restoring(t) == Arriving(t) \/ job[t].what \in {"auto", "fresh"}

ListKnown == lastAcc = <<>> \/ Elements(lastAcc) = Kept

Synced == gUnlocked <=> ctxUnlock # None

AtRest == ListKnown /\ Synced /\ gPush = Kept

\* The only active thread, in a session without mishaps.
ListAtWork(t) ==
    /\ pc[t] = "append" => ~mixed[t]
    /\ pc[t] \notin {"fresh", "append"} => ListKnown
    /\ pc[t] \in {"default", "push"} => Elements(lastAcc) = Kept

LockAtWork(t) ==
    /\ Arriving(t) \/ Relocking(t) => ~gUnlocked
    /\ pc[t] = "unpack" \/ Relocking(t) => ctxUnlock # None
    /\ Relocking(t) => job[t].password = "right"
    /\ pc[t] = "remember" => (gUnlocked <=> job[t].what # "lock")
    /\ ~Arriving(t) /\ ~Relocking(t) /\ pc[t] # "remember" => Synced

PushAtWork(t) ==
    /\ gPush \in {{}, Kept}
    /\ ~Restoring(t) => gPush = Kept

AtWork(t) == ListAtWork(t) /\ LockAtWork(t) /\ PushAtWork(t)

Settled(t) == (pc[t] = "idle" /\ AtRest) \/ (pc[t] # "idle" /\ AtWork(t))

Alone(t) == \A o \in Threads \ {t} : pc[o] = "idle"

CalmInv ==
    up /\ calm =>
        \/ Quiet(Threads) /\ AtRest
        \/ \E t \in Threads : pc[t] # "idle" /\ Alone(t) /\ AtWork(t)

SessionInv ==
    /\ \A t \in Threads : Errand(t)
    /\ ctxUnlock # None => RealKept
    /\ ~up => ~gUnlocked /\ gPush = {}
    /\ CalmInv

LEMMA EmptyList == Elements(<<>>) = {}
BY DEF Elements

LEMMA SameAccounts == setup' = setup => Kept' = Kept /\ (RealKept' <=> RealKept)
BY DEF Kept, RealKept, Listed, Keeps, Env

\* Only get_acc_list and Forget write the list.
LEMMA ListWriters ==
    ASSUME NEW t \in Threads, Step(t), ~Reset(t), ~AppendRecord(t), ~Forget(t)
    PROVE  lastAcc' = lastAcc /\ mixed' = mixed
BY DEF Step, AskList, CopyList, MakeQuery, OrderReply, Lookup, CheckAccId, DefaultAccId, AskUnlock, Remember,
       CheckAccSubPush, SubAccPush, Recall, Unpack, list

\* The state a thread's step leaves it in, where it has its say.
LEMMA WhereReturn ==
    ASSUME LocalTypes, NEW t \in Threads, NEW r, Return(t, r) PROVE pc'[t] = "idle"
BY DEF Return, LocalTypes

LEMMA WhereGo ==
    ASSUME LocalTypes, NEW t \in Threads, NEW to, Go(t, to) PROVE pc'[t] = to
BY DEF Go, LocalTypes

-----------------------------------------------------------------------------
\* What each thread does where.
LEMMA ErrandPlain ==
    ASSUME NEW t, pc'[t] \notin {"query", "reply", "lookup", "unlock", "remember"},
           pc'[t] \in {"list", "reset", "append"} => back'[t] \notin {"choose", "return"}
    PROVE  Errand(t)'
BY DEF Errand, Listing, Asking

LEMMA OthersErrand ==
    ASSUME setup' = setup, NEW t, Elsewhere(t), NEW u \in Threads \ {t}, Errand(u)
    PROVE  Errand(u)'
<1>1. pc'[u] = pc[u] /\ job'[u] = job[u] /\ back'[u] = back[u]
  BY DEF Elsewhere
<1> QED
  BY <1>1, SameAccounts DEF Errand, Listing, Asking, AboutAccount

LEMMA StepErrand ==
    ASSUME TradeInv, NEW t \in Threads, Errand(t), Step(t) PROVE Errand(t)'
<1>1. LocalTypes /\ SharedTypes /\ ThreadInv(t) /\ setup' = setup
  BY Types, SetupFixed DEF TradeInv
<1>2. RealKept' <=> RealKept
  BY <1>1, SameAccounts
<1>3. CASE \E r : Return(t, r)
  <2>1. pc'[t] = "idle"
    BY <1>1, <1>3, WhereReturn
  <2> QED
    BY <2>1, ErrandPlain
<1>4. CASE SubscribeDone(t) /\ ~\E r : Return(t, r)
  <2>1. pc'[t] = "subscribe"
    BY <1>1, <1>4, WhereGo DEF SubscribeDone
  <2> QED
    BY <2>1, ErrandPlain
<1>5. CASE AskList(t) /\ Go(t, "reset") /\ UNCHANGED <<job, back>>
  <2>1. pc'[t] = "reset" /\ pc[t] = "list"
    BY <1>1, <1>5, WhereGo DEF AskList
  <2> QED
    BY <1>5, <2>1 DEF Errand, Listing, Asking, AboutAccount
<1>6. CASE Reset(t)
  <2>1. pc'[t] = "append" /\ pc[t] = "reset" /\ UNCHANGED <<job, back>>
    BY <1>1, <1>6, WhereGo DEF Reset
  <2> QED
    BY <2>1 DEF Errand, Listing, Asking, AboutAccount
<1>7. CASE AppendRecord(t)
  <2>1. UNCHANGED <<pc, job, back>> /\ pc[t] = "append"
    BY <1>7 DEF AppendRecord
  <2> QED
    BY <2>1 DEF Errand, Listing, Asking, AboutAccount
<1>8. CASE CopyList(t) /\ back[t] = "choose" /\ ~\E r : Return(t, r)
  <2>1. pc[t] = "append" /\ Go(t, "query") /\ UNCHANGED <<job, back>>
    BY <1>8 DEF CopyList
  <2>2. pc'[t] = "query"
    BY <1>1, <2>1, WhereGo
  <2> QED
    BY <1>8, <2>1, <2>2 DEF Errand, Listing, Asking, AboutAccount
<1>9. CASE CopyList(t) /\ back[t] \notin {"choose", "return"}
  <2>1. Go(t, back[t]) /\ pc[t] = "append"
    BY <1>9 DEF CopyList
  <2>2. back[t] \in {"default", "push"}
    BY <1>1, <1>9, <2>1 DEF ThreadInv, Located, Listing, LocalTypes, Backs
  <2>3. pc'[t] = back[t]
    BY <1>1, <2>1, WhereGo
  <2> QED
    BY <2>2, <2>3, ErrandPlain
<1>10. CASE (MakeQuery(t) \/ OrderReply(t)) /\ ~\E r : Return(t, r)
  <2>1. /\ pc[t] \in {"query", "reply"} /\ UNCHANGED <<job, back>>
        /\ Go(t, "reply") \/ Go(t, "lookup")
    BY <1>10 DEF MakeQuery, OrderReply
  <2>2. pc'[t] \in {"reply", "lookup"}
    BY <1>1, <2>1, WhereGo
  <2> QED
    BY <2>1, <2>2 DEF Errand, Listing, Asking, AboutAccount
<1>11. CASE Lookup(t) /\ ~\E r : Return(t, r)
  <2>1. UNCHANGED <<pc, job, back>> /\ pc[t] = "lookup"
    BY <1>11 DEF Lookup
  <2> QED
    BY <2>1 DEF Errand, Listing, Asking, AboutAccount
<1>12. CASE CheckAccId(t) \/ CheckAccSubPush(t)
  <2>1. \/ /\ Go(t, "list") /\ back' = [back EXCEPT ![t] = "default"]
        \/ /\ Go(t, "list") /\ back' = [back EXCEPT ![t] = "push"]
        \/ Go(t, "default") \/ Go(t, "push")
    BY <1>12 DEF CheckAccId, CheckAccSubPush
  <2>2. \/ pc'[t] = "list" /\ back'[t] \in {"default", "push"}
        \/ pc'[t] \in {"default", "push"}
    BY <1>1, <2>1, WhereGo DEF LocalTypes
  <2> QED
    BY <2>2, ErrandPlain
<1>13. CASE DefaultAccId(t) /\ ~\E r : Return(t, r)
  <2>1. /\ Go(t, "unlock") /\ \E i \in Elements(lastAcc) : Env(i) = "REAL"
    BY <1>13 DEF DefaultAccId
  <2>2. Elements(lastAcc) \subseteq Kept
    BY <1>1 DEF TradeInv, KeptList, Elements, SharedTypes, Kept
  <2>3. RealKept
    BY <2>1, <2>2 DEF RealKept
  <2>4. pc'[t] = "unlock"
    BY <1>1, <2>1, WhereGo
  <2> QED
    BY <1>2, <2>3, <2>4 DEF Errand, Listing, Asking
<1>14. CASE AskUnlock(t) /\ ~\E r : Return(t, r)
  <2>1. pc[t] = "unlock" /\ Go(t, "remember") /\ UNCHANGED <<job, back>>
    BY <1>14 DEF AskUnlock
  <2>2. pc'[t] = "remember"
    BY <1>1, <2>1, WhereGo
  <2> QED
    BY <1>2, <2>1, <2>2 DEF Errand, Listing, Asking
<1>15. CASE (Remember(t) \/ Forget(t) \/ Recall(t) \/ Unpack(t)) /\ ~\E r : Return(t, r)
  <2>1. \E to \in {"subscribe", "recall", "unpack", "account"} : Go(t, to)
    BY <1>15 DEF Remember, Forget, Recall, Unpack
  <2>2. pc'[t] \in {"subscribe", "recall", "unpack", "account"}
    BY <1>1, <2>1, WhereGo
  <2> QED
    BY <2>2, ErrandPlain
<1>16. CASE AskList(t) /\ ~(Go(t, "reset") /\ UNCHANGED <<job, back>>)
  <2>1. SubscribeDone(t) \/ \E r : Return(t, r)
    BY <1>16 DEF AskList
  <2> QED
    BY <1>3, <1>4, <2>1
<1>17. CASE CopyList(t) /\ back[t] = "return"
  BY <1>3, <1>17 DEF CopyList
<1>18. CASE SubAccPush(t)
  <2>1. SubscribeDone(t)
    BY <1>18 DEF SubAccPush
  <2> QED
    BY <1>3, <1>4, <2>1
<1> QED
  BY <1>3, <1>5, <1>6, <1>7, <1>8, <1>9, <1>10, <1>11, <1>12, <1>13, <1>14, <1>15, <1>16,
     <1>17, <1>18 DEF Step

-----------------------------------------------------------------------------
\* The password is remembered for an account only, and a session that is gone has
\* nothing left at the gateway.
LEMMA StepGateway ==
    ASSUME TradeInv, NEW t \in Threads, Step(t), Errand(t),
           ctxUnlock # None => RealKept, ~up => ~gUnlocked /\ gPush = {}
    PROVE  /\ ctxUnlock' # None => RealKept'
           /\ ~up' => ~gUnlocked' /\ gPush' = {}
<1>1. setup' = setup /\ (RealKept' <=> RealKept)
  BY SetupFixed, SameAccounts
<1>2. ctxUnlock' # None => RealKept
  <2>1. CASE Remember(t)
    BY <2>1 DEF Remember, Errand
  <2>2. ~Remember(t) => ctxUnlock' = ctxUnlock
    BY DEF Step, AskList, Reset, AppendRecord, CopyList, MakeQuery, OrderReply, Lookup, CheckAccId,
           DefaultAccId, AskUnlock, CheckAccSubPush, SubAccPush, Forget, Recall, Unpack
  <2> QED
    BY <2>1, <2>2
<1>3. CASE Unpack(t)
  BY <1>1, <1>2, <1>3 DEF Unpack, Down, gate
<1>4. CASE AskUnlock(t) \/ SubAccPush(t)
  BY <1>1, <1>2, <1>4 DEF AskUnlock, SubAccPush, base
<1>5. CASE ~Unpack(t) /\ ~AskUnlock(t) /\ ~SubAccPush(t)
  <2>1. UNCHANGED <<up, gUnlocked, gPush>>
    BY <1>5 DEF Step, AskList, Reset, AppendRecord, CopyList, MakeQuery, OrderReply, Lookup, CheckAccId,
                DefaultAccId, Remember, CheckAccSubPush, Forget, Recall, base, gate
  <2> QED
    BY <1>1, <1>2, <2>1
<1> QED
  BY <1>3, <1>4, <1>5

-----------------------------------------------------------------------------
\* The only active thread's own step. A failed query ends the calm.
LEMMA StepSettled ==
    ASSUME TradeInv, NEW t \in Threads, Step(t), Errand(t), AtWork(t),
           ctxUnlock # None => RealKept, up', calm'
    PROVE  Settled(t)'
<1>1. LocalTypes /\ SharedTypes /\ ThreadInv(t) /\ setup' = setup
  BY Types, SetupFixed DEF TradeInv
<1>2. Kept' = Kept
  BY <1>1, SameAccounts
<1>3. lastAcc' = lastAcc => Elements(lastAcc)' = Elements(lastAcc) /\ (ListKnown' <=> ListKnown)
  BY <1>2 DEF Elements, ListKnown
<1>4. pc[t] \in Pcs /\ job[t] \in JobType
  BY <1>1 DEF LocalTypes
\* The call returns, and nothing was pending.
<1>5. ASSUME \E r : Return(t, r), UNCHANGED <<lastAcc, gate>>, ListKnown,
             gUnlocked <=> ctxUnlock' # None, gPush = Kept
      PROVE  Settled(t)'
  <2>1. pc'[t] = "idle"
    BY <1>1, <1>5, WhereReturn
  <2>2. ListKnown' /\ Synced' /\ gPush' = Kept'
    BY <1>2, <1>3, <1>5 DEF Synced, gate
  <2> QED
    BY <2>1, <2>2 DEF Settled, AtRest
\* The thread goes on, and the list is all that may have changed.
<1>6. ASSUME pc'[t] # "idle", UNCHANGED <<ctxUnlock, gUnlocked, gPush>>, ListAtWork(t)',
             pc[t] # "remember", pc'[t] # "remember", pc[t] # "unpack", pc'[t] # "unpack",
             Arriving(t)' <=> Arriving(t), Unlocking(t)' <=> Unlocking(t), job'[t] = job[t]
      PROVE  Settled(t)'
  <2>1. LockAtWork(t)'
    BY <1>6 DEF AtWork, LockAtWork, Relocking, Synced
  <2>2. PushAtWork(t)'
    BY <1>2, <1>6 DEF AtWork, PushAtWork, Restoring
  <2> QED
    BY <1>6, <2>1, <2>2 DEF Settled, AtWork
<1>7. CASE AskList(t)
  <2>1. pc[t] = "list" /\ pc'[t] = "reset" /\ UNCHANGED <<job, back, list, ctxUnlock, gate>>
    BY <1>1, <1>7, WhereGo DEF AskList
  <2>2. ListAtWork(t)'
    BY <1>3, <2>1 DEF AtWork, ListAtWork, list
  <2> QED
    BY <1>6, <2>1, <2>2 DEF gate, Arriving, Unlocking, Listing
<1>8. CASE Reset(t)
  <2>1. /\ pc[t] = "reset" /\ pc'[t] = "append" /\ UNCHANGED <<job, back, ctxUnlock, gate>>
        /\ Mix(t)
    BY <1>1, <1>8, WhereGo DEF Reset
  <2>2. ListAtWork(t)'
    BY <2>1 DEF ListAtWork, Mix
  <2> QED
    BY <1>6, <2>1, <2>2 DEF gate, Arriving, Unlocking, Listing
<1>9. CASE AppendRecord(t)
  <2>1. /\ pc[t] = "append" /\ pc'[t] = "append"
        /\ UNCHANGED <<job, back, ctxUnlock, gate>>
    BY <1>9 DEF AppendRecord
  <2>2. mixed' = mixed \/ mixed' = [o \in Threads |-> mixed[o] \/ (o # t /\ pc[o] = "append")]
    BY <1>9 DEF AppendRecord, list
  <2>3. ListAtWork(t)'
    BY <2>1, <2>2 DEF AtWork, ListAtWork
  <2> QED
    BY <1>6, <2>1, <2>3 DEF gate, Arriving, Unlocking, Listing
<1>10. CASE CopyList(t)
  <2>1. /\ pc[t] = "append" /\ at[t] = Count /\ UNCHANGED <<list, ctxUnlock, gate>>
    BY <1>10 DEF CopyList, Count
  <2>2. Elements(lastAcc) = Kept
    BY <1>1, <2>1 DEF AtWork, ListAtWork, ThreadInv, Intact, Kept, Listed, Count
  <2>3. ListKnown
    BY <2>2 DEF ListKnown
  <2>4. CASE back[t] \in {"choose", "return"}
    <3>1. job[t].what \in {"auth", "code", "order", "list"}
      BY <2>1, <2>4 DEF Errand, Listing, AboutAccount
    <3>2. gPush = Kept /\ Synced
      BY <2>1, <3>1 DEF AtWork, LockAtWork, PushAtWork, Restoring, Arriving, Relocking
    <3>3. CASE \E r : Return(t, r)
      BY <1>5, <2>1, <2>3, <3>2, <3>3 DEF list, gate, Synced
    <3>4. CASE Go(t, "query") /\ job' = job /\ back' = back
      <4>1. pc'[t] = "query"
        BY <1>1, <3>4, WhereGo
      <4>2. ListAtWork(t)'
        BY <1>3, <2>1, <2>3, <4>1 DEF ListAtWork, list
      <4>3. LockAtWork(t)' /\ PushAtWork(t)'
        BY <1>2, <2>1, <3>2, <4>1
           DEF LockAtWork, PushAtWork, Arriving, Relocking, Unlocking, Listing, Synced, gate
      <4> QED
        BY <4>1, <4>2, <4>3 DEF Settled, AtWork
    <3> QED
      BY <1>10, <2>4, <3>3, <3>4 DEF CopyList
  <2>5. CASE back[t] \notin {"choose", "return"}
    <3>1. Go(t, back[t]) /\ UNCHANGED <<job, back>>
      BY <1>10, <2>5 DEF CopyList
    <3>2. back[t] \in {"default", "push"}
      BY <1>1, <2>1, <2>5 DEF ThreadInv, Located, Listing, LocalTypes, Backs
    <3>3. pc'[t] = back[t]
      BY <1>1, <3>1, WhereGo
    <3>4. ListAtWork(t)'
      BY <1>2, <1>3, <2>1, <2>2, <2>3, <3>2, <3>3 DEF ListAtWork, list
    <3> QED
      BY <1>6, <2>1, <3>1, <3>2, <3>3, <3>4 DEF gate, Arriving, Unlocking, Listing
  <2> QED
    BY <2>4, <2>5
<1>11. CASE MakeQuery(t) \/ OrderReply(t) \/ Lookup(t)
  <2>1. /\ pc[t] \in {"query", "reply", "lookup"} /\ UNCHANGED <<list, ctxUnlock, gate>>
        /\ (\E r : Return(t, r)) \/ Go(t, "reply") \/ Go(t, "lookup") \/ pc' = pc
        /\ (\E r : Return(t, r)) \/ UNCHANGED <<job, back>>
    BY <1>11 DEF MakeQuery, OrderReply, Lookup
  <2>2. ListKnown /\ gPush = Kept /\ Synced
    BY <2>1 DEF Errand, Asking, AboutAccount, AtWork, ListAtWork, LockAtWork, PushAtWork,
                Restoring, Arriving, Relocking, Unlocking, Listing
  <2>3. CASE \E r : Return(t, r)
    BY <1>5, <2>1, <2>2, <2>3 DEF list, gate, Synced
  <2>4. CASE ~\E r : Return(t, r)
    <3>1. pc'[t] \in {"query", "reply", "lookup"}
      BY <1>1, <2>1, <2>4, WhereGo
    <3>2. ListAtWork(t)'
      BY <1>3, <2>1, <2>2, <3>1 DEF ListAtWork, list
    <3>3. LockAtWork(t)' /\ PushAtWork(t)'
      BY <1>2, <2>1, <2>2, <3>1
         DEF LockAtWork, PushAtWork, Arriving, Relocking, Unlocking, Listing, Synced, gate
    <3> QED
      BY <3>1, <3>2, <3>3 DEF Settled, AtWork
  <2> QED
    BY <2>3, <2>4
<1>12. CASE CheckAccId(t)
  <2>1. /\ pc[t] = "account" /\ UNCHANGED <<job, list, ctxUnlock, gate>>
        /\ \/ Go(t, "list") /\ back' = [back EXCEPT ![t] = "default"]
           \/ Go(t, "default") /\ lastAcc # <<>>
    BY <1>12 DEF CheckAccId
  <2>2. \/ pc'[t] = "list" /\ back'[t] = "default"
        \/ pc'[t] = "default" /\ lastAcc # <<>>
    BY <1>1, <2>1, WhereGo DEF LocalTypes
  <2>3. ListAtWork(t)'
    BY <1>2, <1>3, <2>1, <2>2 DEF AtWork, ListAtWork, ListKnown, list
  <2> QED
    BY <1>6, <2>1, <2>2, <2>3 DEF gate, Arriving, Unlocking, Listing
<1>13. CASE DefaultAccId(t)
  <2>1. pc[t] = "default" /\ UNCHANGED <<list, ctxUnlock, gate>>
    BY <1>13 DEF DefaultAccId
  <2>2. Elements(lastAcc) = Kept /\ ListKnown
    BY <2>1 DEF AtWork, ListAtWork, ListKnown
  <2>3. CASE RealKept
    <3>1. Go(t, "unlock") /\ UNCHANGED <<job, back>>
      BY <1>13, <2>2, <2>3 DEF DefaultAccId, RealKept
    <3>2. pc'[t] = "unlock"
      BY <1>1, <3>1, WhereGo
    <3>3. ListAtWork(t)'
      BY <1>3, <2>1, <2>2, <3>2 DEF ListAtWork, list
    <3> QED
      BY <1>6, <2>1, <3>1, <3>2, <3>3 DEF gate, Arriving, Unlocking, Listing
  <2>4. CASE ~RealKept
    <3>1. Return(t, "error")
      BY <1>13, <2>2, <2>4 DEF DefaultAccId, RealKept
    <3>2. ~Relocking(t)
      BY <2>4 DEF AtWork, LockAtWork
    <3>3. job[t].what \in {"unlock", "lock"}
      BY <1>1, <2>1, <3>2 DEF Relocking, Unlocking, ThreadInv, Located
    <3>4. gPush = Kept /\ Synced
      BY <2>1, <3>2, <3>3 DEF AtWork, LockAtWork, PushAtWork, Restoring, Arriving
    <3> QED
      BY <1>5, <2>1, <2>2, <3>1, <3>4 DEF list, gate, Synced
  <2> QED
    BY <2>3, <2>4
<1>14. CASE AskUnlock(t)
  <2>1. pc[t] = "unlock" /\ UNCHANGED <<list, ctxUnlock, gPush>>
    BY <1>14 DEF AskUnlock
  <2>2. ListKnown
    BY <2>1 DEF AtWork, ListAtWork
  <2>3. CASE /\ gUnlocked' = (job[t].what # "lock") /\ Go(t, "remember")
             /\ UNCHANGED <<job, back>>
    <3>1. pc'[t] = "remember"
      BY <1>1, <2>3, WhereGo
    <3>2. ListAtWork(t)'
      BY <1>3, <2>1, <2>2, <3>1 DEF ListAtWork, list
    <3>3. LockAtWork(t)'
      BY <2>3, <3>1 DEF LockAtWork, Arriving, Relocking, Unlocking, Listing
    <3>4. PushAtWork(t)'
      BY <1>2, <2>1, <2>3, <3>1 DEF AtWork, PushAtWork, Restoring, Arriving
    <3> QED
      BY <3>1, <3>2, <3>3, <3>4 DEF Settled, AtWork
  <2>4. CASE /\ Return(t, "error") /\ UNCHANGED gUnlocked
             /\ job[t].what # "lock" /\ job[t].password # "right"
    <3>1. ~Relocking(t)
      BY <2>4 DEF AtWork, LockAtWork
    <3>2. job[t].what = "unlock"
      BY <1>1, <2>1, <2>4, <3>1 DEF Relocking, Unlocking, ThreadInv, Located
    <3>3. gPush = Kept /\ Synced
      BY <2>1, <3>1, <3>2 DEF AtWork, LockAtWork, PushAtWork, Restoring, Arriving
    <3> QED
      BY <1>5, <2>1, <2>2, <2>4, <3>3 DEF list, gate, Synced
  <2> QED
    BY <1>14, <2>3, <2>4 DEF AskUnlock
<1>15. CASE Remember(t)
  <2>1. pc[t] = "remember" /\ UNCHANGED <<list, gate>>
    BY <1>15 DEF Remember
  <2>2. ListKnown /\ (gUnlocked <=> job[t].what # "lock")
    BY <2>1 DEF AtWork, ListAtWork, LockAtWork
  <2>3. CASE job[t].what = "lock"
    <3>1. gPush = Kept
      BY <2>1, <2>3 DEF AtWork, PushAtWork, Restoring, Arriving
    <3> QED
      BY <1>5, <1>15, <2>1, <2>2, <2>3, <3>1 DEF list, gate, Remember
  <2>4. CASE job[t].what # "lock"
    <3>1. /\ ctxUnlock' = job[t].password /\ Go(t, "subscribe") /\ UNCHANGED <<job, back>>
      BY <1>15, <2>4 DEF Remember, locals
    <3>2. pc'[t] = "subscribe"
      BY <1>1, <3>1, WhereGo
    <3>3. ctxUnlock' # None /\ gUnlocked
      BY <1>1, <2>1, <2>2, <2>4, <3>1 DEF ThreadInv, Located, None
    <3>4. ListAtWork(t)'
      BY <1>3, <2>1, <2>2, <3>2 DEF ListAtWork, list
    <3>5. LockAtWork(t)'
      BY <2>1, <3>2, <3>3 DEF LockAtWork, Arriving, Relocking, Unlocking, Listing, Synced, gate
    <3>6. PushAtWork(t)'
      BY <1>2, <2>1, <3>1, <3>2 DEF AtWork, PushAtWork, Restoring, Arriving, gate
    <3> QED
      BY <3>2, <3>4, <3>5, <3>6 DEF Settled, AtWork
  <2> QED
    BY <2>3, <2>4
<1>16. CASE CheckAccSubPush(t)
  <2>1. /\ pc[t] = "subscribe" /\ UNCHANGED <<job, list, ctxUnlock, gate>>
        /\ \/ Go(t, "list") /\ back' = [back EXCEPT ![t] = "push"]
           \/ Go(t, "push") /\ lastAcc # <<>>
    BY <1>16 DEF CheckAccSubPush
  <2>2. \/ pc'[t] = "list" /\ back'[t] = "push"
        \/ pc'[t] = "push" /\ lastAcc # <<>>
    BY <1>1, <2>1, WhereGo DEF LocalTypes
  <2>3. ListAtWork(t)'
    BY <1>2, <1>3, <2>1, <2>2 DEF AtWork, ListAtWork, ListKnown, list
  <2> QED
    BY <1>6, <2>1, <2>2, <2>3 DEF gate, Arriving, Unlocking, Listing
<1>17. CASE SubAccPush(t)
  <2>1. pc[t] = "push" /\ UNCHANGED <<base, list, ctxUnlock, gUnlocked>> /\ SubscribeDone(t)
    BY <1>17 DEF SubAccPush
  <2>2. Elements(lastAcc) = Kept /\ ListKnown /\ Synced
    BY <2>1 DEF AtWork, ListAtWork, LockAtWork, ListKnown, Arriving, Relocking, Unlocking,
                Listing
  <2>3. gPush' = Kept
    <3>1. CASE lastAcc = <<>>
      BY <1>17, <2>2, <3>1, EmptyList DEF SubAccPush, AtWork, PushAtWork
    <3>2. CASE lastAcc # <<>>
      BY <1>17, <2>1, <2>2, <3>2 DEF SubAccPush, base
    <3> QED
      BY <3>1, <3>2
  <2>4. ListKnown' /\ Synced' /\ gPush' = Kept'
    BY <1>2, <1>3, <2>1, <2>2, <2>3 DEF list, Synced
  <2>5. CASE job[t].what = "auto"
    <3>1. pc'[t] = "subscribe" /\ job'[t].what = "fresh"
      BY <1>1, <2>1, <2>5, WhereGo DEF SubscribeDone, LocalTypes
    <3> QED
      BY <2>4, <3>1 DEF Settled, AtWork, ListAtWork, LockAtWork, PushAtWork, Arriving,
                        Relocking, Unlocking, Listing
  <2>6. CASE job[t].what # "auto"
    <3>1. pc'[t] = "idle"
      BY <1>1, <2>1, <2>6, WhereReturn DEF SubscribeDone
    <3> QED
      BY <2>4, <3>1 DEF Settled, AtRest
  <2> QED
    BY <2>5, <2>6
<1>18. CASE Forget(t)
  <2>1. pc[t] = "fresh" /\ pc'[t] = "recall" /\ lastAcc' = <<>>
        /\ UNCHANGED <<job, back, ctxUnlock, gate>>
    BY <1>1, <1>18, WhereGo DEF Forget
  <2>2. ListAtWork(t)'
    BY <2>1 DEF ListAtWork, ListKnown
  <2> QED
    BY <1>6, <2>1, <2>2 DEF gate, Arriving, Unlocking, Listing
<1>19. CASE Recall(t)
  <2>1. /\ pc[t] = "recall" /\ UNCHANGED <<list, ctxUnlock, gate>>
        /\ \/ /\ ctxUnlock = None /\ Go(t, "subscribe")
              /\ job' = [job EXCEPT ![t] = [what |-> "fresh"]]
           \/ ctxUnlock # None /\ Go(t, "unpack")
    BY <1>19 DEF Recall
  <2>2. \/ ctxUnlock = None /\ pc'[t] = "subscribe" /\ job'[t].what = "fresh"
        \/ ctxUnlock # None /\ pc'[t] = "unpack"
    BY <1>1, <2>1, WhereGo DEF LocalTypes
  <2>3. ListKnown /\ ~gUnlocked /\ gPush \in {{}, Kept}
    BY <2>1 DEF AtWork, ListAtWork, LockAtWork, PushAtWork, Arriving
  <2>4. ListAtWork(t)'
    BY <1>3, <2>1, <2>2, <2>3 DEF ListAtWork, list
  <2>5. LockAtWork(t)' /\ PushAtWork(t)'
    BY <1>2, <2>1, <2>2, <2>3 DEF LockAtWork, PushAtWork, Restoring, Arriving, Relocking,
                                 Unlocking, Listing, Synced, gate
  <2> QED
    BY <2>2, <2>4, <2>5 DEF Settled, AtWork
<1>20. CASE Unpack(t)
  <2>1. /\ pc[t] = "unpack" /\ UNCHANGED <<list, ctxUnlock>> /\ ctxUnlock # None
    BY <1>20 DEF Unpack, Down
  <2>2. /\ job' = [job EXCEPT ![t] = [what |-> "auto", password |-> ctxUnlock]]
        /\ Go(t, "account") /\ UNCHANGED <<gate, back>>
    BY <1>20, <2>1 DEF Unpack
  <2>3. pc'[t] = "account" /\ job'[t].what = "auto" /\ job'[t].password = "right"
    BY <1>1, <2>1, <2>2, WhereGo DEF LocalTypes, SharedTypes
  <2>4. ListKnown /\ ~gUnlocked /\ gPush \in {{}, Kept}
    BY <2>1 DEF AtWork, ListAtWork, LockAtWork, PushAtWork, Arriving
  <2>5. ListAtWork(t)'
    BY <1>3, <2>1, <2>3, <2>4 DEF ListAtWork, list
  <2>6. LockAtWork(t)' /\ PushAtWork(t)'
    BY <1>2, <2>1, <2>2, <2>3, <2>4 DEF LockAtWork, PushAtWork, Restoring, Arriving, Relocking,
                                       Unlocking, Listing, Synced, gate
  <2> QED
    BY <2>3, <2>5, <2>6 DEF Settled, AtWork
<1> QED
  BY <1>7, <1>8, <1>9, <1>10, <1>11, <1>12, <1>13, <1>14, <1>15, <1>16, <1>17, <1>18, <1>19,
     <1>20 DEF Step

LEMMA CalmFrom ==
    ASSUME NEW t \in Threads, Alone(t)', Settled(t)' PROVE CalmInv'
<1>1. CASE pc'[t] = "idle"
  BY <1>1 DEF CalmInv, Alone, Quiet, Settled
<1>2. CASE pc'[t] # "idle"
  BY <1>2 DEF CalmInv, Settled
<1> QED
  BY <1>1, <1>2

LEMMA StepSession ==
    ASSUME TradeInv, SessionInv, NEW t \in Threads, Step(t) PROVE SessionInv'
<1>1. LocalTypes /\ SharedTypes /\ setup' = setup /\ Errand(t)
  BY Types, SetupFixed DEF TradeInv, SessionInv
<1>2. Elsewhere(t)
  BY <1>1, StepElsewhere
<1>3. ASSUME NEW u \in Threads PROVE Errand(u)'
  BY <1>1, <1>2, StepErrand, OthersErrand DEF SessionInv
<1>4. CalmInv'
  <2> SUFFICES ASSUME up', calm' PROVE CalmInv'
    BY DEF CalmInv
  <2>1. up /\ calm
    BY DEF Step, AskList, Reset, AppendRecord, CopyList, MakeQuery, OrderReply, Lookup, CheckAccId,
           DefaultAccId, AskUnlock, Remember, CheckAccSubPush, SubAccPush, Forget, Recall,
           Unpack, Down, base
  <2>2. pc[t] # "idle"
    BY DEF Step, AskList, Reset, AppendRecord, CopyList, MakeQuery, OrderReply, Lookup, CheckAccId,
           DefaultAccId, AskUnlock, Remember, CheckAccSubPush, SubAccPush, Forget, Recall,
           Unpack
  <2>3. Alone(t) /\ AtWork(t)
    BY <2>1, <2>2 DEF SessionInv, CalmInv, Quiet, Alone
  <2>4. Alone(t)'
    BY <1>2, <2>3 DEF Alone, Elsewhere
  <2>5. Settled(t)'
    BY <1>1, <2>3, StepSettled DEF SessionInv
  <2> QED
    BY <2>4, <2>5, CalmFrom
<1> QED
  BY <1>1, <1>3, <1>4, StepGateway DEF SessionInv

LEMMA CallSession ==
    ASSUME TradeInv, SessionInv, NEW t \in Users, Call(t) PROVE SessionInv'
<1>1. LocalTypes /\ SharedTypes /\ t \in Threads
  BY Types DEF TradeInv, Threads
<1>2. PICK j \in JobType :
         \/ j.what \in {"auth", "code", "order"} /\ Begin(t, j, "list", "choose")
         \/ j.what = "list" /\ Begin(t, j, "list", "return")
         \/ j.what \in {"unlock", "lock"} /\ Begin(t, j, "account", None)
  BY CallKinds
<1>3. /\ pc[t] = "idle" /\ calm' = (calm /\ Quiet(Threads))
      /\ job' = [job EXCEPT ![t] = j]
      /\ \E to \in {"list", "account"} : pc' = [pc EXCEPT ![t] = to]
      /\ \E from \in {"choose", "return", None} : back' = [back EXCEPT ![t] = from]
      /\ UNCHANGED <<setup, up, lastAcc, mixed, ctxUnlock, gUnlocked, gPush, at, acc, placed>>
  BY <1>2 DEF Begin, Go, list, gate, locals
<1>4. /\ job'[t] = j
      /\ \/ AboutAccount(t)' /\ pc'[t] = "list" /\ back'[t] = "choose"
         \/ j.what = "list" /\ pc'[t] = "list" /\ back'[t] = "return"
         \/ j.what \in {"unlock", "lock"} /\ pc'[t] = "account"
  BY <1>1, <1>2 DEF Begin, Go, LocalTypes, AboutAccount
<1>5. Elsewhere(t)
  BY <1>1, <1>3 DEF Elsewhere, LocalTypes
<1>6. Errand(t)'
  BY <1>4 DEF Errand, Listing, Asking
<1>7. ASSUME NEW u \in Threads PROVE Errand(u)'
  BY <1>3, <1>5, <1>6, OthersErrand DEF SessionInv
<1>8. Kept' = Kept /\ (RealKept' <=> RealKept)
  BY <1>3, SameAccounts
<1>9. CalmInv'
  <2> SUFFICES ASSUME up', calm' PROVE CalmInv'
    BY DEF CalmInv
  <2>1. up /\ calm /\ Quiet(Threads)
    BY <1>3
  <2>2. AtRest
    BY <2>1 DEF SessionInv, CalmInv, Quiet
  <2>3. ListAtWork(t)'
    BY <1>3, <1>4, <1>8, <2>2 DEF AtRest, ListAtWork, ListKnown, Elements
  <2>4. ~Arriving(t)' /\ ~Relocking(t)' /\ ~Restoring(t)'
    BY <1>4 DEF Arriving, Relocking, Restoring, AboutAccount
  <2>5. LockAtWork(t)' /\ PushAtWork(t)'
    BY <1>3, <1>4, <1>8, <2>2, <2>4 DEF AtRest, LockAtWork, PushAtWork, Synced
  <2>6. Alone(t)'
    BY <1>5, <2>1 DEF Alone, Elsewhere, Quiet
  <2> QED
    BY <1>1, <1>4, <2>3, <2>5, <2>6, CalmFrom DEF Settled, AtWork
<1> QED
  BY <1>3, <1>7, <1>8, <1>9 DEF SessionInv

LEMMA SessionUpSession == TradeInv /\ SessionInv /\ SessionUp => SessionInv'
<1> SUFFICES ASSUME TradeInv, SessionInv, SessionUp PROVE SessionInv'
  OBVIOUS
<1>1. LocalTypes /\ SharedTypes
  BY Types DEF TradeInv
<1>2. /\ ~up /\ session < MaxSessions /\ up' = TRUE /\ calm' = Quiet(Threads)
      /\ pc' = [pc EXCEPT ![session + 1] = "fresh"]
      /\ UNCHANGED <<setup, lastAcc, mixed, ctxUnlock, gUnlocked, gPush, job, back, at, acc,
                     placed>>
  BY DEF SessionUp, list, gate, locals
<1>3. PICK t \in Threads : t = session + 1
  BY <1>1, <1>2 DEF SharedTypes, Reconnecting, Threads
<1>4. pc' = [pc EXCEPT ![t] = "fresh"] /\ pc'[t] = "fresh"
  BY <1>1, <1>2, <1>3 DEF LocalTypes
<1>5. Elsewhere(t)
  BY <1>1, <1>2, <1>4 DEF Elsewhere, LocalTypes
<1>6. ASSUME NEW u \in Threads PROVE Errand(u)'
  BY <1>2, <1>4, <1>5, ErrandPlain, OthersErrand DEF SessionInv
<1>7. Kept' = Kept /\ (RealKept' <=> RealKept)
  BY <1>2, SameAccounts
<1>8. CalmInv'
  <2> SUFFICES ASSUME calm' PROVE CalmInv'
    BY DEF CalmInv
  <2>1. Alone(t)'
    BY <1>2, <1>5 DEF Alone, Elsewhere, Quiet
  <2>2. ~gUnlocked' /\ gPush' = {}
    BY <1>2 DEF SessionInv
  <2>3. AtWork(t)'
    BY <1>4, <2>2 DEF AtWork, ListAtWork, LockAtWork, PushAtWork, Arriving, Relocking,
                      Restoring, Unlocking, Listing
  <2> QED
    BY <1>4, <2>1, <2>3, CalmFrom DEF Settled
<1> QED
  BY <1>2, <1>6, <1>7, <1>8 DEF SessionInv

LEMMA SessionDownSession == TradeInv /\ SessionInv /\ SessionDown => SessionInv'
<1> SUFFICES ASSUME SessionInv, SessionDown PROVE SessionInv'
  OBVIOUS
<1>1. /\ up' = FALSE /\ gUnlocked' = FALSE /\ gPush' = {}
      /\ UNCHANGED <<setup, ctxUnlock, pc, job, back>>
  BY DEF SessionDown, Down, here
<1>2. ASSUME NEW u \in Threads PROVE Errand(u)'
  BY <1>1, SameAccounts DEF SessionInv, Errand, Listing, Asking, AboutAccount
<1> QED
  BY <1>1, <1>2, SameAccounts DEF SessionInv, CalmInv

LEMMA SessionKept == TradeSpec => []SessionInv
<1>1. TradeInit => SessionInv
  BY DEF TradeInit, SessionInv, Errand, Listing, Asking, CalmInv
<1>2. TradeInv /\ SessionInv /\ [TradeNext]_tradeVars => SessionInv'
  <2> SUFFICES ASSUME TradeInv, SessionInv, [TradeNext]_tradeVars PROVE SessionInv'
    OBVIOUS
  <2>1. CASE UNCHANGED tradeVars
    <3>1. UNCHANGED <<setup, up, lastAcc, mixed, ctxUnlock, gUnlocked, gPush, pc, job, back, calm>>
      BY <2>1 DEF tradeVars, base, list, gate, here
    <3>2. Kept' = Kept /\ (RealKept' <=> RealKept)
      BY <3>1, SameAccounts
    <3>3. ASSUME NEW u \in Threads PROVE Errand(u)'
      BY <3>1, <3>2 DEF SessionInv, Errand, Listing, Asking, AboutAccount
    <3>4. CalmInv'
      <4>1. AtRest' <=> AtRest
        BY <3>1, <3>2 DEF AtRest, ListKnown, Elements, Synced
      <4>2. ASSUME NEW u \in Threads PROVE AtWork(u)' <=> AtWork(u)
        BY <3>1, <3>2 DEF AtWork, ListAtWork, LockAtWork, PushAtWork, ListKnown, Elements,
              Synced, Arriving, Relocking, Restoring, Unlocking, Listing
      <4> QED
        BY <3>1, <4>1, <4>2 DEF SessionInv, CalmInv, Alone, Quiet
    <3> QED
      BY <3>1, <3>2, <3>3, <3>4 DEF SessionInv
  <2> QED
    BY <2>1, CallSession, StepSession, SessionUpSession, SessionDownSession DEF TradeNext
<1> QED
  BY <1>1, <1>2, Invariance, PTL DEF TradeSpec

-----------------------------------------------------------------------------
(***************************************************************************)
(* What follows.                                                           *)
(***************************************************************************)
\* Every variable keeps its type; a password the gateway has refused is never
\* remembered (unlock_trade).
THEOREM TradeTypeCorrect == TradeSpec => []TradeTypeOK
<1>1. TradeInv => TradeTypeOK
  BY DEF TradeInv
<1> QED
  BY <1>1, Invariance, PTL

\* Whatever other threads and new sessions do to the shared list meanwhile, a call
\* is about an account of the environment it names, one the context keeps, and the
\* one it names if it names one (_check_acc_id_and_acc_index).
THEOREM CallsOwnAccounts == TradeSpec => []OwnAccounts
<1>1. TradeInv => OwnAccounts
  BY DEF TradeInv, OwnAccounts, KeptPush, ThreadInv, Own
<1> QED
  BY <1>1, Invariance, PTL

\* The list get_acc_list fills is, while no other thread writes it, what the
\* records looked at so far make of it.
THEOREM ListStaysIntact == TradeSpec => []ListIntact
<1>1. TradeInv => ListIntact
  BY DEF TradeInv, ListIntact, ThreadInv, Intact
<1> QED
  BY <1>1, Invariance, PTL

\* acc_index counts the accounts of the environment in the order the gateway lists
\* them (_get_acc_id_by_acc_index), unless another thread wrote the list.
THEOREM IndexFindsAccount == TradeSpec => []RightAccount
<1>1. TradeInv => RightAccount
  BY DEF TradeInv, RightAccount, ThreadInv, Right
<1> QED
  BY <1>1, Invariance, PTL

\* An order whose acceptance was answered is reported OK, and no order is that the
\* gateway has not accepted, by a context with a market: such a context keeps no
\* account without one (place_order). An error leaves open whether the order was
\* accepted.
THEOREM OrdersReported == TradeSpec => []OrderReported
<1>1. TradeInv => OrderReported
  BY DEF TradeInv
<1> QED
  BY <1>1, Invariance, PTL

\* A session in which one thread at a time was active and no query failed ends up,
\* when all is quiet, unlocked if and only if a password is remembered, and with all
\* accounts subscribed (on_api_socket_reconnected, __check_acc_sub_push).
THEOREM SessionsRestored == TradeSpec => []Restored
<1>1. SessionInv => Restored
  BY DEF SessionInv, CalmInv, AtRest, Synced, Kept, Restored, Quiet
<1> QED
  BY <1>1, SessionKept, PTL

-----------------------------------------------------------------------------
(***************************************************************************)
(* The trade context and the account web application together, as module   *)
(* MCAccounts runs them.                                                   *)
(***************************************************************************)
\* A behaviour of the three is one of each: what is proved of one is true of it beside
\* the others (the application's cache and its profit calculation touch no state of
\* a trade context).
THEOREM EachOnItsOwn == Spec => TradeSpec /\ CacheSpec /\ PlSpec
<1>1. Init => TradeInit /\ CacheInit /\ PlInit
  BY DEF Init
<1>2. [Next]_allVars => [TradeNext]_tradeVars /\ [CacheNext]_cacheVars /\ [PlNext]_plVars
  BY DEF Next, allVars
<1> QED
  BY <1>1, <1>2, PTL DEF Spec, TradeSpec, CacheSpec, PlSpec

\* Accounts, calls and locks, files and readers keep their types.
THEOREM AccountsTypeCorrect == Spec => []TypeOK
<1>1. TradeTypeOK /\ CacheTypeOK => TypeOK
  BY DEF TypeOK
<1> QED
  BY <1>1, EachOnItsOwn, TradeTypeCorrect, CacheTypeCorrect, PTL

=============================================================================
