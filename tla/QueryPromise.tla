---------------------------- MODULE QueryPromise ----------------------------
(***************************************************************************)
(* What a synchronous call of the SDK promises its caller: it returns at   *)
(* most once; it returns an answer only when the gateway has carried the   *)
(* request out; and the gateway carries a request out at most once,        *)
(* however the connection behaves. An error says nothing about whether the *)
(* request was carried out.                                                *)
(***************************************************************************)
EXTENDS Naturals

CONSTANT Queries

VARIABLES
    call,     \* "idle", "pending", "answer" or "error" for every query
    executed  \* how often the gateway has carried each out

vars == <<call, executed>>

Init == call = [q \in Queries |-> "idle"] /\ executed = [q \in Queries |-> 0]

Invoke(q) ==
    /\ call[q] = "idle"
    /\ call' = [call EXCEPT ![q] = "pending"]
    /\ UNCHANGED executed

\* The caller may have given up by the time the gateway acts.
Execute(q) ==
    /\ call[q] \in {"pending", "error"} /\ executed[q] = 0
    /\ executed' = [executed EXCEPT ![q] = 1]
    /\ UNCHANGED call

ReturnAnswer(q) ==
    /\ call[q] = "pending" /\ executed[q] = 1
    /\ call' = [call EXCEPT ![q] = "answer"]
    /\ UNCHANGED executed

ReturnError(q) ==
    /\ call[q] = "pending"
    /\ call' = [call EXCEPT ![q] = "error"]
    /\ UNCHANGED executed

Next == \E q \in Queries :
            Invoke(q) \/ Execute(q) \/ ReturnAnswer(q) \/ ReturnError(q)

Spec == Init /\ [][Next]_vars
=============================================================================
