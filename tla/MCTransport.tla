---------------------------- MODULE MCTransport ----------------------------
(***************************************************************************)
(* The two directions of a connection in one run. They share no state, so  *)
(* each is explored with the other one at rest: a behaviour is one of      *)
(* SendPath or one of PushDelivery.                                        *)
(***************************************************************************)
EXTENDS SendPath, PushDelivery

VARIABLE side   \* "send" or "push"

allVars == <<side, sendVars, pushVars>>

Init ==
    /\ side \in {"send", "push"}
    /\ SendInit /\ PushInit
    /\ side = "send" => ~encrypted

Next ==
    \/ side = "send" /\ SendNext /\ UNCHANGED <<side, pushVars>>
    \/ side = "push" /\ PushNext /\ UNCHANGED <<side, sendVars>>

Spec == Init /\ [][Next]_allVars /\ SendFairness /\ PushFairness

TypeOK == SendTypeOK /\ PushTypeOK
=============================================================================
