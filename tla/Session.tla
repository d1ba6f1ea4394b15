------------------------------ MODULE Session ------------------------------
(***************************************************************************)
(* What the modules above the connection state machine may rely on: how    *)
(* the session of an OpenContextBase comes and goes. OpenContext           *)
(* implements this module, and Requests takes the steps of its session     *)
(* from it.                                                                *)
(*                                                                         *)
(* READY does not promise a connection. The reply to InitConnect is        *)
(* applied whatever has happened since it was fetched (Grant), and may     *)
(* find the connection lost, or the context closed by its user.            *)
(***************************************************************************)
EXTENDS Naturals

CONSTANTS
    Links,   \* connections that are ever opened, numbered in that order
    NoLink   \* none of them

VARIABLES
    status,  \* "READY", "CLOSING", "CLOSED" once the user has closed the
             \* context, and "DOWN" for every status on the way to READY
    auto,    \* _auto_reconnect: FALSE from the user's close() on
    trying,  \* a thread is on its way through _init_connect_sync
    link,    \* the connection _conn_id names, while it stands
    ended    \* connections that stand no more, and those given up

vars == <<status, auto, trying, link, ended>>

Init ==
    /\ status = "DOWN" /\ auto = TRUE /\ trying = FALSE
    /\ link = NoLink /\ ended = {}

\* One thread at a time, and only when nothing is left of the last connection.
Try ==
    /\ auto /\ ~trying /\ link = NoLink
    /\ status \in {"DOWN", "READY"}
    /\ status' = "DOWN" /\ trying' = TRUE
    /\ UNCHANGED <<auto, link, ended>>

InOrder(c) == \A d \in Links : d < c => d \in ended

\* A connection never stands twice.
Connect ==
    /\ trying /\ link = NoLink
    /\ link' \in Links \ ended /\ InOrder(link')
    /\ \/ status \in {"DOWN", "CLOSING"} /\ UNCHANGED status
       \/ status = "CLOSING" /\ status' = "CLOSED"
    /\ UNCHANGED <<auto, trying, ended>>

\* An attempt fails. A thread that is not told of it waits for ever.
Refuse ==
    /\ link = NoLink
    /\ \E c \in Links : InOrder(c) /\ ended' = ended \union {c}
    /\ \/ trying /\ UNCHANGED status
       \/ status = "CLOSING" /\ status' = "CLOSED"
    /\ trying' \in {trying, FALSE}
    /\ UNCHANGED <<auto, link>>

Grant ==
    /\ trying /\ trying' = FALSE
    /\ status' = "READY"
    /\ UNCHANGED <<auto, link, ended>>

\* The thread gives up, and its connection with it.
Abandon ==
    /\ trying /\ trying' = FALSE
    /\ link' = NoLink /\ ended' = ended \union ({link} \ {NoLink})
    /\ UNCHANGED <<status, auto>>

\* The connection is lost, or closed as the user asked.
Lose ==
    /\ link # NoLink
    /\ link' = NoLink /\ ended' = ended \union {link}
    /\ status' = IF auto THEN "DOWN" ELSE "CLOSED"
    /\ trying' \in {trying, FALSE}
    /\ UNCHANGED auto

Close ==
    /\ auto' = FALSE
    /\ \/ status = "READY" /\ status' = "CLOSING"
       \/ status = "DOWN" /\ status' \in {"CLOSING", "CLOSED"}
       \/ status \in {"CLOSING", "CLOSED"} /\ UNCHANGED status
    /\ UNCHANGED <<trying, link, ended>>

Next == Try \/ Connect \/ Refuse \/ Grant \/ Abandon \/ Lose \/ Close

Spec == Init /\ [][Next]_vars
=============================================================================
