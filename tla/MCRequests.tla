----------------------------- MODULE MCRequests -----------------------------
(***************************************************************************)
(* Model values for Requests: two callers and one keep-alive.              *)
(***************************************************************************)
EXTENDS Requests

CONSTANTS q1, q2, ping

MCQueries == {q1, q2}
MCPings   == {ping}
=============================================================================
