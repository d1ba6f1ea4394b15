----------------------------- MODULE ByteStream -----------------------------
(***************************************************************************)
(* What NetManager.send promises of a connection: the bytes handed to it   *)
(* reach the socket in the order in which they were handed over, none      *)
(* twice and none left out, until the connection is closed. A byte is its  *)
(* place in the order in which they were handed over.                      *)
(***************************************************************************)
EXTENDS Naturals, Sequences

CONSTANT Conns

VARIABLES
    handed,  \* how many bytes have been handed over for each connection
    passed,  \* the bytes its socket has taken
    open     \* the connections that stand

svars == <<handed, passed, open>>

Init ==
    /\ handed = [c \in Conns |-> 0] /\ passed = [c \in Conns |-> <<>>]
    /\ open = {}

HandOver(c) ==
    /\ handed'[c] \in Nat /\ handed'[c] > handed[c]
    /\ handed' = [handed EXCEPT ![c] = handed'[c]]
    /\ UNCHANGED <<passed, open>>

\* The socket takes the next bytes, as many as it likes.
Pass(c) ==
    /\ c \in open
    /\ \E n \in Len(passed[c]) + 1 .. handed[c] :
          passed' = [passed EXCEPT ![c] = [i \in 1 .. n |-> i]]
    /\ UNCHANGED <<handed, open>>

Open(c) == passed[c] = <<>> /\ open' = open \union {c} /\ UNCHANGED <<handed, passed>>
Shut(c) == open' = open \ {c} /\ UNCHANGED <<handed, passed>>

Next == \E c \in Conns : HandOver(c) \/ Pass(c) \/ Open(c) \/ Shut(c)

Spec == Init /\ [][Next]_svars
=============================================================================
