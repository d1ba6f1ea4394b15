------------------------------ MODULE SendPath ------------------------------
(***************************************************************************)
(* The way of a packet from a caller's thread to the socket                *)
(* (moomoo/common/network_manager.py): send() and close() queue a piece of *)
(* work and wake the network thread by a byte in a pipe; the network       *)
(* thread sends what the socket takes, keeps the rest in the connection's  *)
(* write buffer and asks the selector to tell when there is room again.    *)
(*                                                                         *)
(* One NetManager serves all contexts of the process, so several           *)
(* connections share the queue. A byte is its place among those handed     *)
(* over for its connection.                                                *)
(***************************************************************************)
EXTENDS Integers, Sequences, FiniteSets

CONSTANTS
    Conns,      \* connections
    Callers,    \* threads that call send() and close()
    PacketLens, \* lengths of the packets
    MaxBytes,   \* bound: bytes handed over for a connection
    MaxCloses   \* bound: requests to close a connection waiting in the queue

ASSUME SendPathAssumption ==
    /\ PacketLens \subseteq Nat \ {0} /\ MaxBytes \in Nat /\ MaxCloses \in Nat
    /\ IsFiniteSet(Conns)

VARIABLES
    state,    \* ConnStatus: "Connecting", "Connected", "Closed"
    handed,   \* bytes handed to send()
    took,     \* the bytes the socket has taken
    writeBuf, \* Connection.writebuf
    watch,    \* EVENT_WRITE is asked for
    work,     \* _req_queue
    putting,  \* callers that have queued work and not yet written to the pipe
    pipe,     \* there are bytes in the pipe
    draining  \* the network thread is emptying _req_queue

sendVars == <<state, handed, took, writeBuf, watch, work, putting, pipe, draining>>

SendInit ==
    /\ state = [c \in Conns |-> "Connecting"]
    /\ handed = [c \in Conns |-> 0]
    /\ took = [c \in Conns |-> <<>>]
    /\ writeBuf = [c \in Conns |-> <<>>]
    /\ watch = [c \in Conns |-> TRUE]
    /\ work = <<>> /\ putting = {} /\ pipe = FALSE /\ draining = FALSE

-----------------------------------------------------------------------------
(***************************************************************************)
(* Callers.                                                                *)
(***************************************************************************)
\* Work is queued; Wake follows.
Put(t, w) ==
    /\ t \notin putting /\ putting' = putting \union {t}
    /\ work' = Append(work, w)
    /\ UNCHANGED pipe

\* send(): the context has seen the connection up.
Send(t, c) ==
    /\ state[c] # "Connecting"
    /\ \E n \in PacketLens :
          /\ handed[c] + n <= MaxBytes
          /\ handed' = [handed EXCEPT ![c] = @ + n]
          /\ Put(t, [op |-> "send", conn |-> c,
                     data |-> [i \in 1 .. n |-> handed[c] + i]])
    /\ UNCHANGED <<state, took, writeBuf, watch, draining>>

\* close(), of a connection that may still be connecting, or that others have asked
\* to be closed as well. (It finds nothing in the table if the connection is gone.)
CloseConn(t, c) ==
    /\ state[c] # "Closed"
    /\ Cardinality({i \in DOMAIN work : work[i].op = "close" /\ work[i].conn = c})
          < MaxCloses
    /\ Put(t, [op |-> "close", conn |-> c, data |-> <<>>])
    /\ UNCHANGED <<state, handed, took, writeBuf, watch, draining>>

\* The byte that wakes the network thread.
Wake(t) ==
    /\ t \in putting /\ putting' = putting \ {t}
    /\ pipe' = TRUE
    /\ UNCHANGED <<state, handed, took, writeBuf, watch, work, draining>>

-----------------------------------------------------------------------------
(***************************************************************************)
(* The network thread.                                                     *)
(***************************************************************************)
\* poll: the pipe is readable; all that is in it is read.
Woken ==
    /\ ~draining /\ pipe
    /\ pipe' = FALSE /\ draining' = TRUE
    /\ UNCHANGED <<state, handed, took, writeBuf, watch, work, putting>>

\* Variant: one piece of work is done for every time the pipe is read.
Drained_Early ==
    /\ draining
    /\ draining' = FALSE
    /\ UNCHANGED <<state, handed, took, writeBuf, watch, work, putting, pipe>>

Drained ==
    /\ draining /\ work = <<>>
    /\ draining' = FALSE
    /\ UNCHANGED <<state, handed, took, writeBuf, watch, work, putting, pipe>>

\* Variant: a packet goes to the socket whatever the write buffer holds.
DoSend_Overtakes(c, data) ==
    \E size \in 0 .. Len(data) :
        /\ took' = [took EXCEPT ![c] = @ \o SubSeq(data, 1, size)]
        /\ writeBuf' = [writeBuf EXCEPT ![c] = @ \o SubSeq(data, size + 1, Len(data))]
        /\ watch' = [watch EXCEPT ![c] = @ \/ size < Len(data)]
        /\ UNCHANGED state

\* Variant: the rest is kept and the selector not asked.
DoSend_NotWatched(c, data) ==
    \E size \in 0 .. IF writeBuf[c] = <<>> THEN Len(data) ELSE 0 :
        /\ took' = [took EXCEPT ![c] = @ \o SubSeq(data, 1, size)]
        /\ writeBuf' = [writeBuf EXCEPT ![c] = @ \o SubSeq(data, size + 1, Len(data))]
        /\ UNCHANGED <<state, watch>>

\* do_send on a connected socket: it takes nothing if the write buffer is in use,
\* otherwise as much as it likes, or fails.
DoSend(c, data) ==
    \E size \in 0 .. IF writeBuf[c] = <<>> THEN Len(data) ELSE 0 :
        /\ took' = [took EXCEPT ![c] = @ \o SubSeq(data, 1, size)]
        /\ writeBuf' = [writeBuf EXCEPT ![c] = @ \o SubSeq(data, size + 1, Len(data))]
        /\ watch' = [watch EXCEPT ![c] = @ \/ size < Len(data)]
        /\ state' \in {state} \union
              IF size = 0 /\ writeBuf[c] = <<>>
              THEN {[state EXCEPT ![c] = "Closed"]} ELSE {}

\* One piece of work. A packet whose connection is gone is dropped.
DoWork ==
    /\ draining /\ work # <<>>
    /\ work' = Tail(work)
    /\ LET w == Head(work) IN
       \/ /\ w.op = "send" /\ state[w.conn] = "Connected"
          /\ DoSend(w.conn, w.data)
       \/ /\ w.op = "send" /\ state[w.conn] # "Connected"
          /\ UNCHANGED <<state, took, writeBuf, watch>>
       \/ /\ w.op = "close"
          /\ state' = [state EXCEPT ![w.conn] = "Closed"]
          /\ UNCHANGED <<took, writeBuf, watch>>
    /\ UNCHANGED <<handed, putting, pipe, draining>>

\* Variant: a write that was partial is taken for a whole one.
OnWrite_AllGone(c) ==
    /\ ~draining /\ state[c] = "Connected" /\ watch[c]
    /\ \E size \in 0 .. Len(writeBuf[c]) :
          /\ took' = [took EXCEPT ![c] = @ \o SubSeq(writeBuf[c], 1, size)]
          /\ writeBuf' = [writeBuf EXCEPT ![c] = <<>>]
    /\ watch' = [watch EXCEPT ![c] = FALSE]
    /\ UNCHANGED <<state, handed, work, putting, pipe, draining>>

\* _on_write of a connected socket.
OnWrite(c) ==
    /\ ~draining /\ state[c] = "Connected" /\ watch[c]
    /\ \E size \in 0 .. Len(writeBuf[c]) :
          /\ took' = [took EXCEPT ![c] = @ \o SubSeq(writeBuf[c], 1, size)]
          /\ writeBuf' = [writeBuf EXCEPT ![c] = SubSeq(@, size + 1, Len(@))]
    /\ watch' = [watch EXCEPT ![c] = writeBuf'[c] # <<>>]
    /\ UNCHANGED <<state, handed, work, putting, pipe, draining>>

\* _on_write of a connecting socket: it is connected.
Connected(c) ==
    /\ ~draining /\ state[c] = "Connecting"
    /\ state' = [state EXCEPT ![c] = "Connected"]
    /\ watch' = [watch EXCEPT ![c] = FALSE]
    /\ UNCHANGED <<handed, took, writeBuf, work, putting, pipe, draining>>

\* A read or a write fails.
Lose(c) ==
    /\ ~draining /\ state[c] = "Connected"
    /\ state' = [state EXCEPT ![c] = "Closed"]
    /\ UNCHANGED <<handed, took, writeBuf, watch, work, putting, pipe, draining>>

\* Room in the socket: what the selector reports in the end is a write of a byte
\* or more.
Progress(c) == OnWrite(c) /\ took' # took

SendNext ==
    \/ \E t \in Callers, c \in Conns : Send(t, c) \/ CloseConn(t, c)
    \/ \E t \in Callers : Wake(t)
    \/ Woken \/ Drained \/ DoWork
    \/ \E c \in Conns : OnWrite(c) \/ Connected(c) \/ Lose(c)

SendFairness ==
    /\ WF_sendVars(Woken \/ Drained \/ DoWork)
    /\ \A t \in Callers : WF_sendVars(Wake(t))
    /\ \A c \in Conns : WF_sendVars(Progress(c))

SendSpec == SendInit /\ [][SendNext]_sendVars /\ SendFairness
-----------------------------------------------------------------------------
(***************************************************************************)
(* Properties.                                                             *)
(***************************************************************************)
\* Every variable keeps its type.
SendTypeOK ==
    /\ state \in [Conns -> {"Connecting", "Connected", "Closed"}]
    /\ handed \in [Conns -> 0 .. MaxBytes]
    /\ took \in [Conns -> Seq(1 .. MaxBytes)] /\ writeBuf \in [Conns -> Seq(1 .. MaxBytes)]
    /\ watch \in [Conns -> BOOLEAN]
    /\ work \in Seq([op : {"send", "close"}, conn : Conns, data : Seq(1 .. MaxBytes)])
    /\ putting \subseteq Callers /\ pipe \in BOOLEAN /\ draining \in BOOLEAN

\* Work that is queued has been announced to the network thread, or is about to
\* be: nothing but the pipe makes it look at the queue.
WorkAnnounced == work # <<>> => draining \/ pipe \/ putting # {}

\* What the socket does not take at once is waited for: otherwise the rest of a
\* packet, and all that is sent after it, would stay in the write buffer.
RestWatched ==
    \A c \in Conns : state[c] = "Connected" /\ writeBuf[c] # <<>> => watch[c]

\* Each connection is a stream of bytes in the order in which they were handed
\* over, whatever the other contexts of the process send.
Stream ==
    INSTANCE ByteStream
        WITH passed <- took, open <- {c \in Conns : state[c] = "Connected"}

KeepsOrder == Stream!Spec

\* All that was handed over reaches the socket, unless the connection is closed.
AllSent ==
    \A c \in Conns :
        handed[c] > 0 ~> (Len(took[c]) = handed[c] \/ state[c] # "Connected")
=============================================================================
