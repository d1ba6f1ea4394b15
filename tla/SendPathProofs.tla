--------------------------- MODULE SendPathProofs ---------------------------
(***************************************************************************)
(* The safety of SendPath for any connections, callers and packet lengths, *)
(* and the refinement of ByteStream by it.                                 *)
(***************************************************************************)
EXTENDS SendPath, SequenceFacts, TLAPS

Work == [op : {"send", "close"}, conn : Conns, data : Seq(1 .. MaxBytes)]

-----------------------------------------------------------------------------
(***************************************************************************)
(* The packets of a connection in the queue take up where the bytes that   *)
(* have gone end, each where the one before it ends, and end with the last *)
(* byte handed over.                                                       *)
(***************************************************************************)
Sends(w, c) == {i \in 1 .. Len(w) : w[i].op = "send" /\ w[i].conn = c}

Start(p) == p.data[1] - 1
End(p)   == Start(p) + Len(p.data)

Contiguous(p) == Len(p.data) > 0 /\ \A k \in 1 .. Len(p.data) : p.data[k] = Start(p) + k

Follow(w, c, gone, total) ==
    /\ \A i \in Sends(w, c) :
          /\ Contiguous(w[i])
          /\ gone <= Start(w[i]) /\ End(w[i]) <= total
          /\ Start(w[i]) = gone
                \/ \E j \in Sends(w, c) : j < i /\ End(w[j]) = Start(w[i])
    /\ \A i, j \in Sends(w, c) : j < i => End(w[j]) <= Start(w[i])
    /\ total = gone \/ \E j \in Sends(w, c) : End(w[j]) = total

LEMMA Bounds ==
    ASSUME NEW q \in Work, Len(q.data) > 0
    PROVE  Start(q) \in Int /\ End(q) \in Int /\ Start(q) < End(q)
<1>1. q.data \in Seq(1 .. MaxBytes) /\ Len(q.data) \in Nat
  BY DEF Work
<1>2. 1 \in 1 .. Len(q.data)
  BY <1>1
<1>3. q.data[1] \in 1 .. MaxBytes
  BY <1>1, <1>2, ElementOfSeq
<1>4. Start(q) \in Int
  BY <1>3 DEF Start
<1> QED
  BY <1>1, <1>4 DEF End

\* A packet that is queued begins with the byte after the last.
LEMMA FollowAppend ==
    ASSUME NEW w \in Seq(Work), NEW p \in Work, NEW c \in Conns,
           NEW gone \in Nat, NEW total \in Nat, gone <= total,
           Follow(w, c, gone, total),
           p.op = "send", p.conn = c, Contiguous(p), Start(p) = total
    PROVE  Follow(Append(w, p), c, gone, End(p))
<1> DEFINE v == Append(w, p)
           n == Len(w) + 1
<1>1. Len(w) \in Nat /\ Len(v) = n /\ v[n] = p /\ \A i \in 1 .. Len(w) : v[i] = w[i]
  OBVIOUS
<1>2. Sends(v, c) = Sends(w, c) \union {n}
  BY <1>1 DEF Sends
<1>3. \A i \in Sends(w, c) : i \in 1 .. Len(w) /\ i < n /\ v[i] = w[i]
  BY <1>1 DEF Sends
<1>4. /\ \A i \in Sends(w, c) : Start(w[i]) \in Int /\ End(w[i]) \in Int
      /\ Start(p) \in Int /\ End(p) \in Int /\ total < End(p)
  <2>1. \A i \in Sends(w, c) : w[i] \in Work /\ Len(w[i].data) > 0
    BY DEF Sends, Follow, Contiguous
  <2>2. Len(p.data) > 0
    BY DEF Contiguous
  <2> QED
    BY <2>1, <2>2, Bounds
<1>5. \A i \in Sends(v, c) :
         /\ Contiguous(v[i]) /\ gone <= Start(v[i]) /\ End(v[i]) <= End(p)
         /\ Start(v[i]) = gone \/ \E j \in Sends(v, c) : j < i /\ End(v[j]) = Start(v[i])
  <2> TAKE i \in Sends(v, c)
  <2>1. CASE i \in Sends(w, c)
    <3>1. /\ Contiguous(w[i]) /\ gone <= Start(w[i]) /\ End(w[i]) <= total
          /\ Start(w[i]) = gone
                \/ \E j \in Sends(w, c) : j < i /\ End(w[j]) = Start(w[i])
      BY <2>1 DEF Follow
    <3> QED
      BY <3>1, <2>1, <1>2, <1>3, <1>4
  <2>2. CASE i = n
    <3>1. total = gone \/ \E j \in Sends(w, c) : End(w[j]) = total
      BY DEF Follow
    <3> QED
      BY <3>1, <2>2, <1>1, <1>2, <1>3, <1>4
  <2> QED
    BY <2>1, <2>2, <1>2
<1>6. ASSUME NEW i \in Sends(v, c), NEW j \in Sends(v, c), j < i
      PROVE  End(v[j]) <= Start(v[i])
  <2>1. j \in Sends(w, c) /\ i \in 1 .. n
    BY <1>6, <1>1, <1>2, <1>3
  <2>2. CASE i \in Sends(w, c)
    BY <2>1, <2>2, <1>6, <1>3 DEF Follow
  <2>3. CASE i = n
    BY <2>1, <2>3, <1>1, <1>3, <1>4 DEF Follow
  <2> QED
    BY <2>2, <2>3, <1>2
<1>7. \E j \in Sends(v, c) : End(v[j]) = End(p)
  BY <1>1, <1>2
<1> QED
  BY <1>5, <1>6, <1>7 DEF Follow

\* Work that is not about a connection does not matter to it, when it is queued and
\* when it is done.
LEMMA FollowOther ==
    ASSUME NEW w \in Seq(Work), NEW p \in Work, NEW c \in Conns, NEW gone, NEW total,
           Follow(w, c, gone, total), p.op # "send" \/ p.conn # c
    PROVE  Follow(Append(w, p), c, gone, total)
<1> DEFINE v == Append(w, p)
<1>1. /\ Len(w) \in Nat /\ Len(v) = Len(w) + 1 /\ v[Len(w) + 1] = p
      /\ \A i \in 1 .. Len(w) : v[i] = w[i]
  OBVIOUS
<1>2. Sends(v, c) = Sends(w, c)
  BY <1>1 DEF Sends
<1>3. \A i \in Sends(w, c) : v[i] = w[i]
  BY <1>1 DEF Sends
<1> HIDE DEF v
<1> QED
  BY <1>2, <1>3 DEF Follow, v

LEMMA FollowTail ==
    ASSUME NEW w \in Seq(Work), NEW c \in Conns, NEW gone, NEW total,
           Follow(w, c, gone, total), w # <<>>, 1 \notin Sends(w, c)
    PROVE  Follow(Tail(w), c, gone, total)
<1> DEFINE v == Tail(w)
<1>1. /\ Len(w) \in Nat /\ Len(v) = Len(w) - 1
      /\ \A i \in 1 .. Len(v) : v[i] = w[i + 1]
  BY HeadTailProperties
<1>2. \A i \in Sends(v, c) : i \in Int /\ i + 1 \in Sends(w, c) /\ v[i] = w[i + 1]
  BY <1>1 DEF Sends
<1>3. \A i \in Sends(w, c) : i \in Int /\ i - 1 \in Sends(v, c) /\ v[i - 1] = w[i]
  <2> TAKE i \in Sends(w, c)
  <2>1. i \in 2 .. Len(w)
    BY <1>1 DEF Sends
  <2>2. i - 1 \in 1 .. Len(v) /\ v[i - 1] = w[i]
    BY <2>1, <1>1
  <2> QED
    BY <2>1, <2>2 DEF Sends
<1>4. \A i \in Sends(v, c) :
         /\ Contiguous(v[i]) /\ gone <= Start(v[i]) /\ End(v[i]) <= total
         /\ Start(v[i]) = gone \/ \E j \in Sends(v, c) : j < i /\ End(v[j]) = Start(v[i])
  <2> TAKE i \in Sends(v, c)
  <2>1. /\ Contiguous(w[i + 1]) /\ gone <= Start(w[i + 1]) /\ End(w[i + 1]) <= total
        /\ Start(w[i + 1]) = gone
              \/ \E j \in Sends(w, c) : j < i + 1 /\ End(w[j]) = Start(w[i + 1])
    BY <1>2 DEF Follow
  <2>2. ASSUME NEW j \in Sends(w, c), j < i + 1, End(w[j]) = Start(w[i + 1])
        PROVE  \E k \in Sends(v, c) : k < i /\ End(v[k]) = Start(v[i])
    <3>1. i \in Int /\ j \in Int
      BY <1>2, <1>3
    <3>2. j - 1 < i
      BY <3>1, <2>2
    <3>3. j - 1 \in Sends(v, c) /\ v[j - 1] = w[j]
      BY <1>3
    <3> QED
      BY <3>2, <3>3, <2>2, <1>2
  <2> QED
    BY <2>1, <2>2, <1>2
<1>5. \A i, j \in Sends(v, c) : j < i => End(v[j]) <= Start(v[i])
  <2> TAKE i, j \in Sends(v, c)
  <2> HAVE j < i
  <2>1. i + 1 \in Sends(w, c) /\ j + 1 \in Sends(w, c) /\ j + 1 < i + 1
    BY <1>2
  <2>2. End(w[j + 1]) <= Start(w[i + 1])
    BY <2>1 DEF Follow
  <2> QED
    BY <2>2, <1>2
<1>6. total = gone \/ \E j \in Sends(v, c) : End(v[j]) = total
  BY <1>3 DEF Follow
<1> QED
  BY <1>4, <1>5, <1>6 DEF Follow

\* The packet at the head of the queue is the next one of its connection, and the
\* others of it follow.
LEMMA FollowHead ==
    ASSUME NEW w \in Seq(Work), NEW c \in Conns, NEW gone \in Nat, NEW total \in Nat,
           Follow(w, c, gone, total), w # <<>>, 1 \in Sends(w, c)
    PROVE  /\ Contiguous(w[1]) /\ Start(w[1]) = gone /\ End(w[1]) <= total
           /\ Follow(Tail(w), c, End(w[1]), total)
<1> DEFINE v == Tail(w)
<1>1. /\ Len(w) \in Nat /\ Len(v) = Len(w) - 1
      /\ \A i \in 1 .. Len(v) : v[i] = w[i + 1]
  BY HeadTailProperties
<1>2. \A i \in Sends(v, c) : i \in Nat /\ 1 < i + 1 /\ i + 1 \in Sends(w, c) /\ v[i] = w[i + 1]
  BY <1>1 DEF Sends
<1>3. \A i \in Sends(w, c) : i \in Nat /\ (i # 1 => i - 1 \in Sends(v, c) /\ v[i - 1] = w[i])
  <2> TAKE i \in Sends(w, c)
  <2>1. i \in 1 .. Len(w) /\ w[i].op = "send" /\ w[i].conn = c
    BY DEF Sends
  <2>2. ASSUME i # 1 PROVE i - 1 \in 1 .. Len(v) /\ v[i - 1] = w[i]
    BY <2>1, <2>2, <1>1
  <2> QED
    BY <2>1, <2>2 DEF Sends
<1>4. \A i \in Sends(w, c) :
         Start(w[i]) \in Int /\ End(w[i]) \in Int /\ Start(w[i]) < End(w[i])
  <2>1. \A i \in Sends(w, c) : w[i] \in Work /\ Len(w[i].data) > 0
    BY DEF Sends, Follow, Contiguous
  <2> QED
    BY <2>1, Bounds
<1>5. Contiguous(w[1]) /\ Start(w[1]) = gone /\ End(w[1]) <= total
  <2>1. \A j \in Sends(w, c) : ~(j < 1)
    BY DEF Sends
  <2> QED
    BY <2>1 DEF Follow
<1>6. ASSUME NEW i \in Sends(v, c)
      PROVE /\ Contiguous(v[i]) /\ End(w[1]) <= Start(v[i]) /\ End(v[i]) <= total
            /\ Start(v[i]) = End(w[1])
                  \/ \E j \in Sends(v, c) : j < i /\ End(v[j]) = Start(v[i])
  <2>1. /\ Contiguous(w[i + 1]) /\ End(w[i + 1]) <= total
        /\ Start(w[i + 1]) = gone
              \/ \E j \in Sends(w, c) : j < i + 1 /\ End(w[j]) = Start(w[i + 1])
    BY <1>2 DEF Follow
  <2>2. End(w[1]) <= Start(w[i + 1])
    BY <1>2 DEF Follow
  <2>3. Start(w[i + 1]) # gone
    BY <2>2, <1>2, <1>4, <1>5
  <2>4. PICK j \in Sends(w, c) : j < i + 1 /\ End(w[j]) = Start(w[i + 1])
    BY <2>1, <2>3
  <2>5. CASE j = 1
    BY <2>1, <2>2, <2>4, <2>5, <1>2
  <2>6. CASE j # 1
    <3>1. i \in Int /\ j \in Int
      BY <1>2, <1>3
    <3>2. j - 1 < i
      BY <3>1, <2>4
    <3>3. j - 1 \in Sends(v, c) /\ v[j - 1] = w[j]
      BY <2>6, <1>3
    <3> QED
      BY <3>2, <3>3, <2>1, <2>2, <2>4, <1>2
  <2> QED
    BY <2>5, <2>6
<1>7. \A i, j \in Sends(v, c) : j < i => End(v[j]) <= Start(v[i])
  <2> TAKE i, j \in Sends(v, c)
  <2> HAVE j < i
  <2>1. i + 1 \in Sends(w, c) /\ j + 1 \in Sends(w, c) /\ j + 1 < i + 1
    BY <1>2
  <2>2. End(w[j + 1]) <= Start(w[i + 1])
    BY <2>1 DEF Follow
  <2> QED
    BY <2>2, <1>2
<1>8. total = End(w[1]) \/ \E j \in Sends(v, c) : End(v[j]) = total
  <2>1. total # gone
    BY <1>4, <1>5
  <2>2. PICK j \in Sends(w, c) : End(w[j]) = total
    BY <2>1 DEF Follow
  <2> QED
    BY <2>2, <1>3
<1> QED
  BY <1>5, <1>6, <1>7, <1>8 DEF Follow

-----------------------------------------------------------------------------
(***************************************************************************)
(* What the socket takes.                                                  *)
(***************************************************************************)
\* The bytes of s are those that follow the first n.
From(s, n) == \A i \in 1 .. Len(s) : s[i] = n + i

\* Part of the write buffer goes.
LEMMA Written ==
    ASSUME NEW S, NEW t \in Seq(S), NEW b \in Seq(S), NEW size \in 0 .. Len(b),
           From(t, 0), From(b, Len(t))
    PROVE  LET t2 == t \o SubSeq(b, 1, size)
               b2 == SubSeq(b, size + 1, Len(b))
           IN /\ t2 \in Seq(S) /\ Len(t2) = Len(t) + size /\ From(t2, 0)
              /\ b2 \in Seq(S) /\ Len(b2) = Len(b) - size /\ From(b2, Len(t2))
<1> DEFINE a == SubSeq(b, 1, size)
           t2 == t \o a
           b2 == SubSeq(b, size + 1, Len(b))
<1>1. /\ a \in Seq(S) /\ Len(a) = size /\ \A i \in 1 .. size : a[i] = b[i]
      /\ b2 \in Seq(S) /\ Len(b2) = Len(b) - size
      /\ \A i \in 1 .. Len(b) - size : b2[i] = b[size + i]
  BY Cut
<1>2. /\ t2 \in Seq(S) /\ Len(t2) = Len(t) + Len(a)
      /\ \A i \in 1 .. Len(t) + Len(a) :
            t2[i] = IF i <= Len(t) THEN t[i] ELSE a[i - Len(t)]
  BY <1>1, ConcatProperties
<1>3. Len(t) \in Nat /\ Len(b) \in Nat /\ size \in Nat
  OBVIOUS
<1> HIDE DEF a, t2, b2
<1>4. From(t2, 0)
  <2> SUFFICES ASSUME NEW i \in 1 .. Len(t2) PROVE t2[i] = 0 + i
    BY DEF From
  <2>1. CASE i <= Len(t)
    <3>1. i \in 1 .. Len(t) /\ i \in Int /\ t2[i] = t[i]
      BY <2>1, <1>1, <1>2, <1>3
    <3>2. t[i] = 0 + i
      BY <3>1 DEF From
    <3> QED
      BY <3>1, <3>2
  <2>2. CASE ~(i <= Len(t))
    <3>1. i - Len(t) \in 1 .. size
      BY <2>2, <1>1, <1>2, <1>3
    <3>2. t2[i] = b[i - Len(t)]
      BY <3>1, <2>2, <1>1, <1>2, <1>3
    <3>3. b[i - Len(t)] = Len(t) + (i - Len(t))
      BY <3>1, <1>3 DEF From
    <3> QED
      BY <3>2, <3>3, <1>3
  <2> QED
    BY <2>1, <2>2
<1>5. From(b2, Len(t2))
  <2> SUFFICES ASSUME NEW i \in 1 .. Len(b2) PROVE b2[i] = Len(t2) + i
    BY DEF From
  <2>1. size + i \in 1 .. Len(b) /\ b2[i] = b[size + i]
    BY <1>1, <1>3
  <2>2. b[size + i] = Len(t) + (size + i)
    BY <2>1 DEF From
  <2> QED
    BY <2>1, <2>2, <1>1, <1>2, <1>3
<1> QED
  BY <1>1, <1>2, <1>4, <1>5 DEF a, t2, b2

\* A packet goes behind what is waiting.
LEMMA Queued ==
    ASSUME NEW S, NEW b \in Seq(S), NEW d \in Seq(S), NEW n \in Nat,
           From(b, n), From(d, n + Len(b))
    PROVE  /\ b \o d \in Seq(S) /\ Len(b \o d) = Len(b) + Len(d) /\ From(b \o d, n)
<1> DEFINE e == b \o d
<1>1. /\ e \in Seq(S) /\ Len(e) = Len(b) + Len(d)
      /\ \A i \in 1 .. Len(b) + Len(d) :
            e[i] = IF i <= Len(b) THEN b[i] ELSE d[i - Len(b)]
  BY ConcatProperties
<1>2. Len(b) \in Nat /\ Len(d) \in Nat
  OBVIOUS
<1> HIDE DEF e
<1>3. From(e, n)
  <2> SUFFICES ASSUME NEW i \in 1 .. Len(e) PROVE e[i] = n + i
    BY DEF From
  <2>1. CASE i <= Len(b)
    BY <2>1, <1>1, <1>2 DEF From
  <2>2. CASE ~(i <= Len(b))
    <3>1. i - Len(b) \in 1 .. Len(d) /\ e[i] = d[i - Len(b)]
      BY <2>2, <1>1, <1>2
    <3>2. d[i - Len(b)] = n + Len(b) + (i - Len(b))
      BY <3>1 DEF From
    <3> QED
      BY <3>1, <3>2, <1>2
  <2> QED
    BY <2>1, <2>2
<1> QED
  BY <1>1, <1>3 DEF e

\* do_send, as far as the bytes are concerned.
LEMMA Sent ==
    ASSUME NEW S, NEW t \in Seq(S), NEW b \in Seq(S), NEW d \in Seq(S),
           NEW size \in 0 .. IF b = <<>> THEN Len(d) ELSE 0,
           From(t, 0), From(b, Len(t)), From(d, Len(t) + Len(b))
    PROVE  LET t2 == t \o SubSeq(d, 1, size)
               b2 == b \o SubSeq(d, size + 1, Len(d))
           IN /\ t2 \in Seq(S) /\ Len(t2) = Len(t) + size /\ From(t2, 0)
              /\ b2 \in Seq(S) /\ Len(b2) = Len(b) + Len(d) - size /\ From(b2, Len(t2))
<1> DEFINE t2 == t \o SubSeq(d, 1, size)
           r  == SubSeq(d, size + 1, Len(d))
           b2 == b \o r
<1>1. Len(t) \in Nat /\ Len(b) \in Nat /\ Len(d) \in Nat /\ size \in 0 .. Len(d)
  OBVIOUS
<1>2. CASE b = <<>>
  <2>1. Len(b) = 0 /\ From(d, Len(t))
    BY <1>2, <1>1
  <2>2. /\ t2 \in Seq(S) /\ Len(t2) = Len(t) + size /\ From(t2, 0)
        /\ r \in Seq(S) /\ Len(r) = Len(d) - size /\ From(r, Len(t2))
    BY <2>1, <1>1, Written
  <2>3. b2 = r
    BY <2>2, <1>2, ConcatEmptySeq
  <2> QED
    BY <2>1, <2>2, <2>3, <1>1
<1>3. CASE b # <<>>
  <2>1. size = 0
    BY <1>3
  <2>2. SubSeq(d, 1, size) = <<>> /\ t2 = t
    BY <2>1, SubSeqEmpty, ConcatEmptySeq
  <2>3. r = d
    BY <2>1, SubSeqFull
  <2>4. /\ b2 \in Seq(S) /\ Len(b2) = Len(b) + Len(d) /\ From(b2, Len(t))
    BY <2>3, <1>1, Queued
  <2> HIDE DEF t2, r, b2
  <2>5. t2 \in Seq(S) /\ From(t2, 0) /\ From(b2, Len(t2)) /\ Len(t2) = Len(t)
    BY <2>2, <2>4
  <2>6. Len(t2) = Len(t) + size /\ Len(b2) = Len(b) + Len(d) - size
    BY <2>1, <2>4, <2>5, <1>1
  <2> QED
    BY <2>4, <2>5, <2>6 DEF t2, r, b2
<1> QED
  BY <1>2, <1>3

-----------------------------------------------------------------------------
(***************************************************************************)
(* The inductive invariant. RestWatched needs to know that a connection    *)
(* that has just been made has nothing in its write buffer, and the order  *)
(* of the bytes needs that of the queue.                                   *)
(***************************************************************************)
Gone(c) == Len(took[c]) + Len(writeBuf[c])

Streams(c) ==
    /\ From(took[c], 0) /\ Len(took[c]) <= handed[c]
    /\ state[c] # "Closed" =>
          /\ From(writeBuf[c], Len(took[c])) /\ Gone(c) <= handed[c]
          /\ Follow(work, c, Gone(c), handed[c])
    /\ state[c] = "Connecting" => handed[c] = 0

SendInv == SendTypeOK /\ WorkAnnounced /\ RestWatched /\ \A c \in Conns : Streams(c)

LEMMA SendInitInvariant == SendInit => SendInv
<1> SUFFICES ASSUME SendInit PROVE SendInv
  OBVIOUS
<1> USE SendPathAssumption DEF SendInit
<1>1. SendTypeOK
  <2>1. <<>> \in Seq(1 .. MaxBytes)
    OBVIOUS
  <2>2. took \in [Conns -> Seq(1 .. MaxBytes)] /\ writeBuf \in [Conns -> Seq(1 .. MaxBytes)]
    BY <2>1
  <2>3. handed \in [Conns -> 0 .. MaxBytes]
    OBVIOUS
  <2>4. work \in Seq([op : {"send", "close"}, conn : Conns, data : Seq(1 .. MaxBytes)])
    OBVIOUS
  <2> QED
    BY <2>2, <2>3, <2>4 DEF SendTypeOK
<1>2. WorkAnnounced /\ RestWatched
  BY DEF WorkAnnounced, RestWatched
<1>3. ASSUME NEW c \in Conns PROVE Streams(c)
  <2>1. took[c] = <<>> /\ writeBuf[c] = <<>> /\ handed[c] = 0
    OBVIOUS
  <2>2. Gone(c) = 0 /\ From(took[c], 0) /\ From(writeBuf[c], Len(took[c]))
    BY <2>1 DEF Gone, From
  <2>3. Follow(work, c, 0, 0)
    BY DEF Follow, Sends
  <2> QED
    BY <2>1, <2>2, <2>3 DEF Streams
<1> QED
  BY <1>1, <1>2, <1>3 DEF SendInv

LEMMA Gones ==
    ASSUME NEW c \in Conns,
           took[c] \in Seq(1 .. MaxBytes), writeBuf[c] \in Seq(1 .. MaxBytes)
    PROVE  Len(took[c]) \in Nat /\ Len(writeBuf[c]) \in Nat /\ Gone(c) \in Nat
<1>1. \A m, n \in Nat : m + n \in Nat
  OBVIOUS
<1>2. Len(took[c]) \in Nat /\ Len(writeBuf[c]) \in Nat
  OBVIOUS
<1> QED
  BY ONLY <1>1, <1>2 DEF Gone

LEMMA SendInvariant ==
    ASSUME SendInv, NEW t \in Callers, NEW c \in Conns, Send(t, c)
    PROVE  SendInv'
<1>0. /\ state' = state /\ took' = took /\ writeBuf' = writeBuf
      /\ watch' = watch /\ draining' = draining /\ pipe' = pipe
      /\ state[c] # "Connecting"
  BY DEF Send, Put
<1> USE SendPathAssumption
<1>1. PICK n \in PacketLens :
         /\ handed[c] + n <= MaxBytes
         /\ handed' = [handed EXCEPT ![c] = @ + n]
         /\ Put(t, [op |-> "send", conn |-> c, data |-> [i \in 1 .. n |-> handed[c] + i]])
  BY DEF Send
<1> DEFINE d == [i \in 1 .. n |-> handed[c] + i]
           p == [op |-> "send", conn |-> c, data |-> d]
<1>2. /\ handed[c] \in 0 .. MaxBytes /\ n \in Nat /\ n > 0
      /\ handed' = [handed EXCEPT ![c] = @ + n] /\ handed[c] + n \in 0 .. MaxBytes
      /\ work' = Append(work, p) /\ putting' = putting \union {t}
  <2>1. handed[c] \in 0 .. MaxBytes /\ n \in Nat /\ n > 0
    BY DEF SendInv, SendTypeOK
  <2>2. handed[c] + n \in 0 .. MaxBytes
    BY <1>1, <2>1
  <2>3. work' = Append(work, p) /\ putting' = putting \union {t}
    BY <1>1 DEF Put
  <2> QED
    BY <1>1, <2>1, <2>2, <2>3
<1>3. d \in Seq(1 .. MaxBytes) /\ Len(d) = n
  <2>1. \A i \in 1 .. n : handed[c] + i \in 1 .. MaxBytes
    BY <1>1, <1>2
  <2> QED
    BY <2>1, <1>2
<1>4. p \in Work /\ work \in Seq(Work)
  BY <1>3 DEF Work, SendInv, SendTypeOK
<1>5. SendTypeOK'
  <2>1. work' \in Seq(Work)
    BY <1>2, <1>4
  <2>2. handed' \in [Conns -> 0 .. MaxBytes]
    BY <1>2 DEF SendInv, SendTypeOK
  <2> QED
    BY <1>0, <1>2, <2>1, <2>2 DEF SendInv, SendTypeOK, Work
<1>6. WorkAnnounced' /\ RestWatched'
  BY <1>0, <1>2 DEF SendInv, WorkAnnounced, RestWatched
<1>7. Contiguous(p) /\ Start(p) = handed[c] /\ End(p) = handed[c] + n
  <2>1. p.data = d /\ d[1] = handed[c] + 1 /\ \A i \in 1 .. n : d[i] = handed[c] + i
    BY <1>2
  <2> HIDE DEF d
  <2>2. Start(p) = handed[c]
    BY <1>2, <2>1 DEF Start
  <2> QED
    BY <1>2, <1>3, <2>1, <2>2 DEF Contiguous, End
<1>8. ASSUME NEW e \in Conns PROVE Streams(e)'
  <2>1. /\ took[e] \in Seq(1 .. MaxBytes) /\ writeBuf[e] \in Seq(1 .. MaxBytes)
        /\ handed[e] \in Nat /\ Streams(e)
    BY DEF SendInv, SendTypeOK
  <2>2. Gone(e)' = Gone(e) /\ Gone(e) \in Nat
    <3>1. Gone(e)' = Gone(e)
      BY <1>0 DEF Gone
    <3>2. Gone(e) \in Nat
      BY <2>1, Gones
    <3> QED
      BY <3>1, <3>2
  <2>3. CASE e = c
    <3>1. handed'[e] = handed[e] + n
      BY <1>2, <2>3 DEF SendInv, SendTypeOK
    <3>2. state[e] # "Closed" => Follow(work', e, Gone(e), handed'[e])
      BY <1>2, <1>4, <1>7, <2>1, <2>2, <2>3, <3>1, FollowAppend DEF Streams
    <3> QED
      BY <1>0, <1>2, <2>1, <2>2, <2>3, <3>1, <3>2 DEF Streams
  <2>4. CASE e # c
    <3>1. state[e] # "Closed" => Follow(work', e, Gone(e), handed[e])
      BY <1>2, <1>4, <2>1, <2>4, FollowOther DEF Streams
    <3>2. handed'[e] = handed[e]
      BY <1>2, <2>4 DEF SendInv, SendTypeOK
    <3> QED
      BY <1>0, <2>1, <2>2, <3>1, <3>2 DEF Streams
  <2> QED
    BY <2>3, <2>4
<1> QED
  BY <1>5, <1>6, <1>8 DEF SendInv

\* The packet at the head of the queue is about a connection that stands.
LEMMA DoSendInvariant ==
    ASSUME SendInv, NEW c \in Conns, draining, work # <<>>,
           work[1].op = "send", work[1].conn = c, state[c] = "Connected",
           DoSend(c, work[1].data), work' = Tail(work),
           handed' = handed, putting' = putting, pipe' = pipe, draining' = draining
    PROVE  /\ SendInv'
           /\ \E x : took' = [took EXCEPT ![c] = x] /\ Len(took[c]) <= Len(x)
           /\ state' # state => took' = took /\ state' = [state EXCEPT ![c] = "Closed"]
<1> DEFINE S == 1 .. MaxBytes
           d == work[1].data
<1>1. /\ work \in Seq(Work) /\ took[c] \in Seq(S) /\ writeBuf[c] \in Seq(S)
      /\ took \in [Conns -> Seq(S)] /\ writeBuf \in [Conns -> Seq(S)]
      /\ state \in [Conns -> {"Connecting", "Connected", "Closed"}]
      /\ watch \in [Conns -> BOOLEAN]
      /\ handed[c] \in Nat /\ Streams(c)
  BY SendPathAssumption DEF SendInv, SendTypeOK, Work
<1>2. work[1] \in Work /\ d \in Seq(S) /\ Tail(work) \in Seq(Work) /\ 1 \in 1 .. Len(work)
  <2>1. Len(work) \in Nat \ {0} /\ Tail(work) \in Seq(Work)
    BY <1>1, HeadTailProperties, EmptySeq
  <2>2. 1 \in 1 .. Len(work)
    BY <2>1
  <2>3. work[1] \in Work
    BY <2>2, <1>1, ElementOfSeq
  <2> QED
    BY <2>1, <2>2, <2>3 DEF Work
<1>3. 1 \in Sends(work, c)
  BY <1>2 DEF Sends
<1>4. Gone(c) \in Nat /\ Len(took[c]) \in Nat /\ Len(writeBuf[c]) \in Nat /\ Len(d) \in Nat
  BY <1>1, <1>2, Gones
<1>5. /\ Contiguous(work[1]) /\ Start(work[1]) = Gone(c) /\ End(work[1]) <= handed[c]
      /\ Follow(Tail(work), c, End(work[1]), handed[c])
  BY <1>1, <1>3, <1>4, FollowHead DEF Streams
<1>6. From(d, Len(took[c]) + Len(writeBuf[c])) /\ End(work[1]) = Gone(c) + Len(d)
  BY <1>5 DEF Contiguous, From, Gone, End
<1>7. From(took[c], 0) /\ From(writeBuf[c], Len(took[c]))
  BY <1>1 DEF Streams
<1> HIDE DEF d
<1>8. PICK size \in 0 .. IF writeBuf[c] = <<>> THEN Len(d) ELSE 0 :
        /\ took' = [took EXCEPT ![c] = @ \o SubSeq(d, 1, size)]
        /\ writeBuf' = [writeBuf EXCEPT ![c] = @ \o SubSeq(d, size + 1, Len(d))]
        /\ watch' = [watch EXCEPT ![c] = @ \/ size < Len(d)]
        /\ state' \in {state} \union
              IF size = 0 /\ writeBuf[c] = <<>>
              THEN {[state EXCEPT ![c] = "Closed"]} ELSE {}
  BY DEF DoSend, d
<1> DEFINE t2 == took[c] \o SubSeq(d, 1, size)
           b2 == writeBuf[c] \o SubSeq(d, size + 1, Len(d))
<1>9. /\ t2 \in Seq(S) /\ Len(t2) = Len(took[c]) + size /\ From(t2, 0)
      /\ b2 \in Seq(S) /\ Len(b2) = Len(writeBuf[c]) + Len(d) - size
      /\ From(b2, Len(t2))
  BY <1>1, <1>2, <1>6, <1>7, Sent
<1>10. /\ took' = [took EXCEPT ![c] = t2] /\ writeBuf' = [writeBuf EXCEPT ![c] = b2]
       /\ took'[c] = t2 /\ writeBuf'[c] = b2
  BY <1>1, <1>8
<1>11. size \in Nat /\ size <= Len(d)
  BY <1>4, <1>8
<1>12. state' \in {state, [state EXCEPT ![c] = "Closed"]}
       /\ (state' # state => size = 0 /\ took' = took)
  <2>1. CASE size = 0
    <3>1. t2 = took[c]
      BY <2>1, <1>1, SubSeqEmpty, ConcatEmptySeq
    <3> QED
      BY <2>1, <3>1, <1>1, <1>8
  <2>2. CASE size # 0
    BY <2>2, <1>8
  <2> QED
    BY <2>1, <2>2
<1> HIDE DEF t2, b2
<1>13. SendTypeOK'
  <2>1. took' \in [Conns -> Seq(S)] /\ writeBuf' \in [Conns -> Seq(S)]
    BY <1>1, <1>9, <1>10
  <2>2. state' \in [Conns -> {"Connecting", "Connected", "Closed"}]
    BY <1>1, <1>12
  <2>3. watch' \in [Conns -> BOOLEAN]
    BY <1>1, <1>8
  <2>4. work' \in Seq([op : {"send", "close"}, conn : Conns, data : Seq(1 .. MaxBytes)])
    BY <1>2 DEF Work
  <2> QED
    BY <2>1, <2>2, <2>3, <2>4 DEF SendInv, SendTypeOK
<1>14. WorkAnnounced'
  BY DEF WorkAnnounced
<1>15. RestWatched'
  <2> SUFFICES ASSUME NEW e \in Conns, state'[e] = "Connected", writeBuf'[e] # <<>>
               PROVE  watch'[e]
    BY DEF RestWatched
  <2>1. state[e] = "Connected"
    BY <1>1, <1>12
  <2>2. CASE e # c
    BY <2>1, <2>2, <1>1, <1>8, <1>10 DEF SendInv, RestWatched
  <2>3. CASE e = c /\ size < Len(d)
    BY <2>3, <1>1, <1>8
  <2>4. CASE e = c /\ ~(size < Len(d))
    <3>1. size = Len(d)
      BY <2>4, <1>4, <1>11
    <3>2. SubSeq(d, size + 1, Len(d)) = <<>>
      BY <3>1, <1>4, SubSeqEmpty
    <3>3. writeBuf'[c] = writeBuf[c]
      BY <3>2, <1>1, <1>10, ConcatEmptySeq DEF b2
    <3>4. watch[c]
      BY <3>3, <2>1, <2>4 DEF SendInv, RestWatched
    <3> QED
      BY <3>4, <2>4, <1>1, <1>8
  <2> QED
    BY <2>2, <2>3, <2>4
<1>16. ASSUME NEW e \in Conns PROVE Streams(e)'
  <2>1. CASE e = c
    <3>1. /\ Len(took'[c]) <= handed[c] /\ Gone(c)' = End(work[1])
      <4>1. PICK nt \in Nat, nb \in Nat, nd \in Nat :
               nt = Len(took[c]) /\ nb = Len(writeBuf[c]) /\ nd = Len(d)
        BY <1>4
      <4>2. Len(t2) = nt + size /\ Len(b2) = nb + nd - size
        BY <1>9, <4>1
      <4>3. Gone(c)' = (nt + size) + (nb + nd - size)
        BY <4>2, <1>10 DEF Gone
      <4>4. Gone(c) = nt + nb /\ End(work[1]) = nt + nb + nd
        BY <4>1, <1>6 DEF Gone
      <4>5. size <= nd /\ nt + nb + nd <= handed[c]
        BY <4>1, <4>4, <1>5, <1>11
      <4>6. Gone(c)' = nt + nb + nd /\ nt + size <= handed[c]
        BY <4>3, <4>5, <1>1, <1>11
      <4>7. Len(took'[c]) = nt + size
        BY <4>2, <1>10
      <4> QED
        BY <4>4, <4>6, <4>7
    <3>2. From(took'[c], 0) /\ From(writeBuf'[c], Len(took'[c]))
      BY <1>9, <1>10
    <3>3. state'[c] # "Connecting"
      BY <1>1, <1>12
    <3> QED
      BY <2>1, <3>1, <3>2, <3>3, <1>5 DEF Streams
  <2>2. CASE e # c
    <3>1. /\ took'[e] = took[e] /\ writeBuf'[e] = writeBuf[e] /\ state'[e] = state[e]
      BY <2>2, <1>1, <1>10, <1>12
    <3>2. Gone(e)' = Gone(e)
      BY <3>1 DEF Gone
    <3>3. 1 \notin Sends(work, e)
      BY <2>2 DEF Sends
    <3>4. state[e] # "Closed" => Follow(Tail(work), e, Gone(e), handed[e])
      BY <3>3, <1>1, FollowTail DEF SendInv, Streams
    <3>5. Streams(e)
      BY DEF SendInv
    <3> QED
      BY <3>1, <3>2, <3>4, <3>5 DEF Streams
  <2> QED
    BY <2>1, <2>2
<1>17. took' = [took EXCEPT ![c] = t2] /\ Len(took[c]) <= Len(t2)
  BY <1>4, <1>9, <1>10, <1>11
<1> QED
  BY <1>12, <1>13, <1>14, <1>15, <1>16, <1>17 DEF SendInv

LEMMA OnWriteInvariant ==
    ASSUME SendInv, NEW c \in Conns, OnWrite(c)
    PROVE  /\ SendInv'
           /\ \E x : took' = [took EXCEPT ![c] = x] /\ Len(took[c]) <= Len(x)
<1> DEFINE S == 1 .. MaxBytes
<1>1. /\ took[c] \in Seq(S) /\ writeBuf[c] \in Seq(S)
      /\ took \in [Conns -> Seq(S)] /\ writeBuf \in [Conns -> Seq(S)]
      /\ watch \in [Conns -> BOOLEAN] /\ handed[c] \in Nat /\ Streams(c)
  BY SendPathAssumption DEF SendInv, SendTypeOK
<1>2. /\ state' = state /\ handed' = handed /\ work' = work /\ putting' = putting
      /\ pipe' = pipe /\ draining' = draining /\ state[c] = "Connected"
      /\ watch' = [watch EXCEPT ![c] = writeBuf'[c] # <<>>]
  BY DEF OnWrite
<1>3. PICK size \in 0 .. Len(writeBuf[c]) :
         /\ took' = [took EXCEPT ![c] = @ \o SubSeq(writeBuf[c], 1, size)]
         /\ writeBuf' = [writeBuf EXCEPT ![c] = SubSeq(@, size + 1, Len(@))]
  BY DEF OnWrite
<1> DEFINE t2 == took[c] \o SubSeq(writeBuf[c], 1, size)
           b2 == SubSeq(writeBuf[c], size + 1, Len(writeBuf[c]))
<1>4. From(took[c], 0) /\ From(writeBuf[c], Len(took[c]))
  BY <1>1, <1>2 DEF Streams
<1>5. /\ t2 \in Seq(S) /\ Len(t2) = Len(took[c]) + size /\ From(t2, 0)
      /\ b2 \in Seq(S) /\ Len(b2) = Len(writeBuf[c]) - size /\ From(b2, Len(t2))
  BY <1>1, <1>4, Written
<1>6. /\ took' = [took EXCEPT ![c] = t2] /\ writeBuf' = [writeBuf EXCEPT ![c] = b2]
      /\ took'[c] = t2 /\ writeBuf'[c] = b2
  BY <1>1, <1>3
<1>7. PICK nt \in Nat, nb \in Nat : nt = Len(took[c]) /\ nb = Len(writeBuf[c])
  BY <1>1, Gones
<1>8. size \in Nat /\ size <= nb
  BY <1>3, <1>7
<1> HIDE DEF t2, b2
<1>9. SendTypeOK'
  BY <1>1, <1>2, <1>5, <1>6 DEF SendInv, SendTypeOK
<1>10. WorkAnnounced' /\ RestWatched'
  <2>1. WorkAnnounced'
    BY <1>2 DEF SendInv, WorkAnnounced
  <2>2. ASSUME NEW e \in Conns, state'[e] = "Connected", writeBuf'[e] # <<>>
        PROVE  watch'[e]
    BY <2>2, <1>1, <1>2, <1>6 DEF SendInv, RestWatched
  <2> QED
    BY <2>1, <2>2 DEF RestWatched
<1>11. ASSUME NEW e \in Conns PROVE Streams(e)'
  <2>1. CASE e = c
    <3>1. Len(t2) = nt + size /\ Len(b2) = nb - size
      BY <1>5, <1>7
    <3>2. Gone(c)' = (nt + size) + (nb - size)
      BY <3>1, <1>6 DEF Gone
    <3>3. Gone(c) = nt + nb
      BY <1>7 DEF Gone
    <3>4. Gone(c) <= handed[c] /\ Follow(work, c, Gone(c), handed[c])
      BY <1>1, <1>2 DEF Streams
    <3>5. nt + nb <= handed[c]
      BY <3>3, <3>4
    <3>6. Gone(c)' = nt + nb /\ nt + size <= handed[c]
      BY <3>2, <3>5, <1>1, <1>8
    <3>7. Len(took'[c]) <= handed[c]
      BY <3>1, <3>6, <1>6
    <3> QED
      BY <2>1, <3>3, <3>4, <3>6, <3>7, <1>2, <1>5, <1>6 DEF Streams
  <2>2. CASE e # c
    <3>1. took'[e] = took[e] /\ writeBuf'[e] = writeBuf[e]
      BY <2>2, <1>1, <1>6
    <3>2. Gone(e)' = Gone(e)
      BY <3>1 DEF Gone
    <3>3. Streams(e)
      BY DEF SendInv
    <3> QED
      BY <1>2, <3>1, <3>2, <3>3 DEF Streams
  <2> QED
    BY <2>1, <2>2
<1>12. Len(took[c]) <= Len(t2)
  <2>1. Len(t2) = nt + size
    BY <1>5, <1>7
  <2> QED
    BY <2>1, <1>7, <1>8
<1> QED
  BY <1>6, <1>9, <1>10, <1>11, <1>12 DEF SendInv

\* What does not move bytes: close(), the wake-up, and the ends of a connection.
LEMMA OtherInvariant ==
    ASSUME SendInv,
           \/ \E t \in Callers : Wake(t) \/ \E c \in Conns : CloseConn(t, c)
           \/ Woken \/ Drained
           \/ \E c \in Conns : Connected(c) \/ Lose(c)
           \/ DoWork /\ ~(work[1].op = "send" /\ state[work[1].conn] = "Connected")
           \/ UNCHANGED sendVars
    PROVE  SendInv' /\ took' = took /\ handed' = handed
<1>1. work \in Seq(Work) /\ state \in [Conns -> {"Connecting", "Connected", "Closed"}]
      /\ watch \in [Conns -> BOOLEAN]
  BY DEF SendInv, SendTypeOK, Work
<1>2. ASSUME NEW e \in Conns, took' = took, writeBuf' = writeBuf, handed' = handed,
             state'[e] \in {state[e], "Closed"},
             state'[e] # "Closed" => Follow(work', e, Gone(e), handed[e])
      PROVE  Streams(e)'
  <2>1. Gone(e)' = Gone(e) /\ Streams(e)
    BY <1>2 DEF Gone, SendInv
  <2> QED
    BY <1>2, <2>1 DEF Streams
<1>3. \A e \in Conns : state[e] # "Closed" => Follow(work, e, Gone(e), handed[e])
  BY DEF SendInv, Streams
<1>4. ASSUME NEW t \in Callers, NEW c \in Conns, CloseConn(t, c)
      PROVE  SendInv' /\ took' = took /\ handed' = handed
  <2> DEFINE p == [op |-> "close", conn |-> c, data |-> <<>>]
  <2>1. /\ state' = state /\ handed' = handed /\ took' = took /\ writeBuf' = writeBuf
        /\ watch' = watch /\ draining' = draining /\ pipe' = pipe
        /\ work' = Append(work, p) /\ putting' = putting \union {t}
    BY <1>4 DEF CloseConn, Put
  <2>2. p \in Work
    BY DEF Work
  <2>3. work' \in Seq(Work)
    BY <1>1, <2>1, <2>2
  <2>4. SendTypeOK'
    BY <2>1, <2>3 DEF SendInv, SendTypeOK, Work
  <2>5. WorkAnnounced' /\ RestWatched'
    BY <2>1 DEF SendInv, WorkAnnounced, RestWatched
  <2>6. ASSUME NEW e \in Conns PROVE Streams(e)'
    <3>1. state[e] # "Closed" => Follow(work', e, Gone(e), handed[e])
      BY <1>1, <1>3, <2>1, <2>2, FollowOther
    <3> QED
      BY <1>2, <2>1, <3>1
  <2> QED
    BY <2>1, <2>4, <2>5, <2>6 DEF SendInv
<1>5. ASSUME NEW t \in Callers, Wake(t)
      PROVE  SendInv' /\ took' = took /\ handed' = handed
  <2>1. /\ UNCHANGED <<state, handed, took, writeBuf, watch, work, draining>>
        /\ pipe' = TRUE /\ putting' = putting \ {t}
    BY <1>5 DEF Wake
  <2>2. \A e \in Conns : Streams(e)'
    BY <2>1, <1>2, <1>3
  <2> QED
    BY <2>1, <2>2 DEF SendInv, SendTypeOK, WorkAnnounced, RestWatched
<1>6. ASSUME Woken \/ Drained \/ UNCHANGED sendVars
      PROVE  SendInv' /\ took' = took /\ handed' = handed
  <2>1. UNCHANGED <<state, handed, took, writeBuf, watch, work, putting>>
    BY <1>6 DEF Woken, Drained, sendVars
  <2>2. \A e \in Conns : Streams(e)'
    BY <2>1, <1>2, <1>3
  <2>3. WorkAnnounced' /\ pipe' \in BOOLEAN /\ draining' \in BOOLEAN
    BY <1>6 DEF Woken, Drained, sendVars, SendInv, SendTypeOK, WorkAnnounced
  <2> QED
    BY <2>1, <2>2, <2>3 DEF SendInv, SendTypeOK, RestWatched
<1>7. ASSUME NEW c \in Conns, Connected(c)
      PROVE  SendInv' /\ took' = took /\ handed' = handed
  <2>1. /\ UNCHANGED <<handed, took, writeBuf, work, putting, pipe, draining>>
        /\ state[c] = "Connecting" /\ state' = [state EXCEPT ![c] = "Connected"]
        /\ watch' = [watch EXCEPT ![c] = FALSE]
    BY <1>7 DEF Connected
  <2>2. writeBuf[c] = <<>>
    <3>1. /\ Gone(c) <= handed[c] /\ handed[c] = 0
          /\ took[c] \in Seq(1 .. MaxBytes) /\ writeBuf[c] \in Seq(1 .. MaxBytes)
      BY <2>1 DEF SendInv, Streams, SendTypeOK
    <3>2. PICK nt \in Nat, nb \in Nat : nt = Len(took[c]) /\ nb = Len(writeBuf[c])
      BY <3>1, Gones
    <3>3. nt + nb <= 0
      BY <3>1, <3>2 DEF Gone
    <3>4. nb = 0
      BY <3>3
    <3>5. Len(writeBuf[c]) = 0
      BY <3>2, <3>4
    <3> QED
      <4>1. writeBuf[c] \in Seq(1 .. MaxBytes)
        BY <3>1
      <4> QED
        BY <3>5, <4>1, EmptySeq
  <2>3. ASSUME NEW e \in Conns PROVE Streams(e)'
    <3>1. Gone(e)' = Gone(e) /\ Streams(e) /\ handed' = handed /\ took' = took
          /\ writeBuf' = writeBuf /\ work' = work
      BY <2>1 DEF Gone, SendInv
    <3>2. state'[e] = state[e] \/ (state[e] = "Connecting" /\ state'[e] = "Connected")
      BY <1>1, <2>1
    <3>3. CASE state'[e] = state[e]
      BY <3>1, <3>3 DEF Streams
    <3>4. CASE state[e] = "Connecting" /\ state'[e] = "Connected"
      BY <3>1, <3>4 DEF Streams
    <3> QED
      BY <3>2, <3>3, <3>4
  <2>4. SendTypeOK' /\ WorkAnnounced'
    BY <1>1, <2>1 DEF SendInv, SendTypeOK, WorkAnnounced
  <2>5. RestWatched'
    BY <1>1, <2>1, <2>2 DEF SendInv, RestWatched
  <2> QED
    BY <2>1, <2>3, <2>4, <2>5 DEF SendInv
<1>8. ASSUME NEW c \in Conns, Lose(c)
      PROVE  SendInv' /\ took' = took /\ handed' = handed
  <2>1. /\ UNCHANGED <<handed, took, writeBuf, watch, work, putting, pipe, draining>>
        /\ state' = [state EXCEPT ![c] = "Closed"]
    BY <1>8 DEF Lose
  <2>2. \A e \in Conns : state'[e] \in {state[e], "Closed"}
    BY <1>1, <2>1
  <2>3. \A e \in Conns : Streams(e)'
    BY <2>1, <2>2, <1>2, <1>3
  <2>4. SendTypeOK' /\ WorkAnnounced'
    BY <1>1, <2>1 DEF SendInv, SendTypeOK, WorkAnnounced
  <2>5. RestWatched'
    BY <2>1, <2>2 DEF SendInv, RestWatched
  <2> QED
    BY <2>1, <2>3, <2>4, <2>5 DEF SendInv
<1>9. ASSUME DoWork, ~(work[1].op = "send" /\ state[work[1].conn] = "Connected")
      PROVE  SendInv' /\ took' = took /\ handed' = handed
  <2>1. /\ UNCHANGED <<handed, took, writeBuf, watch, putting, pipe, draining>>
        /\ work # <<>> /\ work' = Tail(work) /\ draining
    BY <1>9 DEF DoWork
  <2>2. Len(work) \in Nat \ {0} /\ Tail(work) \in Seq(Work)
    BY <1>1, <2>1, HeadTailProperties, EmptySeq
  <2>3. 1 \in 1 .. Len(work) /\ work[1] \in Work
    <3>1. 1 \in 1 .. Len(work)
      BY <2>2
    <3> QED
      BY <3>1, <1>1, ElementOfSeq
  <2>4. work[1].conn \in Conns /\ Head(work) = work[1]
    BY <2>1, <2>3, <1>1 DEF Work
  <2>5. \/ state' = state /\ work[1].op = "send" /\ state[work[1].conn] # "Connected"
        \/ work[1].op = "close" /\ state' = [state EXCEPT ![work[1].conn] = "Closed"]
    BY <1>9, <2>4 DEF DoWork
  <2>6. \A e \in Conns : state'[e] \in {state[e], "Closed"}
    BY <1>1, <2>4, <2>5
  <2>7. ASSUME NEW e \in Conns, state'[e] # "Closed"
        PROVE  Follow(work', e, Gone(e), handed[e])
    <3>1. Follow(work, e, Gone(e), handed[e]) /\ state'[e] = state[e]
      BY <2>6, <2>7, <1>3
    <3>2. 1 \notin Sends(work, e)
      <4>1. CASE work[1].op = "close"
        BY <4>1 DEF Sends
      <4>2. CASE work[1].op = "send" /\ state[work[1].conn] # "Connected"
        <5> SUFFICES ASSUME 1 \in Sends(work, e) PROVE FALSE
          OBVIOUS
        <5>1. work[1].conn = e
          BY DEF Sends
        <5>2. handed[e] = 0 /\ Streams(e)
          BY <5>1, <4>2, <3>1, <2>7, <1>1 DEF SendInv, Streams
        <5>3. /\ took[e] \in Seq(1 .. MaxBytes) /\ writeBuf[e] \in Seq(1 .. MaxBytes)
          BY DEF SendInv, SendTypeOK
        <5>4. Gone(e) \in Nat
          BY <5>3, Gones
        <5>5. /\ Contiguous(work[1]) /\ Gone(e) <= Start(work[1])
              /\ End(work[1]) <= handed[e]
          BY <3>1 DEF Follow
        <5>6. Start(work[1]) \in Int /\ Start(work[1]) < End(work[1])
              /\ End(work[1]) \in Int
          BY <2>3, <5>5, Bounds DEF Contiguous
        <5> QED
          BY <5>2, <5>4, <5>5, <5>6
      <4> QED
        BY <4>1, <4>2, <2>5
    <3> QED
      BY <3>1, <3>2, <2>1, <1>1, FollowTail
  <2>8. \A e \in Conns : Streams(e)'
    BY <2>1, <2>6, <2>7, <1>2
  <2>9. SendTypeOK'
    <3>1. state' \in [Conns -> {"Connecting", "Connected", "Closed"}]
      BY <1>1, <2>5
    <3> QED
      BY <3>1, <2>1, <2>2 DEF SendInv, SendTypeOK, Work
  <2>10. WorkAnnounced' /\ RestWatched'
    BY <2>1, <2>6 DEF SendInv, WorkAnnounced, RestWatched
  <2> QED
    BY <2>1, <2>8, <2>9, <2>10 DEF SendInv
<1> QED
  BY <1>4, <1>5, <1>6, <1>7, <1>8, <1>9

LEMMA DoWorkInvariant ==
    ASSUME SendInv, DoWork, work[1].op = "send", state[work[1].conn] = "Connected"
    PROVE  LET c == work[1].conn IN
           /\ SendInv' /\ c \in Conns /\ handed' = handed
           /\ \E x : took' = [took EXCEPT ![c] = x] /\ Len(took[c]) <= Len(x)
           /\ state' # state => took' = took /\ state' = [state EXCEPT ![c] = "Closed"]
<1>1. work \in Seq(Work) /\ work # <<>>
  BY DEF SendInv, SendTypeOK, DoWork, Work
<1>2. Head(work) = work[1] /\ Head(work) \in Work
  BY <1>1, HeadTailProperties
<1>3. work[1].conn \in Conns
  BY <1>2 DEF Work
<1>4. /\ DoSend(work[1].conn, work[1].data) /\ work' = Tail(work) /\ draining
      /\ handed' = handed /\ putting' = putting /\ pipe' = pipe /\ draining' = draining
  BY <1>2 DEF DoWork
<1> QED
  BY <1>1, <1>3, <1>4, DoSendInvariant

LEMMA SendNextInvariant == SendInv /\ [SendNext]_sendVars => SendInv'
<1> SUFFICES ASSUME SendInv, [SendNext]_sendVars PROVE SendInv'
  OBVIOUS
<1>1. ASSUME NEW t \in Callers, NEW c \in Conns, Send(t, c) PROVE SendInv'
  BY <1>1, SendInvariant
<1>2. ASSUME NEW c \in Conns, OnWrite(c) PROVE SendInv'
  BY <1>2, OnWriteInvariant
<1>3. ASSUME DoWork, work[1].op = "send", state[work[1].conn] = "Connected" PROVE SendInv'
  BY <1>3, DoWorkInvariant
<1> QED
  BY <1>1, <1>2, <1>3, OtherInvariant DEF SendNext

LEMMA SendInvariance == SendSpec => []SendInv
  BY SendInitInvariant, SendNextInvariant, PTL DEF SendSpec

\* Every byte that is queued keeps its type, for any connections and packets.
THEOREM SendTypeCorrect == SendSpec => []SendTypeOK
<1>1. SendInv => SendTypeOK
  BY DEF SendInv
<1> QED
  BY <1>1, SendInvariance, PTL

\* Work that is queued is always announced to the network thread (network_manager.py,
\* send, close, and _on_read of the pipe), whatever the callers do.
THEOREM WorkIsAnnounced == SendSpec => []WorkAnnounced
<1>1. SendInv => WorkAnnounced
  BY DEF SendInv
<1> QED
  BY <1>1, SendInvariance, PTL

\* What a socket has not taken is waited for (network_manager.py, do_send and
\* _on_write), whatever the socket does.
THEOREM RestIsWatched == SendSpec => []RestWatched
<1>1. SendInv => RestWatched
  BY DEF SendInv
<1> QED
  BY <1>1, SendInvariance, PTL

-----------------------------------------------------------------------------
(***************************************************************************)
(* The refinement: a step that moves bytes is one of Pass.                 *)
(***************************************************************************)
LEMMA Passes ==
    ASSUME SendInv, SendInv', NEW c \in Conns, state[c] = "Connected", handed' = handed,
           NEW x, took' = [took EXCEPT ![c] = x], Len(took[c]) <= Len(x),
           {e \in Conns : state[e] = "Connected"}' = {e \in Conns : state[e] = "Connected"}
    PROVE  Stream!Pass(c) \/ took' = took
<1> DEFINE S == 1 .. MaxBytes
<1>1. /\ took \in [Conns -> Seq(S)] /\ took' \in [Conns -> Seq(S)]
      /\ handed[c] \in Nat /\ Streams(c) /\ Streams(c)'
  BY SendPathAssumption DEF SendInv, SendTypeOK
<1>2. x = took'[c] /\ x \in Seq(S) /\ took[c] \in Seq(S)
  BY <1>1
<1>3. From(took[c], 0) /\ From(x, 0) /\ Len(x) <= handed[c]
  BY <1>1, <1>2 DEF Streams
<1>4. Len(x) \in Nat /\ Len(took[c]) \in Nat
  BY <1>2, LenProperties
<1>5. CASE Len(x) = Len(took[c])
  <2>1. \A i \in 1 .. Len(x) : x[i] = took[c][i]
    BY <1>3, <1>5 DEF From
  <2>2. x = took[c]
    BY <2>1, <1>2, <1>5, SeqEqual
  <2> QED
    BY <2>2, <1>1
<1>6. CASE Len(x) # Len(took[c])
  <2>1. Len(x) \in Len(took[c]) + 1 .. handed[c]
    BY <1>1, <1>3, <1>4, <1>6
  <2>2. x = [i \in 1 .. Len(x) |-> i]
    <3>1. x = [i \in 1 .. Len(x) |-> x[i]]
      BY <1>2, LenProperties
    <3>2. \A i \in 1 .. Len(x) : x[i] = i
      BY <1>3, <1>4 DEF From
    <3> QED
      BY <3>1, <3>2
  <2>3. took' = [took EXCEPT ![c] = [i \in 1 .. Len(x) |-> i]]
    BY <2>2
  <2> QED
    BY <2>1, <2>3 DEF Stream!Pass
<1> QED
  BY <1>5, <1>6

LEMMA Steps == SendInv /\ SendInv' /\ [SendNext]_sendVars => [Stream!Next]_(Stream!svars)
<1> SUFFICES ASSUME SendInv, SendInv', [SendNext]_sendVars
             PROVE  Stream!Next \/ UNCHANGED <<handed, took, {c \in Conns : state[c] = "Connected"}>>
  BY DEF Stream!svars
<1> DEFINE open == {c \in Conns : state[c] = "Connected"}
<1>0. state \in [Conns -> {"Connecting", "Connected", "Closed"}]
  BY DEF SendInv, SendTypeOK
<1>1. ASSUME NEW t \in Callers, NEW c \in Conns, Send(t, c) PROVE Stream!HandOver(c)
  <2>1. PICK n \in PacketLens : handed' = [handed EXCEPT ![c] = @ + n]
    BY <1>1 DEF Send
  <2>2. handed[c] \in Nat /\ n \in Nat /\ n > 0 /\ handed'[c] = handed[c] + n
    BY <2>1, SendPathAssumption DEF SendInv, SendTypeOK
  <2>3. handed' = [handed EXCEPT ![c] = handed'[c]]
    BY <2>1, <2>2
  <2>4. took' = took /\ state' = state
    BY <1>1 DEF Send
  <2> QED
    BY <2>2, <2>3, <2>4 DEF Stream!HandOver
<1>2. ASSUME NEW c \in Conns, OnWrite(c)
      PROVE  Stream!Pass(c) \/ UNCHANGED <<handed, took, open>>
  <2>1. PICK x : took' = [took EXCEPT ![c] = x] /\ Len(took[c]) <= Len(x)
    BY <1>2, OnWriteInvariant
  <2>2. state' = state /\ handed' = handed /\ state[c] = "Connected"
    BY <1>2 DEF OnWrite
  <2> QED
    BY <2>1, <2>2, Passes
<1>3. ASSUME DoWork, work[1].op = "send", state[work[1].conn] = "Connected"
      PROVE  Stream!Next \/ UNCHANGED <<handed, took, open>>
  <2> DEFINE c == work[1].conn
  <2>1. /\ c \in Conns /\ handed' = handed
        /\ \E x : took' = [took EXCEPT ![c] = x] /\ Len(took[c]) <= Len(x)
        /\ state' # state => took' = took /\ state' = [state EXCEPT ![c] = "Closed"]
    BY <1>3, DoWorkInvariant
  <2> HIDE DEF c
  <2>2. CASE state' = state
    BY <2>1, <2>2, <1>3, Passes DEF Stream!Next, c
  <2>3. CASE state' # state
    <3>1. open' = open \ {c}
      BY <2>1, <2>3, <1>0
    <3> QED
      BY <2>1, <2>3, <3>1 DEF Stream!Next, Stream!Shut
  <2> QED
    BY <2>2, <2>3
<1>4. ASSUME \/ \E t \in Callers : Wake(t) \/ \E c \in Conns : CloseConn(t, c)
             \/ Woken \/ Drained
             \/ \E c \in Conns : Connected(c) \/ Lose(c)
             \/ DoWork /\ ~(work[1].op = "send" /\ state[work[1].conn] = "Connected")
             \/ UNCHANGED sendVars
      PROVE  Stream!Next \/ UNCHANGED <<handed, took, open>>
  <2>1. took' = took /\ handed' = handed
    BY <1>4, OtherInvariant
  <2>2. CASE state' = state
    BY <2>1, <2>2
  <2>3. ASSUME NEW c \in Conns, Connected(c) PROVE Stream!Open(c)
    <3>1. state[c] = "Connecting" /\ state' = [state EXCEPT ![c] = "Connected"]
      BY <2>3 DEF Connected
    <3>2. open' = open \union {c}
      BY <3>1, <1>0
    <3>3. took[c] = <<>>
      <4>1. /\ took[c] \in Seq(1 .. MaxBytes) /\ Len(took[c]) <= handed[c] /\ handed[c] = 0
        BY <3>1 DEF SendInv, SendTypeOK, Streams
      <4>2. Len(took[c]) \in Nat
        BY <4>1, LenProperties
      <4>3. Len(took[c]) = 0 /\ took[c] \in Seq(1 .. MaxBytes)
        BY <4>1, <4>2
      <4> QED
        BY <4>3, EmptySeq
    <3> QED
      BY <2>1, <3>2, <3>3 DEF Stream!Open
  <2>4. ASSUME NEW c \in Conns, state' = [state EXCEPT ![c] = "Closed"] PROVE Stream!Shut(c)
    <3>1. open' = open \ {c}
      BY <2>4, <1>0
    <3> QED
      BY <2>1, <3>1 DEF Stream!Shut
  <2>5. CASE \E c \in Conns : Connected(c) \/ Lose(c)
    BY <2>3, <2>4, <2>5 DEF Lose, Stream!Next
  <2>6. CASE DoWork /\ ~(work[1].op = "send" /\ state[work[1].conn] = "Connected")
    <3>1. Head(work) = work[1] /\ work[1] \in Work
      <4>1. work \in Seq(Work) /\ work # <<>>
        BY <2>6 DEF SendInv, SendTypeOK, DoWork, Work
      <4> QED
        BY <4>1, HeadTailProperties
    <3>2. state' = state \/ state' = [state EXCEPT ![work[1].conn] = "Closed"]
      BY <2>6, <3>1 DEF DoWork, Work
    <3> QED
      BY <2>2, <2>4, <3>1, <3>2 DEF Stream!Next, Work
  <2>7. CASE \/ \E t \in Callers : Wake(t) \/ \E c \in Conns : CloseConn(t, c)
             \/ Woken \/ Drained \/ UNCHANGED sendVars
    BY <2>2, <2>7 DEF Wake, CloseConn, Woken, Drained, sendVars
  <2> QED
    BY <1>4, <2>5, <2>6, <2>7
<1> QED
  BY <1>1, <1>2, <1>3, <1>4 DEF SendNext, Stream!Next

\* A connection is a stream: for any connections, callers, packets and behaviour of
\* the sockets, each takes the bytes in the order in which they were handed over,
\* none twice and none left out, until it is closed.
THEOREM Refinement == SendSpec => KeepsOrder
<1>1. SendInit => Stream!Init
  BY DEF SendInit, Stream!Init
<1> QED
  BY <1>1, Steps, SendInvariance, PTL DEF SendSpec, KeepsOrder, Stream!Spec
=============================================================================
