--------------------------- MODULE SequenceFacts ---------------------------
(***************************************************************************)
(* What the proofs about buffers and queues need of sequences and the      *)
(* library does not state.                                                 *)
(***************************************************************************)
EXTENDS Integers, Sequences, SequenceTheorems, TLAPS

\* A sequence that is cut in two.
LEMMA Cut ==
    ASSUME NEW S, NEW s \in Seq(S), NEW k \in 0 .. Len(s)
    PROVE  /\ SubSeq(s, 1, k) \in Seq(S) /\ Len(SubSeq(s, 1, k)) = k
           /\ \A i \in 1 .. k : SubSeq(s, 1, k)[i] = s[i]
           /\ SubSeq(s, k + 1, Len(s)) \in Seq(S)
           /\ Len(SubSeq(s, k + 1, Len(s))) = Len(s) - k
           /\ \A i \in 1 .. Len(s) - k : SubSeq(s, k + 1, Len(s))[i] = s[k + i]
<1>1. Len(s) \in Nat /\ k \in Nat
  OBVIOUS
<1>2. /\ \A i \in 1 .. k : s[i] \in S
      /\ \A i \in k + 1 .. Len(s) : s[i] \in S
  BY <1>1, ElementOfSeq
<1> DEFINE a == SubSeq(s, 1, k)
           b == SubSeq(s, k + 1, Len(s))
<1>3. /\ a \in Seq(S) /\ Len(a) = (IF 1 <= k THEN k - 1 + 1 ELSE 0)
      /\ \A i \in 1 .. k - 1 + 1 : a[i] = s[1 + i - 1]
  BY <1>1, <1>2, SubSeqProperties
<1>4. /\ b \in Seq(S)
      /\ Len(b) = (IF k + 1 <= Len(s) THEN Len(s) - (k + 1) + 1 ELSE 0)
      /\ \A i \in 1 .. Len(s) - (k + 1) + 1 : b[i] = s[k + 1 + i - 1]
  <2>1. k + 1 \in Int /\ Len(s) \in Int
    BY <1>1
  <2> QED
    BY <2>1, <1>2, SubSeqProperties
<1>5. Len(a) = k /\ \A i \in 1 .. k : a[i] = s[i]
  BY <1>1, <1>3
<1>6. Len(b) = Len(s) - k /\ \A i \in 1 .. Len(s) - k : b[i] = s[k + i]
  BY <1>1, <1>4
<1> QED
  BY <1>3, <1>4, <1>5, <1>6

\* Two sequences, one after the other.
LEMMA Joined ==
    ASSUME NEW S, NEW r \in Seq(S), NEW w \in Seq(S)
    PROVE  /\ Len(r) \in Nat /\ DOMAIN r = 1 .. Len(r)
           /\ Len(w) \in Nat /\ DOMAIN w = 1 .. Len(w)
           /\ r \o w \in Seq(S) /\ Len(r \o w) = Len(r) + Len(w)
           /\ \A i \in 1 .. Len(r) : (r \o w)[i] = r[i]
           /\ \A i \in 1 .. Len(w) : (r \o w)[Len(r) + i] = w[i]
           /\ \A i \in Len(r) + 1 .. Len(r) + Len(w) :
                 i - Len(r) \in 1 .. Len(w) /\ (r \o w)[i] = w[i - Len(r)]
<1>1. /\ Len(r) \in Nat /\ DOMAIN r = 1 .. Len(r)
      /\ Len(w) \in Nat /\ DOMAIN w = 1 .. Len(w)
  OBVIOUS
<1>2. /\ r \o w \in Seq(S) /\ Len(r \o w) = Len(r) + Len(w)
      /\ \A i \in 1 .. Len(r) + Len(w) :
            (r \o w)[i] = IF i <= Len(r) THEN r[i] ELSE w[i - Len(r)]
  BY ConcatProperties
<1>3. ASSUME NEW i \in 1 .. Len(w) PROVE (r \o w)[Len(r) + i] = w[i]
  <2>1. /\ Len(r) + i \in 1 .. Len(r) + Len(w) /\ ~(Len(r) + i <= Len(r))
        /\ Len(r) + i - Len(r) = i
    BY <1>1
  <2> QED
    BY <1>2, <2>1
<1>4. ASSUME NEW i \in Len(r) + 1 .. Len(r) + Len(w)
      PROVE  i - Len(r) \in 1 .. Len(w) /\ (r \o w)[i] = w[i - Len(r)]
  BY <1>1, <1>2
<1>5. \A i \in 1 .. Len(r) : (r \o w)[i] = r[i]
  BY <1>1, <1>2
<1> QED
  BY <1>1, <1>2, <1>3, <1>4, <1>5
=============================================================================
