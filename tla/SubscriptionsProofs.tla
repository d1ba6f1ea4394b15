------------------------ MODULE SubscriptionsProofs ------------------------
(***************************************************************************)
(* For every set of codes, types, flavours and calls, and every quota that *)
(* the kline subtypes fit in:                                              *)
(*                                                                         *)
(*   1. what a list is cut into: slices that are not empty, not too long,  *)
(*      and that hold each member once;                                    *)
(*   2. the requests of a resubscription are the record, each type of a    *)
(*      code once (PlanCoversRecord);                                      *)
(*   3. SubRecord holds a type of a code in one flavour (OneFlavour);      *)
(*   4. the variables keep their types (TypeOK);                           *)
(*   5. the gateway and the record agree when nothing is under way         *)
(*      (InSync), whatever threads call about different stocks at a time.  *)
(*      Its invariant says, of a run that nothing has disturbed, who may   *)
(*      be at work and how far, on each type of each code, the gateway     *)
(*      lags behind the record: by the one call that is about it, or by    *)
(*      what a resubscription still has to ask for.                        *)
(***************************************************************************)
EXTENDS Subscriptions, FiniteSetTheorems, TLAPS

-----------------------------------------------------------------------------
(***************************************************************************)
(* 1. Slices of a list.                                                    *)
(***************************************************************************)
\* Facts about \div and % that the solver finds one at a time.
LEMMA DivNat ==
    ASSUME NEW a \in Int, NEW n \in Int, n > 0
    PROVE  a \div n \in Int /\ a % n \in Int
OBVIOUS

LEMMA DivMod ==
    ASSUME NEW a \in Int, NEW n \in Int, n > 0
    PROVE  a = n * (a \div n) + (a % n)
OBVIOUS

LEMMA ModRange ==
    ASSUME NEW a \in Int, NEW n \in Int, n > 0
    PROVE  0 <= a % n /\ a % n < n
OBVIOUS

\* Multiples of n rise with what is multiplied.
LEMMA Multiples ==
    ASSUME NEW s \in Int, NEW u \in Int, NEW n \in Nat, s <= u
    PROVE  s * n <= u * n /\ s * n \in Int /\ u * n \in Int
           /\ (s + 1) * n = s * n + n
<1> DEFINE d == u - s
<1>1. d \in Nat /\ u = s + d
  OBVIOUS
<1> HIDE DEF d
<1>2. u * n = s * n + d * n
  BY <1>1
<1>3. d * n \in Nat
  BY <1>1
<1> QED
  BY <1>2, <1>3

\* The slice of the a-th place: the places of a list fall into slices of n.
LEMMA SliceOf ==
    ASSUME NEW a \in Nat \ {0}, NEW n \in Nat \ {0}
    PROVE  LET s == (a - 1) \div n
           IN  s \in Nat /\ s * n < a /\ a <= (s + 1) * n
<1> DEFINE s == (a - 1) \div n
           r == (a - 1) % n
<1>1. s \in Int /\ r \in Int
  BY DivNat
<1>2. a - 1 = n * s + r
  BY DivMod
<1>3. 0 <= r /\ r < n
  BY ModRange
<1> HIDE DEF s, r
<1>4. n * s = s * n /\ (s + 1) * n = s * n + n /\ s * n \in Int
  BY <1>1
<1>5. s * n < a /\ a <= (s + 1) * n
  BY <1>2, <1>3, <1>4, <1>1
<1>6. s \in Nat
  <2> SUFFICES ASSUME s <= -1 PROVE FALSE
    BY <1>1
  <2>1. (s + 1) * n <= 0 * n
    BY <1>1, Multiples
  <2> QED
    BY <2>1, <1>5, <1>1
<1> QED
  BY <1>5, <1>6 DEF s

\* A place falls into one slice only.
LEMMA SliceUnique ==
    ASSUME NEW a \in Nat, NEW n \in Nat \ {0}, NEW s \in Int, NEW u \in Int,
           s * n < a, a <= (s + 1) * n, u * n < a, a <= (u + 1) * n
    PROVE  s = u
<1>1. ASSUME NEW v \in Int, NEW w \in Int, v < w, a <= (v + 1) * n, w * n < a
      PROVE  FALSE
  <2>1. (v + 1) * n <= w * n /\ (v + 1) * n \in Int /\ w * n \in Int
    BY <1>1, Multiples
  <2> QED
    BY <2>1, <1>1
<1> QED
  BY <1>1

\* SetToSeq lists every member of a finite set once.
LEMMA ListOfSet ==
    ASSUME NEW S, IsFiniteSet(S)
    PROVE /\ Cardinality(S) \in Nat
          /\ SetToSeq(S) \in Bijection(1 .. Cardinality(S), S)
<1> DEFINE n == Cardinality(S)
<1>1. n \in Nat /\ ExistsBijection(1 .. n, S)
  BY FS_CardinalityType
<1>2. PICK g \in [1 .. n -> S] : g \in Bijection(1 .. n, S)
  BY <1>1 DEF ExistsBijection, Bijection, Injection
<1>3. IsInjective(g) /\ g \in [1 .. n -> S]
  BY <1>2 DEF Bijection, Injection
<1>4. SetToSeq(S) \in [1 .. n -> S] /\ IsInjective(SetToSeq(S))
  BY <1>3 DEF SetToSeq
<1>5. SetToSeq(S) \in Injection(1 .. n, S)
  BY <1>4 DEF Injection
<1>6. IsFiniteSet(1 .. n) /\ Cardinality(1 .. n) = n
  BY <1>1, FS_Interval
<1>7. SetToSeq(S) \in Surjection(1 .. n, S)
  BY <1>5, <1>6, <1>1, FS_Injection
<1> QED BY <1>1, <1>5, <1>7 DEF Bijection

\* Places of the s-th slice of a list of m.
Places(m, n, s) == {j \in 1 .. m : j > s * n /\ j <= (s + 1) * n}

\* A slice has at most n places.
LEMMA PlacesSize ==
    ASSUME NEW m \in Nat, NEW n \in Nat \ {0}, NEW s \in Nat
    PROVE  IsFiniteSet(Places(m, n, s)) /\ Cardinality(Places(m, n, s)) <= n
           /\ Cardinality(Places(m, n, s)) \in Nat
<1>1. s * n \in Int /\ (s + 1) * n = s * n + n /\ (s + 1) * n \in Int
  OBVIOUS
<1> DEFINE a == s * n + 1
           b == (s + 1) * n
<1>2. IsFiniteSet(a .. b) /\ Cardinality(a .. b) = n
  <2>1. a \in Int /\ b \in Int /\ ~(a > b) /\ b - a + 1 = n
    BY <1>1
  <2> HIDE DEF a, b
  <2> QED
    BY <2>1, FS_Interval
<1>3. Places(m, n, s) \subseteq a .. b
  BY <1>1 DEF Places
<1> QED
  BY <1>2, <1>3, FS_Subset, FS_CardinalityType

\* The slices of a set that is not empty: none is empty or too long, every
\* member is in one of them and in one only.
LEMMA SliceFacts ==
    ASSUME NEW S, IsFiniteSet(S), S # {}, NEW n \in Nat \ {0}
    PROVE  /\ \A x \in Slices(S, n) : x \subseteq S /\ x # {} /\ IsFiniteSet(x)
                 /\ Cardinality(x) <= n /\ Cardinality(x) \in Nat
           /\ \A c \in S : \E x \in Slices(S, n) : c \in x
           /\ \A c \in S : \A x, y \in Slices(S, n) : c \in x /\ c \in y => x = y
<1> DEFINE m == Cardinality(S)
           q == SetToSeq(S)
           Slice(s) == {q[i] : i \in Places(m, n, s)}
           last == (m - 1) \div n
<1>1. /\ m \in Nat
      /\ q \in [1 .. m -> S]
      /\ \A i, j \in 1 .. m : q[i] = q[j] => i = j
      /\ \A c \in S : \E i \in 1 .. m : q[i] = c
  BY ListOfSet DEF Bijection, Injection, Surjection, IsInjective
<1>2. m # 0
  BY FS_EmptySet
<1>3. last \in Nat /\ last * n < m /\ m <= (last + 1) * n
  BY <1>1, <1>2, SliceOf
<1>4. Slices(S, n) = {Slice(s) : s \in 0 .. last}
  <2>1. DOMAIN q = 1 .. m
    BY <1>1
  <2> HIDE DEF q
  <2>2. \A s : {q[i] : i \in {j \in DOMAIN q : j > s * n /\ j <= (s + 1) * n}} = Slice(s)
    BY <2>1 DEF Places
  <2> QED
    BY <2>2 DEF Slices, q
<1> HIDE DEF m, q, last
<1>5. ASSUME NEW s \in 0 .. last
      PROVE  /\ Slice(s) \subseteq S /\ Slice(s) # {} /\ IsFiniteSet(Slice(s))
             /\ Cardinality(Slice(s)) <= n /\ Cardinality(Slice(s)) \in Nat
  <2>1. IsFiniteSet(Places(m, n, s)) /\ Cardinality(Places(m, n, s)) <= n
        /\ Cardinality(Places(m, n, s)) \in Nat
    <3>1. m \in Nat /\ s \in Nat
      BY <1>1, <1>3
    <3> QED
      BY <3>1, PlacesSize
  <2>2. /\ IsFiniteSet(Slice(s)) /\ Cardinality(Slice(s)) <= Cardinality(Places(m, n, s))
        /\ Cardinality(Slice(s)) \in Nat
    <3> DEFINE f == [i \in Places(m, n, s) |-> q[i]]
    <3>1. f \in Surjection(Places(m, n, s), Slice(s))
      BY DEF Surjection
    <3> QED
      BY <3>1, <2>1, FS_Surjection, FS_CardinalityType
  <2>3. Slice(s) \subseteq S
    BY <1>1 DEF Places
  <2>4. s * n + 1 \in Places(m, n, s)
    <3>1. s * n \in Int /\ 0 <= s * n /\ s * n <= last * n /\ last * n \in Int
          /\ (s + 1) * n = s * n + n
      <4>1. 0 * n <= s * n
        BY <1>3, Multiples
      <4>2. s * n <= last * n /\ s * n \in Int /\ last * n \in Int
            /\ (s + 1) * n = s * n + n
        BY <1>3, Multiples
      <4> QED
        BY <4>1, <4>2
    <3> QED
      BY <1>1, <1>3, <3>1 DEF Places
  <2>5. Slice(s) # {}
    BY <2>4
  <2> QED
    BY <2>1, <2>2, <2>3, <2>5
<1>6. ASSUME NEW c \in S PROVE \E x \in Slices(S, n) : c \in x
  <2>1. PICK i \in 1 .. m : q[i] = c
    BY <1>1
  <2> DEFINE s == (i - 1) \div n
  <2>2. s \in Nat /\ s * n < i /\ i <= (s + 1) * n
    BY <1>1, SliceOf
  <2> HIDE DEF s
  <2>3. s <= last
    <3> SUFFICES ASSUME last + 1 <= s PROVE FALSE
      BY <1>3, <2>2
    <3>1. (last + 1) * n <= s * n /\ (last + 1) * n \in Int /\ s * n \in Int
      BY <1>3, <2>2, Multiples
    <3> QED
      BY <3>1, <1>1, <1>3, <2>2
  <2>4. i \in Places(m, n, s)
    BY <2>2 DEF Places
  <2>5. Slice(s) \in Slices(S, n) /\ c \in Slice(s)
    BY <1>3, <1>4, <2>1, <2>2, <2>3, <2>4
  <2> QED
    BY <2>5
<1>7. ASSUME NEW c \in S, NEW x \in Slices(S, n), NEW y \in Slices(S, n), c \in x, c \in y
      PROVE  x = y
  <2>1. PICK s \in 0 .. last : x = Slice(s)
    BY <1>4
  <2>2. PICK u \in 0 .. last : y = Slice(u)
    BY <1>4
  <2>3. PICK i \in Places(m, n, s) : q[i] = c
    BY <1>7, <2>1
  <2>4. PICK j \in Places(m, n, u) : q[j] = c
    BY <1>7, <2>2
  <2>5. i = j
    BY <1>1, <2>3, <2>4 DEF Places
  <2>6. s = u
    BY <1>1, <2>3, <2>4, <2>5, SliceUnique, <1>3 DEF Places
  <2> QED
    BY <2>1, <2>2, <2>6
<1>8. ASSUME NEW x \in Slices(S, n)
      PROVE  /\ x \subseteq S /\ x # {} /\ IsFiniteSet(x)
             /\ Cardinality(x) <= n /\ Cardinality(x) \in Nat
  <2>1. PICK s \in 0 .. last : x = Slice(s)
    BY <1>4
  <2> QED
    BY <1>5, <2>1
<1> QED
  BY <1>6, <1>7, <1>8

-----------------------------------------------------------------------------
(***************************************************************************)
(* 2. The requests of a resubscription (_reconnect_subscribe).             *)
(***************************************************************************)
\* What a request for the subtypes ts may hold.
MostCodes(ts) == IF ts \intersect KTypes = {} THEN Quota ELSE Quota \div Cardinality(ts)

\* The subtypes that go with t in the same request.
Alike(rec, order, k) ==
    {t \in Types : rec[<<t, k[2]>>] = rec[k] /\ order[t] = order[k[1]]}
        \intersect IF k[1] \in KTypes THEN KTypes ELSE OTypes

Query(rec, order, k, s) ==
    [op |-> "sub", codes |-> s, types |-> Alike(rec, order, k), flavour |-> k[2],
          push |-> TRUE]

\* A slice for some kline subtypes holds a code at least, and fits the quota.
LEMMA QuotaFacts ==
    ASSUME NEW ts \in SUBSET KTypes, ts # {}
    PROVE  /\ Cardinality(ts) \in Nat \ {0}
           /\ Quota \div Cardinality(ts) \in Nat \ {0}
           /\ (Quota \div Cardinality(ts)) * Cardinality(ts) <= Quota
<1> DEFINE c == Cardinality(ts)
           d == Quota \div c
           r == Quota % c
<1>1. IsFiniteSet(ts) /\ c <= Cardinality(KTypes) /\ c \in Nat /\ c # 0
      /\ Cardinality(KTypes) \in Nat
  BY SubscriptionsAssumption, FS_Subset, FS_CardinalityType, FS_EmptySet
<1>2. c \in Int /\ c > 0 /\ Quota \in Int /\ c <= Quota /\ Quota > 0
  BY <1>1, SubscriptionsAssumption
<1>3. d \in Int /\ r \in Int /\ Quota = c * d + r /\ 0 <= r /\ r < c
  BY <1>2, DivNat, DivMod, ModRange
<1> HIDE DEF c, d, r
<1>4. c * d = d * c /\ d * c \in Int
  BY <1>2, <1>3
<1>5. d > 0
  <2> SUFFICES ASSUME d <= 0 PROVE FALSE
    BY <1>3
  <2>1. d * c <= 0 * c
    BY <1>1, <1>3, Multiples
  <2> QED
    BY <2>1, <1>2, <1>3, <1>4
<1> QED
  BY <1>1, <1>2, <1>3, <1>4, <1>5 DEF c, d

\* The requests of a resubscription, one by one.
LEMMA PlanMembers ==
    ASSUME NEW rec, NEW order
    PROVE  /\ \A q \in Plan(rec, order) : \E k \in Keys :
                 /\ rec[k] # {}
                 /\ \E s \in Slices(rec[k], MostCodes(Alike(rec, order, k))) :
                       q = Query(rec, order, k, s)
           /\ \A k \in Keys :
                 rec[k] # {} => \A s \in Slices(rec[k], MostCodes(Alike(rec, order, k))) :
                                   Query(rec, order, k, s) \in Plan(rec, order)
<1> DEFINE Group(k) ==
        [codes   |-> rec[k],
         types   |-> {t \in Types : /\ rec[<<t, k[2]>>] = rec[k]
                                    /\ order[t] = order[k[1]]},
         flavour |-> k[2]]
<1>1. SubList(rec, order) = {Group(k) : k \in {x \in Keys : rec[x] # {}}}
  BY DEF SubList
<1> DEFINE ks(k) == Group(k).types \intersect KTypes
           os(k) == Group(k).types \intersect OTypes
           Asked(k, s, ts) == [op |-> "sub", codes |-> s, types |-> ts, flavour |-> k[2],
          push |-> TRUE]
<1>2. ASSUME NEW k \in Keys
      PROVE  \A q : q \in Batches(Group(k)) <=>
                \/ /\ ks(k) # {}
                   /\ \E s \in Slices(rec[k], Quota \div Cardinality(ks(k))) :
                         q = Asked(k, s, ks(k))
                \/ /\ os(k) # {}
                   /\ \E s \in Slices(rec[k], Quota) : q = Asked(k, s, os(k))
  <2>1. Group(k).codes = rec[k] /\ Group(k).flavour = k[2]
    OBVIOUS
  <2> HIDE DEF Group
  <2> QED
    BY <2>1 DEF Batches
<1>3. ASSUME NEW k \in Keys
      PROVE  /\ k[1] \in Types /\ k[2] \in Flavours /\ k = <<k[1], k[2]>>
             /\ k[1] \in KTypes => ks(k) # {} /\ Alike(rec, order, k) = ks(k)
             /\ k[1] \notin KTypes => os(k) # {} /\ Alike(rec, order, k) = os(k)
  <2>1. k[1] \in Types /\ k[2] \in Flavours /\ k = <<k[1], k[2]>>
    BY DEF Keys
  <2>2. k[1] \in Group(k).types
    BY <2>1
  <2>3. \A t : t \in Alike(rec, order, k) <=>
              t \in Group(k).types /\ t \in IF k[1] \in KTypes THEN KTypes ELSE OTypes
    BY DEF Alike
  <2> HIDE DEF Group
  <2> QED
    BY <2>1, <2>2, <2>3 DEF Types
<1>4. \A ts : ts \subseteq OTypes => ts \intersect KTypes = {}
  BY SubscriptionsAssumption
<1>5. ASSUME NEW k \in Keys, rec[k] # {},
             NEW s \in Slices(rec[k], MostCodes(Alike(rec, order, k)))
      PROVE  Query(rec, order, k, s) \in Plan(rec, order)
  <2>1. Query(rec, order, k, s) \in Batches(Group(k))
    <3>1. CASE k[1] \in KTypes
      <4>1. MostCodes(Alike(rec, order, k)) = Quota \div Cardinality(ks(k))
        BY <1>3, <3>1 DEF MostCodes
      <4> QED
        BY <1>2, <1>3, <1>5, <3>1, <4>1 DEF Query
    <3>2. CASE k[1] \notin KTypes
      <4>1. MostCodes(Alike(rec, order, k)) = Quota
        BY <1>3, <1>4, <3>2 DEF MostCodes
      <4> QED
        BY <1>2, <1>3, <1>5, <3>2, <4>1 DEF Query
    <3> QED
      BY <3>1, <3>2
  <2>2. Group(k) \in SubList(rec, order)
    BY <1>1, <1>5
  <2> QED
    BY <2>1, <2>2 DEF Plan
<1>6. ASSUME NEW q \in Plan(rec, order)
      PROVE  \E k \in Keys :
                 /\ rec[k] # {}
                 /\ \E s \in Slices(rec[k], MostCodes(Alike(rec, order, k))) :
                       q = Query(rec, order, k, s)
  <2>1. PICK k \in Keys : rec[k] # {} /\ q \in Batches(Group(k))
    <3>1. PICK g \in SubList(rec, order) : q \in Batches(g)
      BY DEF Plan
    <3> HIDE DEF Group
    <3>2. PICK k \in {x \in Keys : rec[x] # {}} : g = Group(k)
      BY <1>1
    <3> QED
      BY <3>1, <3>2
  <2>2. \A t \in Group(k).types :
           LET l == <<t, k[2]>> IN
           /\ l \in Keys /\ l[1] = t /\ l[2] = k[2] /\ rec[l] = rec[k]
           /\ Group(l) = Group(k)
    BY <1>3 DEF Keys
  <2> HIDE DEF Group
  <2>3. CASE /\ ks(k) # {}
             /\ \E s \in Slices(rec[k], Quota \div Cardinality(ks(k))) :
                   q = Asked(k, s, ks(k))
    <3>1. PICK t : t \in ks(k)
      BY <2>3
    <3> DEFINE l == <<t, k[2]>>
    <3>2. /\ l \in Keys /\ rec[l] = rec[k] /\ l[2] = k[2] /\ l[1] \in KTypes
          /\ Group(l) = Group(k)
      BY <2>2, <3>1
    <3> HIDE DEF l
    <3>3. Alike(rec, order, l) = ks(k)
      BY <1>3, <3>2
    <3>4. MostCodes(ks(k)) = Quota \div Cardinality(ks(k))
      BY <2>3 DEF MostCodes
    <3> QED
      BY <2>1, <2>3, <3>2, <3>3, <3>4 DEF Query
  <2>4. CASE /\ os(k) # {}
             /\ \E s \in Slices(rec[k], Quota) : q = Asked(k, s, os(k))
    <3>1. PICK t : t \in os(k)
      BY <2>4
    <3> DEFINE l == <<t, k[2]>>
    <3>2. /\ l \in Keys /\ rec[l] = rec[k] /\ l[2] = k[2] /\ l[1] \notin KTypes
          /\ Group(l) = Group(k)
      BY <2>2, <3>1, SubscriptionsAssumption
    <3> HIDE DEF l
    <3>3. Alike(rec, order, l) = os(k)
      BY <1>3, <3>2
    <3>4. MostCodes(os(k)) = Quota
      BY <1>4 DEF MostCodes
    <3> QED
      BY <2>1, <2>4, <3>2, <3>3, <3>4 DEF Query
  <2> QED
    BY <1>2, <2>1, <2>3, <2>4
<1> QED
  BY <1>5, <1>6

\* Query q is about type t of code c, in flavour f.
Touches(q, t, c, f) == t \in q.types /\ c \in q.codes /\ f = q.flavour

\* A request and what it is made from.
LEMMA AlikeFacts ==
    ASSUME NEW rec, NEW order, NEW k \in Keys
    PROVE  /\ k[1] \in Alike(rec, order, k)
           /\ Alike(rec, order, k) \in SUBSET KTypes \/ Alike(rec, order, k) \in SUBSET OTypes
           /\ Alike(rec, order, k) \subseteq Types
           /\ MostCodes(Alike(rec, order, k)) \in Nat \ {0}
           /\ \A t \in Alike(rec, order, k) :
                 LET l == <<t, k[2]>> IN
                 /\ l \in Keys /\ rec[l] = rec[k]
                 /\ Alike(rec, order, l) = Alike(rec, order, k)
<1>1. k[1] \in Types /\ k[2] \in Flavours /\ k = <<k[1], k[2]>>
  BY DEF Keys
<1>2. k[1] \in Alike(rec, order, k)
  BY <1>1 DEF Alike, Types
<1>3. /\ Alike(rec, order, k) \in SUBSET KTypes \/ Alike(rec, order, k) \in SUBSET OTypes
      /\ Alike(rec, order, k) \subseteq Types
  BY DEF Alike
<1>4. MostCodes(Alike(rec, order, k)) \in Nat \ {0}
  <2>1. CASE Alike(rec, order, k) \in SUBSET KTypes
    <3>1. Alike(rec, order, k) \intersect KTypes # {}
      BY <1>2, <2>1
    <3> QED
      BY <1>2, <2>1, <3>1, QuotaFacts DEF MostCodes
  <2>2. CASE Alike(rec, order, k) \in SUBSET OTypes
    BY <2>2, SubscriptionsAssumption DEF MostCodes
  <2> QED
    BY <1>3, <2>1, <2>2
<1>5. ASSUME NEW t \in Alike(rec, order, k)
      PROVE  LET l == <<t, k[2]>> IN
             /\ l \in Keys /\ rec[l] = rec[k]
             /\ Alike(rec, order, l) = Alike(rec, order, k)
  <2> DEFINE l == <<t, k[2]>>
  <2>1. l \in Keys /\ l[1] = t /\ l[2] = k[2] /\ rec[l] = rec[k] /\ order[t] = order[k[1]]
    BY <1>1, <1>3 DEF Keys, Alike
  <2>2. t \in KTypes <=> k[1] \in KTypes
    BY <1>1, SubscriptionsAssumption DEF Alike, Types
  <2> HIDE DEF l
  <2>3. Alike(rec, order, l) = Alike(rec, order, k)
    BY <2>1, <2>2 DEF Alike
  <2> QED
    BY <2>1, <2>3 DEF l
<1> QED
  BY <1>2, <1>3, <1>4, <1>5

\* What a resubscription asks for is in the record, and within the quota.
LEMMA PlanWithinRecord ==
    ASSUME NEW rec \in [Keys -> SUBSET Codes], NEW order, NEW q \in Plan(rec, order)
    PROVE  /\ q \in CallType /\ q.op = "sub" /\ q.push = TRUE
           /\ \A t \in q.types : t \in Types /\ q.codes \subseteq rec[<<t, q.flavour>>]
           /\ Cardinality(q.codes) * Cardinality(q.types \intersect KTypes) <= Quota
<1>1. PICK k \in Keys :
         /\ rec[k] # {}
         /\ \E s \in Slices(rec[k], MostCodes(Alike(rec, order, k))) :
               q = Query(rec, order, k, s)
  BY PlanMembers
<1> DEFINE ts == Alike(rec, order, k)
           n == MostCodes(ts)
<1>2. PICK s \in Slices(rec[k], n) : q = Query(rec, order, k, s)
  BY <1>1
<1>3. rec[k] \in SUBSET Codes /\ IsFiniteSet(rec[k])
  BY SubscriptionsAssumption, FS_Subset
<1>4. n \in Nat \ {0} /\ ts \subseteq Types /\ ts # {}
      /\ \A t \in ts : rec[<<t, k[2]>>] = rec[k]
  BY AlikeFacts
<1>5. s \subseteq rec[k] /\ s # {} /\ Cardinality(s) <= n /\ Cardinality(s) \in Nat
  <2> HIDE DEF n
  <2> QED
    BY <1>1, <1>2, <1>3, <1>4, SliceFacts
<1>6. /\ q.op = "sub" /\ q.codes = s /\ q.types = ts /\ q.flavour = k[2] /\ q.push = TRUE
      /\ q = [op |-> "sub", codes |-> s, types |-> ts, flavour |-> k[2],
          push |-> TRUE]
  <2>1. q = [op |-> "sub", codes |-> s, types |-> ts, flavour |-> k[2],
          push |-> TRUE]
    BY <1>2 DEF Query
  <2> QED
    BY <2>1
<1>7. q \in CallType
  <2>1. /\ s \in (SUBSET Codes) \ {{}} /\ ts \in (SUBSET Types) \ {{}}
        /\ k[2] \in Flavours
    BY <1>3, <1>4, <1>5 DEF Keys
  <2> HIDE DEF ts
  <2>2. "sub" \in {"sub", "unsub", "unsub_all"} /\ TRUE \in BOOLEAN
    OBVIOUS
  <2> QED
    BY <1>6, <2>1, <2>2 DEF CallType
<1>8. Cardinality(s) * Cardinality(ts \intersect KTypes) <= Quota
  <2>1. CASE ts \in SUBSET KTypes
    <3>1. /\ ts \intersect KTypes = ts /\ n = Quota \div Cardinality(ts)
          /\ Cardinality(ts) \in Nat /\ n * Cardinality(ts) <= Quota
      BY <1>4, <2>1, QuotaFacts DEF MostCodes
    <3> DEFINE x == Cardinality(s)
               y == Cardinality(ts)
    <3>2. x \in Int /\ n \in Int /\ y \in Nat /\ x <= n /\ n * y <= Quota
      BY <1>4, <1>5, <3>1
    <3> HIDE DEF x, y, n
    <3>3. x * y <= n * y /\ x * y \in Int /\ n * y \in Int
      BY <3>2, Multiples
    <3>4. x * y <= Quota
      BY <3>2, <3>3, SubscriptionsAssumption
    <3> QED
      BY <3>1, <3>4 DEF x, y
  <2>2. CASE ts \in SUBSET OTypes
    <3>1. ts \intersect KTypes = {}
      BY <2>2, SubscriptionsAssumption
    <3>2. Cardinality(ts \intersect KTypes) = 0
      BY <3>1, FS_EmptySet
    <3> QED
      BY <1>5, <3>2, SubscriptionsAssumption
  <2> QED
    BY <2>1, <2>2, AlikeFacts
<1> QED
  BY <1>4, <1>5, <1>6, <1>7, <1>8

\* What is in the record is asked for.
LEMMA PlanCovers ==
    ASSUME NEW rec \in [Keys -> SUBSET Codes], NEW order,
           NEW t \in Types, NEW f \in Flavours, NEW c \in rec[<<t, f>>]
    PROVE  \E q \in Plan(rec, order) : Touches(q, t, c, f)
<1> DEFINE k == <<t, f>>
           ts == Alike(rec, order, k)
<1>1. k \in Keys /\ k[1] = t /\ k[2] = f /\ rec[k] # {} /\ IsFiniteSet(rec[k])
  BY SubscriptionsAssumption, FS_Subset DEF Keys
<1>2. t \in ts /\ MostCodes(ts) \in Nat \ {0}
  BY <1>1, AlikeFacts
<1> HIDE DEF k, ts
<1>3. PICK s \in Slices(rec[k], MostCodes(ts)) : c \in s
  BY <1>1, <1>2, SliceFacts DEF k
<1>4. Query(rec, order, k, s) \in Plan(rec, order)
  BY <1>1, <1>3, PlanMembers DEF ts
<1> QED
  BY <1>1, <1>2, <1>3, <1>4 DEF Touches, Query, ts

\* Two requests about the same type of a code are the same request.
LEMMA PlanRepeatsNothing ==
    ASSUME NEW rec \in [Keys -> SUBSET Codes], NEW order,
           NEW t \in Types, NEW f \in Flavours, NEW c,
           NEW p \in Plan(rec, order), NEW q \in Plan(rec, order),
           Touches(p, t, c, f), Touches(q, t, c, f)
    PROVE  p = q
<1> DEFINE l == <<t, f>>
           ts == Alike(rec, order, l)
<1>1. ASSUME NEW r \in Plan(rec, order), Touches(r, t, c, f)
      PROVE  \E s \in Slices(rec[l], MostCodes(ts)) :
                c \in s /\ r = [op |-> "sub", codes |-> s, types |-> ts, flavour |-> f,
          push |-> TRUE]
  <2>1. PICK k \in Keys :
           /\ rec[k] # {}
           /\ \E s \in Slices(rec[k], MostCodes(Alike(rec, order, k))) :
                 r = Query(rec, order, k, s)
    BY PlanMembers
  <2>2. PICK s \in Slices(rec[k], MostCodes(Alike(rec, order, k))) :
           r = Query(rec, order, k, s)
    BY <2>1
  <2>3. t \in Alike(rec, order, k) /\ c \in s /\ k[2] = f
    BY <1>1, <2>2 DEF Touches, Query
  <2>4. rec[l] = rec[k] /\ Alike(rec, order, k) = ts
    BY <2>3, AlikeFacts
  <2> QED
    BY <2>2, <2>3, <2>4 DEF Query
<1>2. PICK x \in Slices(rec[l], MostCodes(ts)) :
         c \in x /\ p = [op |-> "sub", codes |-> x, types |-> ts, flavour |-> f,
          push |-> TRUE]
  BY <1>1
<1>3. PICK y \in Slices(rec[l], MostCodes(ts)) :
         c \in y /\ q = [op |-> "sub", codes |-> y, types |-> ts, flavour |-> f,
          push |-> TRUE]
  BY <1>1
<1>4. l \in Keys
  BY DEF Keys
<1>5. IsFiniteSet(rec[l]) /\ MostCodes(ts) \in Nat \ {0}
  BY <1>4, SubscriptionsAssumption, FS_Subset, AlikeFacts
<1>6. c \in rec[l] /\ rec[l] # {}
  <2>1. \A u \in p.types : p.codes \subseteq rec[<<u, p.flavour>>]
    BY PlanWithinRecord
  <2> QED
    BY <2>1 DEF Touches
<1> HIDE DEF ts, l
<1>7. x = y
  BY <1>2, <1>3, <1>5, <1>6, SliceFacts
<1> QED
  BY <1>2, <1>3, <1>7
\* PlanCoversRecord, of any record.
LEMMA PlanIsRecord ==
    ASSUME record \in [Keys -> SUBSET Codes]
    PROVE  PlanCoversRecord
<1> SUFFICES ASSUME NEW order \in Orders
             PROVE  /\ \A t \in Types, c \in Codes, f \in Flavours :
                         Cardinality({q \in Plan(record, order) :
                                         t \in q.types /\ c \in q.codes /\ f = q.flavour})
                           = IF c \in record[<<t, f>>] THEN 1 ELSE 0
                    /\ \A q \in Plan(record, order) :
                         Cardinality(q.codes) * Cardinality(q.types \intersect KTypes)
                           <= Quota
  BY Zenon DEF PlanCoversRecord
<1>1. ASSUME NEW t \in Types, NEW c \in Codes, NEW f \in Flavours
      PROVE  Cardinality({q \in Plan(record, order) :
                             t \in q.types /\ c \in q.codes /\ f = q.flavour})
               = IF c \in record[<<t, f>>] THEN 1 ELSE 0
  <2> DEFINE asked == {q \in Plan(record, order) : Touches(q, t, c, f)}
  <2>1. asked = {q \in Plan(record, order) :
                    t \in q.types /\ c \in q.codes /\ f = q.flavour}
    BY DEF Touches
  <2>2. CASE c \in record[<<t, f>>]
    <3>1. PICK p \in Plan(record, order) : Touches(p, t, c, f)
      BY <2>2, PlanCovers
    <3>2. asked = {p}
      BY <3>1, PlanRepeatsNothing
    <3> HIDE DEF asked
    <3>3. Cardinality(asked) = 1
      BY <3>2, FS_Singleton
    <3> QED
      BY <2>1, <2>2, <3>3
  <2>3. CASE c \notin record[<<t, f>>]
    <3>1. ASSUME NEW q \in Plan(record, order), Touches(q, t, c, f)
          PROVE  FALSE
      BY <2>3, <3>1, PlanWithinRecord DEF Touches
    <3>2. asked = {}
      BY <3>1
    <3> HIDE DEF asked
    <3>3. Cardinality(asked) = 0
      BY <3>2, FS_EmptySet
    <3> QED
      BY <2>1, <2>3, <3>3
  <2> QED
    BY <2>2, <2>3
<1>2. \A q \in Plan(record, order) :
         Cardinality(q.codes) * Cardinality(q.types \intersect KTypes) <= Quota
  BY PlanWithinRecord
<1> QED
  BY <1>1, <1>2

-----------------------------------------------------------------------------
(***************************************************************************)
(* 3. SubRecord. Only subscribe() and the removal of codes change the      *)
(* record, so nothing about the gateway or the threads is needed.          *)
(***************************************************************************)
\* A record in which no two flavours share a type of a code.
Separate(rec) ==
    /\ rec = [k \in Keys |-> rec[k]]
    /\ \A t \in Types, f, g \in Flavours :
          f # g => rec[<<t, f>>] \intersect rec[<<t, g>>] = {}

LEMMA KeyShape ==
    \A t \in Types, f \in Flavours :
        <<t, f>> \in Keys /\ <<t, f>>[1] = t /\ <<t, f>>[2] = f
BY DEF Keys

\* SubRecord.sub takes the codes out of the other flavours before it adds them
\* to the one asked for.
LEMMA SubSeparates ==
    ASSUME NEW rec, Separate(rec), NEW q
    PROVE  Separate(Sub(rec, q))
<1> DEFINE new == Sub(rec, q)
<1>1. new = [k \in Keys |-> new[k]]
  BY DEF Sub
<1>2. ASSUME NEW t \in Types, NEW f \in Flavours
      PROVE  new[<<t, f>>] = IF t \notin q.types THEN rec[<<t, f>>]
                             ELSE IF f = q.flavour THEN rec[<<t, f>>] \union q.codes
                             ELSE rec[<<t, f>>] \ q.codes
  BY KeyShape DEF Sub
<1>3. ASSUME NEW t \in Types, NEW f \in Flavours, NEW g \in Flavours, f # g
      PROVE  new[<<t, f>>] \intersect new[<<t, g>>] = {}
  <2> HIDE DEF new
  <2>1. rec[<<t, f>>] \intersect rec[<<t, g>>] = {}
    BY <1>3 DEF Separate
  <2>2. CASE t \notin q.types
    BY <1>2, <2>1, <2>2
  <2>3. CASE t \in q.types /\ f = q.flavour
    <3>1. new[<<t, f>>] = rec[<<t, f>>] \union q.codes
      BY <1>2, <2>3
    <3>2. new[<<t, g>>] = rec[<<t, g>>] \ q.codes
      BY <1>2, <1>3, <2>3
    <3> QED
      BY <3>1, <3>2, <2>1, Zenon
  <2>4. CASE t \in q.types /\ f # q.flavour
    <3>1. new[<<t, f>>] = rec[<<t, f>>] \ q.codes
      BY <1>2, <2>4
    <3>2. new[<<t, g>>] \subseteq rec[<<t, g>>] \union q.codes
      BY <1>2, <2>4
    <3> QED
      BY <3>1, <3>2, <2>1, Zenon
  <2> QED
    BY <2>2, <2>3, <2>4
<1> HIDE DEF new
<1>4. Separate(new)
  BY <1>1, <1>3 DEF Separate
<1> QED
  BY <1>4 DEF new

\* SubRecord.unsub only takes codes out.
LEMMA UnsubSeparates ==
    ASSUME NEW rec, Separate(rec), NEW q
    PROVE  Separate(Unsub(rec, q))
<1> DEFINE new == Unsub(rec, q)
<1>1. new = [k \in Keys |-> new[k]]
  BY DEF Unsub
<1>2. ASSUME NEW t \in Types, NEW f \in Flavours
      PROVE  new[<<t, f>>] \subseteq rec[<<t, f>>]
  BY KeyShape DEF Unsub
<1> HIDE DEF new
<1>3. ASSUME NEW t \in Types, NEW f \in Flavours, NEW g \in Flavours, f # g
      PROVE  new[<<t, f>>] \intersect new[<<t, g>>] = {}
  <2>1. rec[<<t, f>>] \intersect rec[<<t, g>>] = {}
    BY <1>3 DEF Separate
  <2> QED
    BY <1>2, <2>1
<1>4. Separate(new)
  BY <1>1, <1>3 DEF Separate
<1> QED
  BY <1>4 DEF new

LEMMA SeparateInit == Init => Separate(record)
BY KeyShape DEF Init, Separate

LEMMA SeparateStep ==
    ASSUME Separate(record), [Next]_vars
    PROVE  Separate(record')
<1>1. CASE UNCHANGED vars
  BY <1>1 DEF vars
<1>2. ASSUME NEW u \in Users, NEW q \in Calls, Subscribe(u, q)
      PROVE  Separate(record')
  BY <1>2 DEF Subscribe
<1>3. ASSUME NEW u \in Users, NEW q \in Calls, Unsubscribe(u, q)
      PROVE  Separate(record')
  BY <1>3, UnsubSeparates DEF Unsubscribe
<1>4. ASSUME NEW t \in Threads, Send(t) \/ GiveUp(t) \/ Serve(t)
      PROVE  Separate(record')
  BY <1>4 DEF Send, GiveUp, Serve
<1>5. ASSUME NEW t \in Threads, Finish(t)
      PROVE  Separate(record')
  <2>1. record' = Sub(record, call[t]) \/ record' = record
    BY <1>5 DEF Finish
  <2> QED
    BY <2>1, SubSeparates
<1>6. ASSUME NEW s \in Resubs, Snapshot(s) \/ Resubscribe(s)
      PROVE  Separate(record')
  BY <1>6 DEF Snapshot, Resubscribe
<1>7. CASE SessionUp \/ Disconnect
  BY <1>7 DEF SessionUp, Disconnect
<1>8. ASSUME NEW u \in Users, Unpush(u)
      PROVE  Separate(record')
  BY <1>8 DEF Unpush
<1>9. ASSUME NEW q \in unpush, ServeUnpush(q)
      PROVE  Separate(record')
  BY <1>9 DEF ServeUnpush
<1> QED
  BY <1>1, <1>2, <1>3, <1>4, <1>5, <1>6, <1>7, <1>8, <1>9 DEF Next

\* Whatever the user's threads and the reconnecting threads subscribe and in whatever
\* order their replies come back, a type of a code is recorded in one flavour at
\* most (SubRecord.sub, open_quote_context.py:19-37).
THEOREM RecordSeparates == Spec => []OneFlavour
<1>1. Separate(record) => OneFlavour
  BY DEF Separate, OneFlavour
<1>2. Init => Separate(record)
  BY SeparateInit
<1>3. Separate(record) /\ [Next]_vars => Separate(record)'
  <2>1. Separate(record)' <=> Separate(record')
    BY DEF Separate, Keys, Types
  <2> QED
    BY SeparateStep, <2>1
<1> QED
  BY <1>1, <1>2, <1>3, PTL DEF Spec

-----------------------------------------------------------------------------
(***************************************************************************)
(* 4. Types.                                                               *)
(***************************************************************************)
LEMMA ThreadFacts ==
    /\ Resubs \subseteq Threads /\ Users \subseteq Threads
    /\ \A u \in Users : u \notin Resubs
    /\ Threads = Users \union Resubs /\ Resubs \subseteq Nat
BY SubscriptionsAssumption DEF Resubs, Threads

\* TypeOK leaves these two domains open.
Tables ==
    call = [t \in Threads |-> call[t]] /\ todo = [s \in Resubs |-> todo[s]]

States == {"idle", "trying", "sent", "ok", "error", "unpush"}

\* What the gateway holds of a type of a code.
Held == [flavour : Flavours \union {NoOne}, push : BOOLEAN]

LEMMA RecordType ==
    ASSUME NEW rec \in [Keys -> SUBSET Codes], NEW q \in CallType
    PROVE  /\ Sub(rec, q) \in [Keys -> SUBSET Codes]
           /\ Unsub(rec, q) \in [Keys -> SUBSET Codes]
<1>1. q.codes \in SUBSET Codes
  BY DEF CallType
<1>2. ASSUME NEW k \in Keys
      PROVE  rec[k] \union q.codes \in SUBSET Codes /\ rec[k] \ q.codes \in SUBSET Codes
  BY <1>1
<1> QED
  BY <1>2 DEF Sub, Unsub

LEMMA ObeyedType ==
    ASSUME NEW q \in CallType, gateway \in [Types \X Codes -> Held]
    PROVE  Obeyed(q) \in [Types \X Codes -> Held]
<1>1. q.flavour \in Flavours /\ q.push \in BOOLEAN
  BY DEF CallType
<1>2. [flavour |-> q.flavour, push |-> q.push] \in Held /\ Nothing \in Held
  BY <1>1 DEF Held, Nothing
<1> QED
  BY <1>2 DEF Obeyed

LEMMA PairsType ==
    ASSUME NEW q \in CallType
    PROVE  Pairs(q) \subseteq Types \X Codes
BY DEF CallType, Pairs

LEMMA TypeInit == Init => TypeOK /\ Tables
<1> SUFFICES ASSUME Init PROVE TypeOK /\ Tables
  OBVIOUS
<1>1. /\ record \in [Keys -> SUBSET Codes]
      /\ req \in [Threads -> States]
      /\ \A t \in Threads : req[t] = "idle" /\ call[t] = NoOne
      /\ resub \in [Resubs -> {"none", "due", "taken", "failed"}]
      /\ \A s \in Resubs : todo[s] = {}
      /\ Tables
  BY DEF Init, Tables, States
<1>2. 0 \in 0 .. MaxSession /\ 0 \in 0 .. MaxCalls /\ 0 \in 0 .. MaxFaults
  BY SubscriptionsAssumption
<1>3. gateway \in [Types \X Codes -> Held]
  BY DEF Init, Held, Nothing
<1> QED
  BY <1>1, <1>2, <1>3 DEF Init, TypeOK, States, Held

LEMMA TypeStep ==
    ASSUME TypeOK, Tables, [Next]_vars
    PROVE  TypeOK' /\ Tables'
<1> USE DEF TypeOK, Tables
<1>1. CASE UNCHANGED vars
  BY <1>1 DEF vars, cnts
<1>2. ASSUME NEW u \in Users, NEW q \in Calls, Subscribe(u, q) \/ Unsubscribe(u, q)
      PROVE  TypeOK' /\ Tables'
  <2>1. q \in CallType /\ u \in Threads
    BY SubscriptionsAssumption, ThreadFacts
  <2>2. record' \in [Keys -> SUBSET Codes]
    BY <1>2, <2>1, RecordType DEF Subscribe, Unsubscribe
  <2>3. NewCall(u, q) /\ Start(u, q)
    BY <1>2 DEF Subscribe, Unsubscribe, NewCall
  <2>4. calls' \in 0 .. MaxCalls
    BY <2>3, SubscriptionsAssumption DEF NewCall
  <2>5. disturbed' \in BOOLEAN
    BY <2>3, Zenon DEF NewCall, Disturbing
  <2>6. /\ req' \in [Threads -> States]
        /\ req'[u] # "idle" /\ call'[u] \in CallType
        /\ call' = [t \in Threads |-> call'[t]]
        /\ \A t \in Threads : t # u => req'[t] = req[t] /\ call'[t] = call[t]
    BY <2>1, <2>3 DEF Start, States
  <2>7. UNCHANGED <<up, session, gateway, unpush, resub, todo, faults, mute>>
    BY <2>3 DEF NewCall
  <2> QED
    BY <2>2, <2>4, <2>5, <2>6, <2>7 DEF States
<1>3. ASSUME NEW t \in Threads, Send(t) \/ GiveUp(t)
      PROVE  TypeOK' /\ Tables'
  <2>1. req' \in [Threads -> States] /\ req'[t] # "idle"
    BY <1>3 DEF Send, GiveUp, States
  <2>2. /\ \A u \in Threads : u # t => req'[u] = req[u]
        /\ req[t] # "idle"
        /\ UNCHANGED <<up, session, record, gateway, call, unpush, resub, todo, calls,
                       faults, mute>>
    BY <1>3 DEF Send, GiveUp, cnts
  <2>3. disturbed' \in BOOLEAN
    BY <1>3, Zenon DEF Send, GiveUp
  <2> QED
    BY <2>1, <2>2, <2>3 DEF States
<1>4. ASSUME NEW t \in Threads, Serve(t)
      PROVE  TypeOK' /\ Tables'
  <2>1. gateway' \in [Types \X Codes -> Held]
    <3>1. call[t] \in CallType
      BY <1>4 DEF Serve
    <3>2. gateway' = Obeyed(call[t]) \/ gateway' = gateway
      BY <1>4 DEF Serve
    <3>3. gateway \in [Types \X Codes -> Held]
      BY DEF Held
    <3>4. Obeyed(call[t]) \in [Types \X Codes -> Held]
      BY <3>1, <3>3, ObeyedType
    <3> QED
      BY <3>2, <3>3, <3>4
  <2>2. faults' \in 0 .. MaxFaults
    <3>1. faults' = faults \/ (faults < MaxFaults /\ faults' = faults + 1)
      BY <1>4 DEF Serve, Fault
    <3> QED
      BY <3>1, SubscriptionsAssumption
  <2>3. disturbed' \in BOOLEAN
    BY <1>4, Zenon DEF Serve, Disturbing
  <2>4. req' \in [Threads -> States] /\ req'[t] # "idle"
    BY <1>4 DEF Serve, States
  <2>5. /\ \A u \in Threads : u # t => req'[u] = req[u]
        /\ req[t] # "idle"
        /\ UNCHANGED <<up, session, record, call, unpush, resub, todo, calls, mute>>
    BY <1>4 DEF Serve
  <2> QED
    BY <2>1, <2>2, <2>3, <2>4, <2>5 DEF States, Held
<1>5. ASSUME NEW t \in Threads, Finish(t)
      PROVE  TypeOK' /\ Tables'
  <2>1. call[t] \in CallType
    BY <1>5 DEF Finish
  <2>2. record' \in [Keys -> SUBSET Codes]
    BY <1>5, <2>1, RecordType DEF Finish
  <2>3. disturbed' \in BOOLEAN
    BY <1>5, Zenon DEF Finish, Disturbing
  <2>4. /\ resub' \in [Resubs -> {"none", "due", "taken", "failed"}]
        /\ todo' = [s \in Resubs |-> todo'[s]]
        /\ \A s \in Resubs : todo'[s] \subseteq CallType
    BY <1>5 DEF Finish
  <2>5. mute' \subseteq Types \X Codes
    BY <1>5, <2>1, PairsType DEF Finish
  <2>6. /\ req' \in [Threads -> States]
        /\ call' = [u \in Threads |-> call'[u]]
        /\ \A u \in Threads : IF req'[u] = "idle" THEN call'[u] = NoOne
                                                  ELSE call'[u] \in CallType
    <3>1. CASE req[t] = "ok" /\ call[t].op = "unsub"
      <4>1. req' = [req EXCEPT ![t] = "unpush"] /\ call' = call
        BY <1>5, <3>1 DEF Finish
      <4> QED
        BY <2>1, <4>1 DEF States
    <3>2. CASE ~(req[t] = "ok" /\ call[t].op = "unsub")
      <4>1. req' = [req EXCEPT ![t] = "idle"] /\ call' = [call EXCEPT ![t] = NoOne]
        BY <1>5, <3>2 DEF Finish
      <4> QED
        BY <4>1 DEF States
    <3> QED
      BY <3>1, <3>2
  <2>7. UNCHANGED <<up, session, gateway, unpush, calls, faults>>
    BY <1>5 DEF Finish, cnts
  <2> QED
    BY <2>2, <2>3, <2>4, <2>5, <2>6, <2>7 DEF States
<1>6. ASSUME NEW s \in Resubs, Snapshot(s)
      PROVE  TypeOK' /\ Tables'
  <2>1. \A order : Plan(record, order) \subseteq CallType
    BY PlanWithinRecord
  <2>2. disturbed' \in BOOLEAN
    BY <1>6, Zenon DEF Snapshot
  <2>3. /\ resub' \in [Resubs -> {"none", "due", "taken", "failed"}]
        /\ todo' = [r \in Resubs |-> todo'[r]]
        /\ \A r \in Resubs : todo'[r] \subseteq CallType
    <3>1. PICK order \in Orders : todo' = [todo EXCEPT ![s] = Plan(record, order)]
      BY <1>6 DEF Snapshot
    <3> QED
      BY <1>6, <2>1, <3>1 DEF Snapshot
  <2>4. /\ UNCHANGED <<up, session, record, gateway, req, call, unpush, calls, faults>>
        /\ mute' = {}
    BY <1>6 DEF Snapshot, cnts
  <2> QED
    BY <2>2, <2>3, <2>4
<1>7. ASSUME NEW s \in Resubs, Resubscribe(s)
      PROVE  TypeOK' /\ Tables'
  <2>1. PICK q \in todo[s] : Start(s, q) /\ todo' = [todo EXCEPT ![s] = @ \ {q}]
    BY <1>7 DEF Resubscribe
  <2>2. q \in CallType /\ s \in Threads
    BY ThreadFacts
  <2>3. /\ req' \in [Threads -> States]
        /\ req'[s] # "idle" /\ call'[s] \in CallType
        /\ call' = [t \in Threads |-> call'[t]]
        /\ \A t \in Threads : t # s => req'[t] = req[t] /\ call'[t] = call[t]
    BY <2>1, <2>2 DEF Start, States
  <2>4. /\ todo' = [r \in Resubs |-> todo'[r]]
        /\ \A r \in Resubs : todo'[r] \subseteq CallType
    BY <2>1
  <2>5. UNCHANGED <<up, session, record, gateway, unpush, resub, calls, faults, mute>>
    BY <1>7 DEF Resubscribe, cnts
  <2>6. disturbed' \in BOOLEAN
    BY <1>7, Zenon DEF Resubscribe
  <2>7. \A t \in Threads : IF req'[t] = "idle" THEN call'[t] = NoOne
                                              ELSE call'[t] \in CallType
    BY <2>3
  <2> QED
    BY <2>3, <2>4, <2>5, <2>6, <2>7 DEF States
<1>8. CASE SessionUp
  <2>1. session' \in 0 .. MaxSession /\ up' \in BOOLEAN
    BY <1>8, SubscriptionsAssumption DEF SessionUp
  <2>2. resub' \in [Resubs -> {"none", "due", "taken", "failed"}]
    BY <1>8 DEF SessionUp
  <2>3. UNCHANGED <<record, gateway, req, call, unpush, todo, calls, faults, mute>>
    BY <1>8 DEF SessionUp, cnts
  <2>4. disturbed' \in BOOLEAN
    BY <1>8, Zenon DEF SessionUp
  <2> QED
    BY <2>1, <2>2, <2>3, <2>4
<1>9. CASE Disconnect
  <2>1. disturbed' \in BOOLEAN
    BY <1>9, Zenon DEF Disconnect, Disturbing
  <2>2. gateway' \in [Types \X Codes -> Held] /\ up' \in BOOLEAN /\ unpush' = {}
    BY <1>9 DEF Disconnect, Nothing, Held
  <2>3. /\ req' \in [Threads -> States]
        /\ \A t \in Threads : (req'[t] = "idle") <=> (req[t] = "idle")
    BY <1>9 DEF Disconnect, States
  <2>4. UNCHANGED <<session, record, call, resub, todo, calls, faults, mute>>
    BY <1>9 DEF Disconnect, cnts
  <2> QED
    BY <2>1, <2>2, <2>3, <2>4 DEF States, Held
<1>10. ASSUME NEW u \in Users, Unpush(u)
       PROVE  TypeOK' /\ Tables'
  <2>1. u \in Threads /\ call[u] \in CallType
    BY <1>10, ThreadFacts DEF Unpush
  <2>2. unpush' \subseteq CallType
    BY <1>10, <2>1 DEF Unpush
  <2>3. disturbed' \in BOOLEAN
    BY <1>10, Zenon DEF Unpush
  <2>4. req' = [req EXCEPT ![u] = "idle"] /\ call' = [call EXCEPT ![u] = NoOne]
    BY <1>10 DEF Unpush
  <2>5. UNCHANGED <<up, session, record, gateway, resub, todo, calls, faults, mute>>
    BY <1>10 DEF Unpush, cnts
  <2> QED
    BY <2>1, <2>2, <2>3, <2>4, <2>5
<1>11. ASSUME NEW q \in unpush, ServeUnpush(q)
       PROVE  TypeOK' /\ Tables'
  <2>1. gateway' \in [Types \X Codes -> Held]
    <3>1. gateway \in [Types \X Codes -> Held]
      BY DEF Held
    <3>2. \A h \in Held : [h EXCEPT !.push = FALSE] \in Held
      BY DEF Held
    <3> QED
      BY <1>11, <3>1, <3>2 DEF ServeUnpush
  <2>2. disturbed' \in BOOLEAN
    BY <1>11, Zenon DEF ServeUnpush
  <2>3. unpush' \subseteq CallType
    BY <1>11 DEF ServeUnpush
  <2>4. UNCHANGED <<up, session, record, req, call, resub, todo, calls, faults, mute>>
    BY <1>11 DEF ServeUnpush, cnts
  <2> QED
    BY <2>1, <2>2, <2>3, <2>4 DEF Held
<1> QED
  BY <1>1, <1>2, <1>3, <1>4, <1>5, <1>6, <1>7, <1>8, <1>9, <1>10, <1>11 DEF Next

\* Every variable keeps its type; in particular no resubscription ever sends an
\* empty list of codes or of types (open_quote_context.py:1027-1093).
THEOREM SubscriptionsType == Spec => []TypeOK
<1>1. Init => TypeOK /\ Tables
  BY TypeInit
<1>2. TypeOK /\ Tables /\ [Next]_vars => TypeOK' /\ Tables'
  BY TypeStep
<1> QED
  BY <1>1, <1>2, PTL DEF Spec
\* What a resubscription asks for is in the record, at every moment, and each
\* of its requests once.
THEOREM PlanAlwaysCoversRecord == Spec => []PlanCoversRecord
<1>1. TypeOK => PlanCoversRecord
  BY PlanIsRecord DEF TypeOK
<1> QED
  BY <1>1, SubscriptionsType, PTL

-----------------------------------------------------------------------------
(***************************************************************************)
(* 5. The gateway and the record.                                          *)
(***************************************************************************)
\* The resubscription of a session that has not come has not begun; one that
\* has not taken its list asks for nothing. Second requests are those of
\* unsubscribe() and belong to a connection that stands.
Fresh ==
    /\ \A s \in Resubs :
          /\ s > session => resub[s] = "none"
          /\ resub[s] \in {"none", "due"} => req[s] = "idle" /\ todo[s] = {}
    /\ \A t \in Threads : req[t] = "unpush" => call[t].op = "unsub"
    /\ ~up => unpush = {}

\* A query that asks for what the record holds already.
Covered(q) ==
    /\ q.op = "sub" /\ q.push = TRUE
    /\ \A t \in q.types : q.codes \subseteq record[<<t, q.flavour>>]

\* A resubscription has still to have this obeyed.
Pending(t, c, f) ==
    \E s \in Resubs :
        \/ \E q \in todo[s] : Touches(q, t, c, f)
        \/ req[s] \in {"trying", "sent"} /\ Touches(call[s], t, c, f)

\* Either threads of the user or the resubscription of the present session are
\* at work, and no query has failed.
OneAtWork ==
    /\ \A t \in Threads : req[t] # "error"
    /\ \A s \in Resubs : Resubscribing(s) =>
          up /\ s = session /\ unpush = {} /\ \A u \in Users : req[u] = "idle"
    /\ \A u \in Users : req[u] # "idle" => up

\* No two of them are at work on the same type of a code.
About(q, t, c) == t \in q.types /\ c \in q.codes

Asks(u, t, c) == req[u] # "idle" /\ About(call[u], t, c)

Apart ==
    \A t \in Types, c \in Codes, u \in Users : Asks(u, t, c) =>
        /\ \A v \in Users : Asks(v, t, c) => v = u
        /\ \A q \in unpush : ~About(q, t, c)

\* The resubscriptions ask for nothing new.
AllCovered ==
    \A s \in Resubs :
        /\ \A q \in todo[s] : Covered(q)
        /\ req[s] # "idle" => Covered(call[s])
        /\ todo[s] # {} \/ req[s] # "idle" => mute = {}

\* Unsubscribed is out of the record before the gateway obeys.
Out(t, c, f) ==
    /\ c \notin record[<<t, f>>]
    /\ gateway[<<t, c>>].flavour = NoOne

AgreeUnsub(t, c, f) ==
    \A u \in Users : Asks(u, t, c) /\ call[u].op # "sub" =>
        /\ c \notin record[<<t, f>>]
        /\ req[u] \in {"ok", "unpush"} => Out(t, c, f)

\* A subscription is obeyed before it enters the record.
AgreeSub(t, c) ==
    \A u \in Users : Asks(u, t, c) /\ call[u].op = "sub" /\ req[u] = "ok" =>
        /\ gateway[<<t, c>>].flavour = call[u].flavour
        /\ gateway[<<t, c>>].push = call[u].push

\* Nothing about it has been obeyed or taken from the record yet.
Untouched(t, c) ==
    \A u \in Users : Asks(u, t, c) => call[u].op = "sub" /\ req[u] # "ok"

\* The rest differs by what is pending.
AgreeRest(t, c, f) ==
    Untouched(t, c) =>
        /\ gateway[<<t, c>>].flavour = f => c \in record[<<t, f>>]
        /\ c \in record[<<t, f>>] =>
              \/ /\ gateway[<<t, c>>].flavour = f
                 /\ gateway[<<t, c>>].push <=> <<t, c>> \notin mute
              \/ Pending(t, c, f)

\* A second request finds nothing left to take back.
AgreeUnpush(t, c, f) == \A q \in unpush : About(q, t, c) => Out(t, c, f)

Agree(t, c, f) ==
    /\ AgreeUnsub(t, c, f) /\ AgreeSub(t, c)
    /\ AgreeRest(t, c, f) /\ AgreeUnpush(t, c, f)

Agreement ==
    up /\ (\A s \in Resubs : resub[s] # "due") =>
        \A t \in Types, c \in Codes, f \in Flavours : Agree(t, c, f)

Calm == OneAtWork /\ Apart /\ AllCovered /\ Agreement

\* The inductive invariant of InSync.
SyncInv ==
    /\ TypeOK /\ Tables /\ Separate(record) /\ Fresh
    /\ ~disturbed => Calm

LEMMA PairsAbout ==
    \A q, t, c : <<t, c>> \in Pairs(q) <=> About(q, t, c)
BY DEF Pairs, About

LEMMA SyncInit == Init => SyncInv
<1> SUFFICES ASSUME Init PROVE SyncInv
  OBVIOUS
<1>1. Fresh /\ OneAtWork /\ AllCovered /\ Agreement
  BY ThreadFacts DEF Init, Fresh, OneAtWork, AllCovered, Agreement, Resubscribing
<1>2. Apart
  BY ThreadFacts DEF Init, Apart, Asks
<1> QED
  BY <1>1, <1>2, TypeInit, SeparateInit DEF SyncInv, Calm

LEMMA FreshStep ==
    ASSUME TypeOK, Tables, Fresh, [Next]_vars
    PROVE  Fresh'
<1> USE DEF TypeOK, Tables, Fresh
<1>1. CASE UNCHANGED vars
  BY <1>1 DEF vars, cnts
<1>2. ASSUME NEW u \in Users, NEW q \in Calls, Subscribe(u, q) \/ Unsubscribe(u, q)
      PROVE  Fresh'
  <2>1. NewCall(u, q) /\ Start(u, q)
    BY <1>2 DEF Subscribe, Unsubscribe, NewCall
  <2> QED
    BY <2>1, ThreadFacts DEF NewCall, Start
<1>3. ASSUME NEW t \in Threads, Send(t) \/ GiveUp(t) \/ Serve(t)
      PROVE  Fresh'
  <2>1. PICK x \in {"sent", "error", "ok"} : req' = [req EXCEPT ![t] = x]
    BY <1>3 DEF Send, GiveUp, Serve
  <2>2. req[t] # "idle" /\ UNCHANGED <<up, session, call, unpush, resub, todo>>
    BY <1>3 DEF Send, GiveUp, Serve
  <2>3. \A v \in Threads : req'[v] = "unpush" => req[v] = "unpush"
    BY <2>1
  <2>4. \A s \in Resubs : req[s] = "idle" => req'[s] = "idle"
    BY <2>1, <2>2, ThreadFacts
  <2> QED
    BY <2>2, <2>3, <2>4
<1>4. ASSUME NEW t \in Threads, Finish(t)
      PROVE  Fresh'
  <2>1. CASE req[t] = "ok" /\ call[t].op = "unsub"
    BY <1>4, <2>1, ThreadFacts DEF Finish
  <2>2. CASE ~(req[t] = "ok" /\ call[t].op = "unsub")
    BY <1>4, <2>2, ThreadFacts DEF Finish
  <2> QED
    BY <2>1, <2>2
<1>5. ASSUME NEW s \in Resubs, Snapshot(s)
      PROVE  Fresh'
  BY <1>5, ThreadFacts DEF Snapshot
<1>6. ASSUME NEW s \in Resubs, Resubscribe(s)
      PROVE  Fresh'
  BY <1>6, ThreadFacts DEF Resubscribe, Start
<1>7. CASE SessionUp
  <2>1. /\ session' = session + 1 /\ up' /\ resub' = [resub EXCEPT ![session + 1] = "due"]
        /\ UNCHANGED <<req, call, unpush, todo>>
    BY <1>7 DEF SessionUp
  <2>2. \A s \in Resubs : /\ s > session' => resub'[s] = "none"
                          /\ resub'[s] \in {"none", "due"} => req[s] = "idle" /\ todo[s] = {}
    BY <2>1, ThreadFacts
  <2> QED
    BY <2>1, <2>2
<1>8. CASE Disconnect
  BY <1>8, ThreadFacts DEF Disconnect
<1>9. ASSUME NEW u \in Users, Unpush(u)
      PROVE  Fresh'
  BY <1>9, ThreadFacts DEF Unpush
<1>10. ASSUME NEW q \in unpush, ServeUnpush(q)
       PROVE  Fresh'
  BY <1>10, ThreadFacts DEF ServeUnpush
<1> QED
  BY <1>1, <1>2, <1>3, <1>4, <1>5, <1>6, <1>7, <1>8, <1>9, <1>10 DEF Next

\* Sub changes nothing when the codes are already recorded in its flavour.
LEMMA SubOfCovered ==
    ASSUME NEW q \in CallType, TypeOK, Separate(record), Covered(q)
    PROVE  Sub(record, q) = record
<1>1. ASSUME NEW k \in Keys
      PROVE  Sub(record, q)[k] = record[k]
  <2>1. k[1] \in Types /\ k[2] \in Flavours /\ k = <<k[1], k[2]>>
    BY DEF Keys
  <2>2. q.flavour \in Flavours
    BY DEF CallType
  <2>3. CASE k[1] \notin q.types
    BY <2>3 DEF Sub
  <2>4. CASE k[1] \in q.types /\ k[2] = q.flavour
    <3>1. q.codes \subseteq record[k]
      BY <2>1, <2>4 DEF Covered
    <3>2. Sub(record, q)[k] = record[k] \union q.codes
      BY <2>4 DEF Sub
    <3> QED
      BY <3>1, <3>2
  <2>5. CASE k[1] \in q.types /\ k[2] # q.flavour
    <3>1. q.codes \subseteq record[<<k[1], q.flavour>>]
      BY <2>5 DEF Covered
    <3>2. record[k] \intersect record[<<k[1], q.flavour>>] = {}
      BY <2>1, <2>2, <2>5 DEF Separate
    <3>3. Sub(record, q)[k] = record[k] \ q.codes
      BY <2>5 DEF Sub
    <3> QED
      BY <3>1, <3>2, <3>3
  <2> QED
    BY <2>3, <2>4, <2>5
<1> QED
  BY <1>1 DEF Sub, TypeOK

\* A call that begins undisturbed finds nobody at work on what it is about.
LEMMA CalmCall ==
    ASSUME SyncInv, NEW u \in Users, NEW q \in Calls,
           Subscribe(u, q) \/ Unsubscribe(u, q), ~disturbed'
    PROVE  Calm'
<1> USE DEF SyncInv, TypeOK, Tables
<1>1. /\ ~disturbed /\ up /\ req[u] = "idle" /\ ~Contended(u, q)
      /\ \A s \in Resubs : ~Resubscribing(s)
      /\ UNCHANGED <<up, session, gateway, unpush, resub, todo, mute>>
      /\ req' = [req EXCEPT ![u] = "trying"] /\ call' = [call EXCEPT ![u] = q]
      /\ record' = IF q.op = "sub" THEN record ELSE Unsub(record, q)
  BY DEF Subscribe, Unsubscribe, NewCall, Start, Disturbing
<1>2. OneAtWork /\ Apart /\ AllCovered /\ Agreement
  BY <1>1 DEF Calm
<1>3. /\ u \in Threads /\ req'[u] = "trying" /\ call'[u] = q
      /\ \A t \in Threads : t # u => req'[t] = req[t] /\ call'[t] = call[t]
      /\ \A s \in Resubs : /\ resub[s] # "due" /\ todo[s] = {} /\ req[s] = "idle"
                           /\ resub'[s] # "due" /\ todo'[s] = {} /\ req'[s] = "idle"
  BY <1>1, ThreadFacts DEF Resubscribing
<1>4. OneAtWork'
  BY <1>1, <1>2, <1>3, ThreadFacts DEF OneAtWork, Resubscribing
<1>5. AllCovered'
  BY <1>3 DEF AllCovered
<1>6. ASSUME NEW t \in Types, NEW c \in Codes
      PROVE  /\ ~Asks(u, t, c) /\ (Asks(u, t, c)' <=> About(q, t, c))
             /\ \A v \in Users \ {u} : Asks(v, t, c)' <=> Asks(v, t, c)
             /\ \A v \in Users \ {u} : About(q, t, c) => ~Asks(v, t, c)
             /\ \A r \in unpush : About(q, t, c) => ~About(r, t, c)
  <2>1. \A v \in Users \ {u} : About(q, t, c) => ~Asks(v, t, c)
    BY <1>1, PairsAbout DEF Contended, Asks
  <2>2. \A r \in unpush : About(q, t, c) => ~About(r, t, c)
    BY <1>1, PairsAbout DEF Contended
  <2>3. ~Asks(u, t, c) /\ (Asks(u, t, c)' <=> About(q, t, c))
    BY <1>1, <1>3 DEF Asks, About
  <2>4. \A v \in Users \ {u} : Asks(v, t, c)' <=> Asks(v, t, c)
    BY <1>3, ThreadFacts DEF Asks, About
  <2> QED
    BY <2>1, <2>2, <2>3, <2>4, Zenon
<1>7. Apart'
  <2> SUFFICES ASSUME NEW t \in Types, NEW c \in Codes, NEW v \in Users, Asks(v, t, c)'
               PROVE  /\ \A w \in Users : Asks(w, t, c)' => w = v
                      /\ \A r \in unpush' : ~About(r, t, c)
    BY DEF Apart, About
  <2>1. CASE v = u
    BY <1>1, <1>6, <2>1
  <2>2. CASE v # u
    <3>1. Asks(v, t, c) /\ ~About(q, t, c) /\ ~Asks(u, t, c)'
      BY <1>6, <2>2
    <3> QED
      BY <1>1, <1>2, <1>6, <3>1 DEF Apart
  <2> QED
    BY <2>1, <2>2
<1>8. ASSUME NEW t \in Types, NEW c \in Codes, NEW f \in Flavours
      PROVE  Agree(t, c, f)'
  <2>1. Agree(t, c, f)
    BY <1>1, <1>2, <1>3 DEF Agreement
  <2>2. record'[<<t, f>>] = IF q.op # "sub" /\ t \in q.types
                            THEN record[<<t, f>>] \ q.codes ELSE record[<<t, f>>]
    <3>1. <<t, f>> \in Keys /\ <<t, f>>[1] = t
      BY KeyShape
    <3>2. Unsub(record, q)[<<t, f>>] = IF t \in q.types THEN record[<<t, f>>] \ q.codes
                                                        ELSE record[<<t, f>>]
      BY <3>1 DEF Unsub
    <3> QED
      BY <1>1, <3>2
  <2>3. /\ c \in record'[<<t, f>>] => c \in record[<<t, f>>]
        /\ About(q, t, c) /\ q.op # "sub" => c \notin record'[<<t, f>>]
        /\ ~(About(q, t, c) /\ q.op # "sub") =>
              (c \in record'[<<t, f>>] <=> c \in record[<<t, f>>])
    BY <2>2 DEF About
  <2>4. AgreeUnsub(t, c, f)'
    <3> SUFFICES ASSUME NEW v \in Users, Asks(v, t, c)', call'[v].op # "sub"
                 PROVE  /\ c \notin record'[<<t, f>>]
                        /\ req'[v] \in {"ok", "unpush"} => Out(t, c, f)'
      BY DEF AgreeUnsub
    <3>1. CASE v = u
      BY <1>3, <2>3, <3>1 DEF Asks, About
    <3>2. CASE v # u
      <4>1. /\ Asks(v, t, c) /\ call[v].op # "sub" /\ req'[v] = req[v]
        BY <1>3, <3>2, ThreadFacts DEF Asks, About
      <4> QED
        BY <1>1, <2>1, <2>3, <4>1 DEF Agree, AgreeUnsub, Out
    <3> QED
      BY <3>1, <3>2
  <2>5. AgreeSub(t, c)'
    <3> SUFFICES ASSUME NEW v \in Users, Asks(v, t, c)', call'[v].op = "sub", req'[v] = "ok"
                 PROVE  /\ gateway'[<<t, c>>].flavour = call'[v].flavour
                        /\ gateway'[<<t, c>>].push = call'[v].push
      BY DEF AgreeSub
    <3>1. v # u
      BY <1>3
    <3>2. Asks(v, t, c) /\ req'[v] = req[v] /\ call'[v] = call[v]
      BY <1>3, <3>1, ThreadFacts DEF Asks, About
    <3> QED
      BY <1>1, <2>1, <3>2 DEF Agree, AgreeSub
  <2>6. AgreeUnpush(t, c, f)'
    BY <1>1, <2>1, <2>3 DEF Agree, AgreeUnpush, Out, About
  <2>7. Untouched(t, c)' => Untouched(t, c) /\ ~(About(q, t, c) /\ q.op # "sub")
    <3> SUFFICES ASSUME Untouched(t, c)'
                 PROVE  Untouched(t, c) /\ ~(About(q, t, c) /\ q.op # "sub")
      OBVIOUS
    <3>1. \A v \in Users : Asks(v, t, c)' => call'[v].op = "sub" /\ req'[v] # "ok"
      BY DEF Untouched
    <3>2. ~(About(q, t, c) /\ q.op # "sub")
      BY <1>3, <1>6, <3>1
    <3>3. ASSUME NEW v \in Users, Asks(v, t, c)
          PROVE  call[v].op = "sub" /\ req[v] # "ok"
      <4>1. v # u
        BY <1>6, <3>3
      <4>2. req'[v] = req[v] /\ call'[v] = call[v]
        BY <1>3, <4>1, ThreadFacts
      <4>3. Asks(v, t, c)'
        BY <1>6, <3>3, <4>1
      <4> QED
        BY <3>1, <4>2, <4>3
    <3> QED
      BY <3>2, <3>3 DEF Untouched
  <2>8. ~Pending(t, c, f)
    BY <1>3 DEF Pending
  <2>9. AgreeRest(t, c, f)'
    BY <1>1, <2>1, <2>3, <2>7, <2>8 DEF Agree, AgreeRest
  <2> QED
    BY <2>4, <2>5, <2>6, <2>9 DEF Agree
<1> QED
  BY <1>4, <1>5, <1>7, <1>8 DEF Calm, Agreement

LEMMA CalmSend ==
    ASSUME SyncInv, NEW t \in Threads, Send(t) \/ GiveUp(t), ~disturbed'
    PROVE  Calm'
<1> USE DEF SyncInv, TypeOK, Tables
<1>1. /\ ~disturbed /\ OneAtWork /\ Apart /\ AllCovered /\ Agreement
      /\ UNCHANGED <<up, session, record, gateway, call, unpush, resub, todo, mute>>
  BY DEF Send, GiveUp, cnts, Calm
<1>2. up
  BY <1>1, ThreadFacts DEF OneAtWork, Resubscribing, Send, GiveUp
<1>3. /\ req[t] = "trying" /\ req' = [req EXCEPT ![t] = "sent"]
      /\ \A v \in Threads : /\ req'[v] = "idle" <=> req[v] = "idle"
                            /\ req'[v] = "ok" <=> req[v] = "ok"
                            /\ req'[v] = "unpush" <=> req[v] = "unpush"
                            /\ req'[v] \in {"trying", "sent"} <=> req[v] \in {"trying", "sent"}
  BY <1>2 DEF Send, GiveUp
<1>4. OneAtWork'
  BY <1>1, <1>3, ThreadFacts DEF OneAtWork, Resubscribing
<1>5. AllCovered'
  BY <1>1, <1>3, ThreadFacts DEF AllCovered, Covered
<1>6. \A v \in Users : \A u, c : Asks(v, u, c)' <=> Asks(v, u, c)
  BY <1>1, <1>3, ThreadFacts DEF Asks, About
<1>7. Apart'
  BY <1>1, <1>6 DEF Apart, About
<1>8. ASSUME NEW u \in Types, NEW c \in Codes, NEW f \in Flavours, Agree(u, c, f)
      PROVE  Agree(u, c, f)'
  <2>1. Pending(u, c, f)' <=> Pending(u, c, f)
    BY <1>1, <1>3, ThreadFacts DEF Pending, Touches
  <2>2. AgreeUnsub(u, c, f)' /\ AgreeSub(u, c)' /\ (Untouched(u, c)' => Untouched(u, c))
    BY <1>1, <1>3, <1>6, <1>8, ThreadFacts
       DEF Agree, AgreeUnsub, AgreeSub, Untouched, Out
  <2>3. AgreeRest(u, c, f)' /\ AgreeUnpush(u, c, f)'
    BY <1>1, <1>8, <2>1, <2>2 DEF Agree, AgreeRest, AgreeUnpush, Out, About
  <2> QED
    BY <2>2, <2>3 DEF Agree
<1> QED
  BY <1>1, <1>4, <1>5, <1>7, <1>8 DEF Calm, Agreement

\* Only the case where the request is obeyed and answered is undisturbed.
LEMMA CalmServe ==
    ASSUME SyncInv, NEW t \in Threads, Serve(t), ~disturbed'
    PROVE  Calm'
<1> USE DEF SyncInv, TypeOK, Tables
<1>1. /\ ~disturbed /\ OneAtWork /\ Apart /\ AllCovered /\ Agreement
      /\ req[t] = "sent" /\ req' = [req EXCEPT ![t] = "ok"] /\ gateway' = Obeyed(call[t])
      /\ UNCHANGED <<up, session, record, call, unpush, resub, todo, mute>>
  BY DEF Serve, Disturbing, Calm
<1>2. OneAtWork'
  BY <1>1, ThreadFacts DEF OneAtWork, Resubscribing
<1>3. AllCovered'
  BY <1>1, ThreadFacts DEF AllCovered, Covered
<1>4. /\ call[t] \in CallType /\ call[t].flavour \in Flavours
      /\ call[t].op \in {"sub", "unsub", "unsub_all"}
  BY <1>1 DEF CallType
<1>5. \A v \in Users : \A u, c : Asks(v, u, c)' <=> Asks(v, u, c)
  BY <1>1, ThreadFacts DEF Asks, About
<1>6. Apart'
  BY <1>1, <1>5 DEF Apart, About
<1>7. ASSUME NEW u \in Types, NEW c \in Codes, NEW f \in Flavours, Agree(u, c, f)
      PROVE  Agree(u, c, f)'
  <2> DEFINE p == <<u, c>>
  <2>1. /\ ~About(call[t], u, c) => gateway'[p] = gateway[p]
        /\ About(call[t], u, c) /\ call[t].op = "sub" =>
              gateway'[p].flavour = call[t].flavour /\ gateway'[p].push = call[t].push
        /\ About(call[t], u, c) /\ call[t].op # "sub" => gateway'[p].flavour = NoOne
    BY <1>1, PairsAbout DEF Obeyed, Nothing
  <2>2. CASE t \in Users /\ About(call[t], u, c)
    <3>1. Asks(t, u, c)
      BY <1>1, <2>2 DEF Asks
    <3>2. /\ \A v \in Users : Asks(v, u, c) => v = t
          /\ \A q \in unpush : ~About(q, u, c)
      BY <1>1, <2>2, <3>1 DEF Apart
    <3>3. AgreeUnsub(u, c, f)'
      BY <1>1, <1>5, <1>7, <2>1, <2>2, <3>1, <3>2 DEF Agree, AgreeUnsub, Out
    <3>4. AgreeSub(u, c)' /\ ~Untouched(u, c)'
      BY <1>1, <1>5, <2>1, <2>2, <3>1, <3>2, ThreadFacts DEF AgreeSub, Untouched
    <3>5. AgreeUnpush(u, c, f)' /\ AgreeRest(u, c, f)'
      BY <1>1, <3>2, <3>4 DEF AgreeUnpush, AgreeRest, About
    <3> QED
      BY <3>3, <3>4, <3>5 DEF Agree
  <2>3. CASE t \in Users /\ ~About(call[t], u, c)
    <3>1. ~Asks(t, u, c) /\ gateway'[p] = gateway[p]
      BY <2>1, <2>3 DEF Asks
    <3>2. \A v \in Users : Asks(v, u, c) => req'[v] = req[v]
      BY <1>1, <3>1, ThreadFacts
    <3>3. AgreeUnsub(u, c, f)' /\ AgreeSub(u, c)' /\ (Untouched(u, c)' => Untouched(u, c))
      BY <1>1, <1>5, <1>7, <3>1, <3>2 DEF Agree, AgreeUnsub, AgreeSub, Untouched, Out
    <3>4. Pending(u, c, f)' <=> Pending(u, c, f)
      BY <1>1, <2>3, ThreadFacts DEF Pending, Touches
    <3>5. AgreeRest(u, c, f)' /\ AgreeUnpush(u, c, f)'
      BY <1>1, <1>7, <3>1, <3>3, <3>4 DEF Agree, AgreeRest, AgreeUnpush, Out, About
    <3> QED
      BY <3>3, <3>5 DEF Agree
  <2>4. CASE t \notin Users
    <3>1. /\ t \in Resubs /\ unpush = {} /\ Covered(call[t]) /\ mute = {}
          /\ \A v \in Users : req[v] = "idle"
      BY <1>1, <2>4, ThreadFacts DEF OneAtWork, AllCovered, Resubscribing
    <3>2. \A v \in Users : ~Asks(v, u, c) /\ ~Asks(v, u, c)'
      BY <1>5, <3>1 DEF Asks
    <3>3. AgreeUnsub(u, c, f)' /\ AgreeSub(u, c)' /\ AgreeUnpush(u, c, f)' /\ Untouched(u, c)
      BY <1>1, <3>1, <3>2 DEF AgreeUnsub, AgreeSub, AgreeUnpush, Untouched
    <3>4. /\ gateway[p].flavour = f => c \in record[<<u, f>>]
          /\ c \in record[<<u, f>>] =>
                (gateway[p].flavour = f /\ gateway[p].push) \/ Pending(u, c, f)
      BY <1>7, <3>1, <3>3 DEF Agree, AgreeRest
    <3>5. /\ call[t].op = "sub" /\ call[t].push = TRUE
          /\ \A v \in call[t].types :
                call[t].codes \subseteq record[<<v, call[t].flavour>>]
      BY <3>1 DEF Covered
    <3>6. /\ gateway'[p].flavour = f => c \in record[<<u, f>>]
          /\ c \in record[<<u, f>>] =>
                (gateway'[p].flavour = f /\ gateway'[p].push) \/ Pending(u, c, f)'
      <4>1. CASE About(call[t], u, c)
        <5>1. /\ gateway'[p].flavour = call[t].flavour /\ gateway'[p].push
              /\ c \in record[<<u, call[t].flavour>>]
          BY <2>1, <3>5, <4>1 DEF About
        <5>2. c \in record[<<u, f>>] => f = call[t].flavour
          BY <1>4, <5>1 DEF Separate
        <5> QED
          BY <5>1, <5>2
      <4>2. CASE ~About(call[t], u, c)
        <5>1. Pending(u, c, f) => Pending(u, c, f)'
          <6> SUFFICES ASSUME NEW r \in Resubs,
                              \/ \E x \in todo[r] : Touches(x, u, c, f)
                              \/ req[r] \in {"trying", "sent"} /\ Touches(call[r], u, c, f)
                       PROVE  \/ \E x \in todo[r] : Touches(x, u, c, f)
                              \/ req'[r] \in {"trying", "sent"} /\ Touches(call[r], u, c, f)
            BY <1>1 DEF Pending, Touches
          <6>1. r # t \/ ~Touches(call[r], u, c, f)
            BY <4>2 DEF Touches, About
          <6> QED
            BY <1>1, <6>1, ThreadFacts
        <5> QED
          BY <2>1, <3>4, <4>2, <5>1
      <4> QED
        BY <4>1, <4>2
    <3>7. AgreeRest(u, c, f)'
      BY <1>1, <3>1, <3>6 DEF AgreeRest
    <3> QED
      BY <3>3, <3>7 DEF Agree
  <2> QED
    BY <2>2, <2>3, <2>4
<1> QED
  BY <1>1, <1>2, <1>3, <1>6, <1>7 DEF Calm, Agreement

\* The end of a call of the user, or the first of two requests.
LEMMA CalmFinishUser ==
    ASSUME SyncInv, NEW t \in Users, Finish(t), ~disturbed'
    PROVE  Calm'
<1>0. \A u \in Types, f \in Flavours :
         Sub(record, call[t])[<<u, f>>] =
            IF u \notin call[t].types THEN record[<<u, f>>]
            ELSE IF f = call[t].flavour THEN record[<<u, f>>] \union call[t].codes
                                        ELSE record[<<u, f>>] \ call[t].codes
  BY KeyShape DEF Sub
<1> USE DEF SyncInv, TypeOK, Tables
<1>1. /\ ~disturbed /\ OneAtWork /\ Apart /\ AllCovered /\ Agreement
      /\ req[t] = "ok" /\ t \in Threads /\ t \notin Resubs
      /\ UNCHANGED <<up, session, gateway, unpush, resub, todo>>
  <2>1. ~disturbed
    BY DEF Finish, Disturbing
  <2>2. req[t] = "ok" /\ t \in Threads /\ t \notin Resubs
    BY <2>1, ThreadFacts DEF Finish, OneAtWork, Calm
  <2> QED
    BY <2>1, <2>2 DEF Finish, Disturbing, Calm
<1>2. /\ call[t] \in CallType /\ call[t].flavour \in Flavours /\ call[t].push \in BOOLEAN
      /\ call[t].op \in {"sub", "unsub", "unsub_all"}
  BY <1>1 DEF CallType
<1>3. /\ \A v \in Threads : v # t => req'[v] = req[v] /\ call'[v] = call[v]
      /\ call[t].op = "unsub" => req'[t] = "unpush" /\ call' = call
      /\ call[t].op # "unsub" => req'[t] = "idle"
      /\ \A v \in Threads : req'[v] # "error"
      /\ \A v \in Threads : req'[v] # "idle" => req[v] # "idle" /\ call'[v] = call[v]
  <2>1. CASE call[t].op = "unsub"
    BY <1>1, <2>1 DEF Finish, OneAtWork
  <2>2. CASE call[t].op # "unsub"
    BY <1>1, <2>2 DEF Finish, OneAtWork
  <2> QED
    BY <2>1, <2>2
<1>4. /\ call[t].op = "sub" => /\ record' = Sub(record, call[t])
                               /\ mute' = IF call[t].push THEN mute \ Pairs(call[t])
                                          ELSE mute \union Pairs(call[t])
      /\ call[t].op # "sub" => record' = record /\ mute' = mute
  BY <1>1 DEF Finish
<1>5. /\ up
      /\ \A s \in Resubs : /\ req[s] = "idle" /\ todo[s] = {} /\ resub[s] # "due"
                           /\ req'[s] = "idle"
  BY <1>1, <1>3, ThreadFacts DEF OneAtWork, Resubscribing
<1>6. OneAtWork' /\ AllCovered'
  BY <1>1, <1>3, <1>5, ThreadFacts DEF OneAtWork, Resubscribing, AllCovered
<1>7. \A v \in Users : \A u, c : Asks(v, u, c)' => Asks(v, u, c)
  BY <1>3, ThreadFacts DEF Asks, About
<1>8. Apart'
  BY <1>1, <1>7 DEF Apart, About
<1>9. ASSUME NEW u \in Types, NEW c \in Codes, NEW f \in Flavours
      PROVE  Agree(u, c, f)'
  <2> DEFINE p == <<u, c>>
  <2>1. Agree(u, c, f) /\ ~Pending(u, c, f)
    BY <1>1, <1>5 DEF Agreement, Pending
  <2>2. CASE ~About(call[t], u, c)
    <3>1. (c \in record'[<<u, f>>] <=> c \in record[<<u, f>>]) /\ (p \in mute' <=> p \in mute)
      <4>1. p \notin Pairs(call[t])
        BY <2>2, PairsAbout
      <4>2. CASE call[t].op = "sub"
        <5>1. record'[<<u, f>>] = IF u \notin call[t].types THEN record[<<u, f>>]
                                  ELSE IF f = call[t].flavour
                                       THEN record[<<u, f>>] \union call[t].codes
                                       ELSE record[<<u, f>>] \ call[t].codes
          BY <1>4, <4>2, <1>0
        <5> QED
          BY <1>4, <2>2, <4>1, <4>2, <5>1 DEF About
      <4>3. CASE call[t].op # "sub"
        BY <1>4, <4>3
      <4> QED
        BY <4>2, <4>3
    <3>2. \A v \in Users : /\ Asks(v, u, c) => v # t
                           /\ Asks(v, u, c)' <=> Asks(v, u, c)
      BY <1>3, <1>7, <2>2, ThreadFacts DEF Asks, About
    <3>a. \A v \in Users : Asks(v, u, c)' => req'[v] = req[v] /\ call'[v] = call[v]
      BY <1>3, <3>2, ThreadFacts
    <3>3. AgreeUnsub(u, c, f)' /\ AgreeSub(u, c)'
      BY <1>1, <2>1, <3>1, <3>2, <3>a DEF Agree, AgreeUnsub, AgreeSub, Out
    <3>b. Untouched(u, c)' => Untouched(u, c)
      BY <3>2, <3>a DEF Untouched
    <3>4. AgreeRest(u, c, f)' /\ AgreeUnpush(u, c, f)'
      BY <1>1, <2>1, <3>1, <3>b DEF Agree, AgreeRest, AgreeUnpush, Out, About
    <3> QED
      BY <3>3, <3>4 DEF Agree
  <2>3. CASE About(call[t], u, c)
    <3>1. /\ Asks(t, u, c)
          /\ \A v \in Users : Asks(v, u, c) => v = t
          /\ \A q \in unpush : ~About(q, u, c)
      BY <1>1, <2>3 DEF Apart, Asks
    <3>2. AgreeUnpush(u, c, f)'
      BY <1>1, <3>1 DEF AgreeUnpush, About
    <3>3. CASE call[t].op = "sub"
      <4>1. record'[<<u, f>>] = IF f = call[t].flavour
                                THEN record[<<u, f>>] \union call[t].codes
                                ELSE record[<<u, f>>] \ call[t].codes
        BY <1>4, <2>3, <3>3, <1>0 DEF About
      <4>2. gateway[p].flavour = call[t].flavour /\ gateway[p].push = call[t].push
        BY <1>1, <2>1, <3>1, <3>3 DEF Agree, AgreeSub
      <4>3. p \in mute' <=> ~call[t].push
        BY <1>2, <1>4, <2>3, <3>3, PairsAbout
      <4>4. \A v \in Users : ~Asks(v, u, c)'
        BY <1>3, <1>7, <3>1, <3>3 DEF Asks
      <4>5. AgreeUnsub(u, c, f)' /\ AgreeSub(u, c)'
        BY <4>4 DEF AgreeUnsub, AgreeSub
      <4>6. AgreeRest(u, c, f)'
        BY <1>1, <1>2, <2>3, <4>1, <4>2, <4>3 DEF AgreeRest, About
      <4> QED
        BY <3>2, <4>5, <4>6 DEF Agree
    <3>4. CASE call[t].op # "sub"
      <4>1. Out(u, c, f) /\ record' = record /\ mute' = mute
        BY <1>1, <1>4, <2>1, <3>1, <3>4 DEF Agree, AgreeUnsub
      <4>2. Out(u, c, f)'
        BY <1>1, <4>1 DEF Out
      <4>3. AgreeUnsub(u, c, f)'
        BY <4>2 DEF AgreeUnsub, Out
      <4>4. AgreeSub(u, c)'
        BY <1>3, <1>7, <3>1, <3>4 DEF AgreeSub, Asks
      <4>5. AgreeRest(u, c, f)'
        BY <4>2, SubscriptionsAssumption DEF AgreeRest, Out
      <4> QED
        BY <3>2, <4>3, <4>4, <4>5 DEF Agree
    <3> QED
      BY <3>3, <3>4
  <2> QED
    BY <2>2, <2>3
<1> QED
  BY <1>1, <1>6, <1>8, <1>9 DEF Calm, Agreement

\* The end of a request of a resubscription: it was recorded already.
LEMMA CalmFinishResub ==
    ASSUME SyncInv, NEW t \in Resubs, Finish(t), ~disturbed'
    PROVE  Calm'
<1> USE DEF SyncInv, TypeOK, Tables
<1>1. /\ ~disturbed /\ OneAtWork /\ Apart /\ AllCovered /\ Agreement
      /\ req[t] = "ok" /\ t \in Threads /\ t \notin Users
      /\ UNCHANGED <<up, session, gateway, unpush, resub, todo>>
  <2>1. ~disturbed
    BY DEF Finish, Disturbing
  <2>2. req[t] = "ok" /\ t \in Threads /\ t \notin Users
    BY <2>1, ThreadFacts DEF Finish, OneAtWork, Calm
  <2> QED
    BY <2>1, <2>2 DEF Finish, Disturbing, Calm
<1>2. /\ call[t] \in CallType /\ Covered(call[t]) /\ mute = {} /\ unpush = {}
      /\ \A u \in Users : req[u] = "idle"
  BY <1>1 DEF AllCovered, OneAtWork, Resubscribing
<1>3. /\ req' = [req EXCEPT ![t] = "idle"] /\ call' = [call EXCEPT ![t] = NoOne]
      /\ record' = Sub(record, call[t]) /\ mute' = mute \ Pairs(call[t])
  BY <1>1, <1>2 DEF Finish, Covered
<1>4. record' = record /\ mute' = {}
  BY <1>2, <1>3, SubOfCovered
<1>5. OneAtWork'
  BY <1>1, <1>2, <1>3, ThreadFacts DEF OneAtWork, Resubscribing
<1>6. AllCovered'
  BY <1>1, <1>3, <1>4, ThreadFacts DEF AllCovered, Covered
<1>7. \A u \in Users : \A v, c : ~Asks(u, v, c) /\ ~Asks(u, v, c)'
  BY <1>1, <1>2, <1>3, ThreadFacts DEF Asks
<1>8. Apart'
  BY <1>7 DEF Apart
<1>9. ASSUME NEW u \in Types, NEW c \in Codes, NEW f \in Flavours, Agree(u, c, f)
      PROVE  Agree(u, c, f)'
  <2>1. Pending(u, c, f)' <=> Pending(u, c, f)
    BY <1>1, <1>3, ThreadFacts DEF Pending, Touches
  <2>2. AgreeUnsub(u, c, f)' /\ AgreeSub(u, c)' /\ Untouched(u, c)
    BY <1>7 DEF AgreeUnsub, AgreeSub, Untouched
  <2>3. AgreeRest(u, c, f)' /\ AgreeUnpush(u, c, f)'
    BY <1>1, <1>2, <1>4, <1>9, <2>1, <2>2 DEF Agree, AgreeRest, AgreeUnpush, Out, About
  <2> QED
    BY <2>2, <2>3 DEF Agree
<1> QED
  BY <1>1, <1>5, <1>6, <1>8, <1>9 DEF Calm, Agreement

\* unsubscribe() leaves its second request behind.
LEMMA CalmUnpush ==
    ASSUME SyncInv, NEW t \in Users, Unpush(t), ~disturbed'
    PROVE  Calm'
<1> USE DEF SyncInv, TypeOK, Tables
<1>1. /\ ~disturbed /\ OneAtWork /\ Apart /\ AllCovered /\ Agreement
      /\ req[t] = "unpush" /\ t \in Threads /\ t \notin Resubs
      /\ call[t].op = "unsub"
      /\ UNCHANGED <<up, session, record, gateway, resub, todo, mute>>
      /\ req' = [req EXCEPT ![t] = "idle"] /\ call' = [call EXCEPT ![t] = NoOne]
  BY ThreadFacts DEF Unpush, Calm, cnts, Fresh
<1>2. /\ up /\ unpush' = unpush \union {call[t]}
      /\ \A s \in Resubs : /\ req[s] = "idle" /\ todo[s] = {} /\ resub[s] # "due"
                           /\ req'[s] = "idle"
  BY <1>1, ThreadFacts DEF OneAtWork, Resubscribing, Unpush
<1>3. OneAtWork' /\ AllCovered'
  BY <1>1, <1>2, ThreadFacts DEF OneAtWork, Resubscribing, AllCovered
<1>4. \A v \in Users : \A u, c :
         /\ Asks(v, u, c)' <=> v # t /\ Asks(v, u, c)
         /\ v # t => req'[v] = req[v] /\ call'[v] = call[v]
  BY <1>1, ThreadFacts DEF Asks, About
<1>5. \A u, c : About(call[t], u, c) <=> Asks(t, u, c)
  BY <1>1 DEF Asks
<1>6. Apart'
  <2> SUFFICES ASSUME NEW u \in Types, NEW c \in Codes, NEW v \in Users, Asks(v, u, c)'
               PROVE  /\ \A w \in Users : Asks(w, u, c)' => w = v
                      /\ \A q \in unpush' : ~About(q, u, c)
    BY DEF Apart, About
  <2> QED
    BY <1>1, <1>2, <1>4, <1>5 DEF Apart
<1>7. ASSUME NEW u \in Types, NEW c \in Codes, NEW f \in Flavours
      PROVE  Agree(u, c, f)'
  <2>1. Agree(u, c, f)
    BY <1>1, <1>2 DEF Agreement
  <2>2. About(call[t], u, c) => Out(u, c, f)
    BY <1>1, <1>5, <2>1 DEF Agree, AgreeUnsub
  <2>3. AgreeUnsub(u, c, f)' /\ AgreeSub(u, c)'
    BY <1>1, <1>4, <2>1 DEF Agree, AgreeUnsub, AgreeSub, Out
  <2>4. AgreeUnpush(u, c, f)'
    BY <1>1, <1>2, <2>1, <2>2 DEF Agree, AgreeUnpush, Out, About
  <2>5. ~Pending(u, c, f)
    BY <1>2 DEF Pending
  <2>6. AgreeRest(u, c, f)'
    <3>1. CASE About(call[t], u, c)
      BY <1>1, <2>2, <3>1, SubscriptionsAssumption DEF AgreeRest, Out
    <3>2. CASE ~About(call[t], u, c)
      <4>1. Untouched(u, c)' => Untouched(u, c)
        BY <1>4, <1>5, <3>2 DEF Untouched
      <4> QED
        BY <1>1, <2>1, <2>5, <4>1 DEF Agree, AgreeRest
    <3> QED
      BY <3>1, <3>2
  <2> QED
    BY <2>3, <2>4, <2>6 DEF Agree
<1> QED
  BY <1>1, <1>3, <1>6, <1>7 DEF Calm, Agreement

\* The gateway serves it and finds nothing of it pushed, or refuses it.
LEMMA CalmServeUnpush ==
    ASSUME SyncInv, NEW q \in unpush, ServeUnpush(q), ~disturbed'
    PROVE  Calm'
<1> USE DEF SyncInv, TypeOK, Tables
<1>1. /\ ~disturbed /\ OneAtWork /\ Apart /\ AllCovered /\ Agreement
      /\ unpush' = unpush \ {q}
      /\ UNCHANGED <<up, session, record, req, call, resub, todo, mute>>
  BY DEF ServeUnpush, Calm, cnts
<1>2. ASSUME NEW u \in Types, NEW c \in Codes
      PROVE  /\ gateway'[<<u, c>>].flavour = gateway[<<u, c>>].flavour
             /\ ~About(q, u, c) => gateway'[<<u, c>>] = gateway[<<u, c>>]
  <2>1. gateway[<<u, c>>] \in Held
    BY DEF Held
  <2>2. [gateway[<<u, c>>] EXCEPT !.push = FALSE].flavour = gateway[<<u, c>>].flavour
    BY <2>1 DEF Held
  <2>3. CASE UNCHANGED gateway
    BY <2>3
  <2>4. CASE gateway' = [p \in Types \X Codes |->
                            IF p \in Pairs(q) THEN [gateway[p] EXCEPT !.push = FALSE]
                                              ELSE gateway[p]]
    BY <2>2, <2>4, PairsAbout
  <2> QED
    BY <2>3, <2>4 DEF ServeUnpush
<1>3. OneAtWork' /\ AllCovered'
  BY <1>1 DEF OneAtWork, Resubscribing, AllCovered, Covered
<1>4. \A v \in Users : \A u, c : Asks(v, u, c)' <=> Asks(v, u, c)
  BY <1>1 DEF Asks, About
<1>5. Apart'
  BY <1>1, <1>4 DEF Apart, About
<1>6. ASSUME NEW u \in Types, NEW c \in Codes, NEW f \in Flavours, Agree(u, c, f)
      PROVE  Agree(u, c, f)'
  <2>1. AgreeUnsub(u, c, f)' /\ (Untouched(u, c)' => Untouched(u, c))
    BY <1>1, <1>2, <1>4, <1>6 DEF Agree, AgreeUnsub, Untouched, Out
  <2>2. AgreeUnpush(u, c, f)'
    BY <1>1, <1>2, <1>6 DEF Agree, AgreeUnpush, Out, About
  <2>3. CASE About(q, u, c)
    <3>1. Out(u, c, f)'
      BY <1>1, <1>2, <1>6, <2>3 DEF Agree, AgreeUnpush, Out
    <3>2. \A v \in Users : ~Asks(v, u, c)'
      BY <1>1, <1>4, <2>3 DEF Apart
    <3>3. AgreeSub(u, c)' /\ AgreeRest(u, c, f)'
      BY <3>1, <3>2, SubscriptionsAssumption DEF AgreeSub, AgreeRest, Out
    <3> QED
      BY <2>1, <2>2, <3>3 DEF Agree
  <2>4. CASE ~About(q, u, c)
    <3>1. gateway'[<<u, c>>] = gateway[<<u, c>>]
      BY <1>2, <2>4
    <3>2. Pending(u, c, f)' <=> Pending(u, c, f)
      BY <1>1 DEF Pending, Touches
    <3>3. AgreeSub(u, c)' /\ AgreeRest(u, c, f)'
      BY <1>1, <1>4, <1>6, <2>1, <3>1, <3>2 DEF Agree, AgreeSub, AgreeRest
    <3> QED
      BY <2>1, <2>2, <3>3 DEF Agree
  <2> QED
    BY <2>3, <2>4
<1> QED
  BY <1>1, <1>3, <1>5, <1>6 DEF Calm, Agreement

\* A snapshot that finds nobody else at work sets everything right: nothing is
\* subscribed yet, and what the record holds is still to be asked for.
LEMMA CalmSnapshot ==
    ASSUME SyncInv, NEW s \in Resubs, Snapshot(s), ~disturbed'
    PROVE  Calm'
<1> USE DEF SyncInv, TypeOK, Tables
<1>1. PICK order \in Orders : todo' = [todo EXCEPT ![s] = Plan(record, order)]
  BY DEF Snapshot
<1>2. /\ resub[s] = "due" /\ resub' = [resub EXCEPT ![s] = "taken"]
      /\ up /\ session = s /\ gateway = [p \in Types \X Codes |-> Nothing]
      /\ \A t \in Threads : req[t] = "idle"
      /\ \A r \in Resubs : r # s => ~Resubscribing(r)
      /\ mute' = {} /\ unpush = {}
      /\ UNCHANGED <<up, session, record, gateway, req, call, unpush>>
  BY DEF Snapshot
<1>3. todo[s] = {} /\ \A r \in Resubs : r # s => todo[r] = {}
  BY <1>2 DEF Fresh, Resubscribing
<1>4. OneAtWork'
  BY <1>1, <1>2, <1>3, ThreadFacts DEF OneAtWork, Resubscribing
<1>5. AllCovered'
  <2>1. \A q \in Plan(record, order) : Covered(q)
    BY PlanWithinRecord DEF Covered
  <2> QED
    BY <1>1, <1>2, <1>3, <2>1, ThreadFacts DEF AllCovered, Covered
<1>6. \A u \in Users : \A t, c : ~Asks(u, t, c)'
  BY <1>2, ThreadFacts DEF Asks
<1>7. Apart'
  BY <1>6 DEF Apart
<1>8. ASSUME NEW u \in Types, NEW c \in Codes, NEW f \in Flavours
      PROVE  Agree(u, c, f)'
  <2>1. gateway'[<<u, c>>].flavour # f
    BY <1>2, SubscriptionsAssumption DEF Nothing
  <2>2. c \in record[<<u, f>>] => Pending(u, c, f)'
    <3>1. c \in record[<<u, f>>] => \E q \in Plan(record, order) : Touches(q, u, c, f)
      BY PlanCovers
    <3> QED
      BY <1>1, <3>1 DEF Pending, Touches
  <2>3. AgreeUnsub(u, c, f)' /\ AgreeSub(u, c)' /\ AgreeUnpush(u, c, f)'
    BY <1>2, <1>6 DEF AgreeUnsub, AgreeSub, AgreeUnpush
  <2>4. AgreeRest(u, c, f)'
    BY <1>2, <2>1, <2>2 DEF AgreeRest
  <2> QED
    BY <2>3, <2>4 DEF Agree
<1> QED
  BY <1>4, <1>5, <1>7, <1>8 DEF Calm, Agreement

LEMMA CalmResubscribe ==
    ASSUME SyncInv, NEW s \in Resubs, Resubscribe(s), ~disturbed'
    PROVE  Calm'
<1> USE DEF SyncInv, TypeOK, Tables
<1>1. PICK q \in todo[s] : /\ req' = [req EXCEPT ![s] = "trying"]
                           /\ call' = [call EXCEPT ![s] = q]
                           /\ todo' = [todo EXCEPT ![s] = @ \ {q}]
  BY DEF Resubscribe, Start
<1>2. /\ req[s] = "idle" /\ ~disturbed /\ OneAtWork /\ Apart /\ AllCovered /\ Agreement
      /\ UNCHANGED <<up, session, record, gateway, unpush, resub, mute>>
  BY DEF Resubscribe, cnts, Calm
<1>3. Resubscribing(s) /\ mute = {}
  BY <1>1, <1>2 DEF Resubscribing, AllCovered
<1>4. OneAtWork'
  BY <1>1, <1>2, <1>3, ThreadFacts DEF OneAtWork, Resubscribing
<1>5. AllCovered'
  BY <1>1, <1>2, <1>3, ThreadFacts DEF AllCovered, Covered
<1>6. \A u \in Users : \A v, c : ~Asks(u, v, c) /\ ~Asks(u, v, c)'
  BY <1>1, <1>2, <1>3, ThreadFacts DEF Asks, OneAtWork
<1>7. Apart'
  BY <1>6 DEF Apart
<1>8. ASSUME NEW u \in Types, NEW c \in Codes, NEW f \in Flavours, Agree(u, c, f)
      PROVE  Agree(u, c, f)'
  <2>1. Pending(u, c, f) => Pending(u, c, f)'
    <3> SUFFICES ASSUME NEW r \in Resubs,
                        \/ \E x \in todo[r] : Touches(x, u, c, f)
                        \/ req[r] \in {"trying", "sent"} /\ Touches(call[r], u, c, f)
                 PROVE  \/ \E x \in todo'[r] : Touches(x, u, c, f)
                        \/ req'[r] \in {"trying", "sent"} /\ Touches(call'[r], u, c, f)
      BY DEF Pending, Touches
    <3>1. CASE r # s
      BY <1>1, <3>1, ThreadFacts
    <3>2. CASE r = s
      <4>1. PICK x \in todo[s] : Touches(x, u, c, f)
        BY <1>2, <3>2
      <4>2. req'[s] = "trying" /\ call'[s] = q /\ todo'[s] = todo[s] \ {q}
        BY <1>1, ThreadFacts
      <4> QED
        BY <3>2, <4>1, <4>2
    <3> QED
      BY <3>1, <3>2
  <2>2. AgreeUnsub(u, c, f)' /\ AgreeSub(u, c)' /\ Untouched(u, c)
    BY <1>6 DEF AgreeUnsub, AgreeSub, Untouched
  <2>3. AgreeRest(u, c, f)' /\ AgreeUnpush(u, c, f)'
    BY <1>2, <1>8, <2>1, <2>2 DEF Agree, AgreeRest, AgreeUnpush, Out, About
  <2> QED
    BY <2>2, <2>3 DEF Agree
<1> QED
  BY <1>2, <1>4, <1>5, <1>7, <1>8 DEF Calm, Agreement

LEMMA CalmConnection ==
    ASSUME SyncInv, SessionUp \/ Disconnect, ~disturbed'
    PROVE  Calm'
<1> USE DEF SyncInv, TypeOK, Tables
<1>1. CASE SessionUp
  <2>1. /\ ~disturbed /\ ~up /\ up' /\ session' = session + 1 /\ session < MaxSession
        /\ resub' = [resub EXCEPT ![session + 1] = "due"]
        /\ OneAtWork /\ AllCovered /\ unpush = {}
        /\ \A u \in Users : req[u] = "idle" /\ req'[u] = "idle"
        /\ UNCHANGED <<record, gateway, req, call, unpush, todo, mute>>
    BY <1>1 DEF SessionUp, cnts, Calm, Fresh, OneAtWork
  <2>2. session + 1 \in Resubs
    BY <2>1, SubscriptionsAssumption DEF Resubs
  <2>3. OneAtWork'
    BY <2>1, <2>2, ThreadFacts DEF OneAtWork, Resubscribing
  <2>4. AllCovered' /\ Apart'
    BY <2>1 DEF AllCovered, Covered, Apart, Asks
  <2>5. Agreement'
    BY <2>1, <2>2 DEF Agreement
  <2> QED
    BY <2>3, <2>4, <2>5 DEF Calm
<1>2. CASE Disconnect
  <2>1. /\ ~disturbed /\ ~up' /\ OneAtWork /\ AllCovered
        /\ \A t \in Threads : req[t] = "idle"
        /\ \A s \in Resubs : ~Resubscribing(s)
        /\ req' = [t \in Threads |-> IF req[t] = "sent" THEN "error" ELSE req[t]]
        /\ UNCHANGED <<session, record, call, resub, todo, mute>>
    BY <1>2 DEF Disconnect, Disturbing, cnts, Calm
  <2>2. \A t \in Threads : req'[t] = "idle"
    BY <2>1
  <2>3. OneAtWork'
    BY <2>1, <2>2, ThreadFacts DEF OneAtWork, Resubscribing
  <2>4. AllCovered'
    BY <2>1, <2>2, ThreadFacts DEF AllCovered, Covered
  <2>5. Agreement' /\ Apart'
    BY <2>1, <2>2, ThreadFacts DEF Agreement, Apart, Asks
  <2> QED
    BY <2>3, <2>4, <2>5 DEF Calm
<1> QED
  BY <1>1, <1>2

LEMMA SyncStep ==
    ASSUME SyncInv, [Next]_vars
    PROVE  SyncInv'
<1>1. TypeOK' /\ Tables' /\ Fresh'
  BY TypeStep, FreshStep DEF SyncInv
<1>2. Separate(record)'
  BY SeparateStep DEF SyncInv, Separate, Keys, Types
<1>3. ASSUME ~disturbed' PROVE Calm'
  <2>1. CASE UNCHANGED vars
    <3>1. UNCHANGED <<up, session, record, gateway, req, call, unpush, resub, todo,
                      mute>>
      BY <2>1 DEF vars, cnts
    <3>0. Calm
      BY <1>3, <2>1 DEF vars, SyncInv
    <3>2. OneAtWork' /\ AllCovered'
      BY <3>0, <3>1 DEF Calm, OneAtWork, AllCovered, Covered, Resubscribing
    <3>4. Apart'
      BY <3>0, <3>1 DEF Calm, Apart, Asks, About
    <3>3. Agreement'
      <4>1. ASSUME NEW t \in Types, NEW c \in Codes, NEW f \in Flavours, Agree(t, c, f)
            PROVE  Agree(t, c, f)'
        <5>1. AgreeUnsub(t, c, f)' /\ AgreeSub(t, c)' /\ AgreeUnpush(t, c, f)'
          BY <3>1, <4>1 DEF Agree, AgreeUnsub, AgreeSub, AgreeUnpush, Out, Asks, About
        <5>2. AgreeRest(t, c, f)'
          BY <3>1, <4>1 DEF Agree, AgreeRest, Untouched, Asks, About, Pending, Touches
        <5> QED
          BY <5>1, <5>2 DEF Agree
      <4> QED
        BY <3>0, <3>1, <4>1 DEF Calm, Agreement
    <3> QED
      BY <3>2, <3>3, <3>4 DEF Calm
  <2>2. CASE Next
    <3>1. ASSUME NEW t \in Threads, Finish(t) PROVE Calm'
      BY <1>3, <3>1, CalmFinishUser, CalmFinishResub, ThreadFacts
    <3> QED
      BY <1>3, <2>2, <3>1, CalmCall, CalmSend, CalmServe, CalmUnpush, CalmServeUnpush,
         CalmSnapshot, CalmResubscribe, CalmConnection DEF Next
  <2> QED
    BY <2>1, <2>2
<1> QED
  BY <1>1, <1>2, <1>3 DEF SyncInv

\* While nothing is under way the gateway has subscribed what the record says
\* and pushes it unless asked not to, whatever the calls, the threads that make
\* them at a time about different stocks, and the reconnections. What is
\* excepted, since the last reconnection at rest: calls that overlap about the
\* same stocks, a call that overlaps a reconnection, and a query that fails.
THEOREM GatewayInSync == Spec => []InSync
<1>1. Init => SyncInv
  BY SyncInit
<1>2. SyncInv /\ [Next]_vars => SyncInv'
  BY SyncStep
<1>3. SyncInv => InSync
  <2> SUFFICES ASSUME SyncInv, Quiet, ~disturbed,
                      NEW t \in Types, NEW c \in Codes, NEW f \in Flavours
               PROVE  /\ gateway[<<t, c>>].flavour = f <=> c \in record[<<t, f>>]
                      /\ c \in record[<<t, f>>] =>
                            (gateway[<<t, c>>].push <=> <<t, c>> \notin mute)
    BY DEF InSync
  <2>1. /\ up /\ \A u \in Users : req[u] = "idle"
        /\ \A s \in Resubs : resub[s] # "due" /\ req[s] = "idle" /\ todo[s] = {}
    BY ThreadFacts DEF Quiet, Resubscribing
  <2>2. AgreeRest(t, c, f) /\ Untouched(t, c) /\ ~Pending(t, c, f)
    BY <2>1 DEF SyncInv, Calm, Agreement, Agree, Untouched, Asks, Pending
  <2> QED
    BY <2>2 DEF AgreeRest
<1> QED
  BY <1>1, <1>2, <1>3, PTL DEF Spec
=============================================================================
