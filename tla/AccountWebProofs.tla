-------------------------- MODULE AccountWebProofs --------------------------
(***************************************************************************)
(* The two parts of the account web application, for every value of their  *)
(* constants.                                                              *)
(*                                                                         *)
(* Realised profit: the books balance after every row, for any deals,      *)
(* prices and fees (BooksBalance). What a sum, a share and a fee are as    *)
(* fractions in lowest terms is worked out first: over a common            *)
(* denominator fractions add and subtract as their numerators, and a       *)
(* fraction has one form in lowest terms. The invariant PlInv is Balanced  *)
(* with the types that make that arithmetic apply.                         *)
(*                                                                         *)
(* Watch-list cache: for any number of synchronisations, readers and       *)
(* parts, what a synchronisation that ran alone has moved there is whole,  *)
(* in the cache and for every reader that opened it. The invariant         *)
(* CacheInv: a file that counts as whole, because it is the cache of such  *)
(* a synchronisation or what a reader has opened as such, is neither the   *)
(* temporary file nor written by anybody; and a synchronisation that is    *)
(* alone is the only one that writes, and has filled the temporary file    *)
(* from the start.                                                         *)
(***************************************************************************)
EXTENDS WatchlistCache, RealizedPl, FiniteSetTheorems, WellFoundedInduction, TLAPS

-----------------------------------------------------------------------------
(***************************************************************************)
(* Whole numbers.                                                          *)
(***************************************************************************)
\* A set of naturals has a least element.
LEMMA Least ==
    ASSUME NEW T \in SUBSET Nat, T # {}
    PROVE  \E x \in T : \A y \in T : x <= y
<1>1. PICK x \in T : \A y \in T : ~(<<y, x>> \in OpToRel(<, Nat))
  BY WFMin, NatLessThanWellFounded
<1>2. ASSUME NEW y \in T, y < x PROVE FALSE
  <2>1. <<y, x>> \in {ss \in Nat \X Nat : ss[1] < ss[2]}
    BY <1>2
  <2>2. <<y, x>> \in OpToRel(<, Nat)
    BY <2>1 DEF OpToRel
  <2> QED
    BY <1>1, <2>2
<1>3. \A y \in T : x <= y
  BY <1>2
<1> QED
  BY <1>3

\* A set of integers with a bound has a greatest element.
LEMMA Greatest ==
    ASSUME NEW T \in SUBSET Int, NEW b \in Int, T # {}, \A x \in T : x <= b
    PROVE  Sets!Max(T) \in T /\ \A y \in T : Sets!Max(T) >= y
<1> DEFINE D == {b - x : x \in T}
<1>1. D \in SUBSET Nat
  OBVIOUS
<1>2. D # {}
  OBVIOUS
<1>3. PICK d \in D : \A e \in D : d <= e
  BY <1>1, <1>2, Least
<1>4. PICK x \in T : d = b - x
  BY <1>3
<1>5. \A y \in T : x >= y
  BY <1>3, <1>4
<1> QED
  BY <1>5 DEF Sets!Max

Positive == Nat \ {0}

LEMMA DivMod ==
    ASSUME NEW n \in Int, NEW k \in Positive
    PROVE  /\ n \div k \in Int /\ n % k \in 0 .. k - 1
           /\ n = (k * (n \div k)) + (n % k)
BY DEF Positive

LEMMA ProductPositive ==
    ASSUME NEW m \in Positive, NEW n \in Positive
    PROVE  m * n \in Positive
BY DEF Positive

\* What k divides is a multiple of it.
LEMMA Multiple ==
    ASSUME NEW k \in Positive, NEW m \in Int
    PROVE  (k * m) % k = 0 /\ (k * m) \div k = m
<1> DEFINE q == (k * m) \div k  r == (k * m) % k
<1>0. k * m \in Int
  BY DEF Positive
<1>1. q \in Int /\ r \in 0 .. k - 1 /\ k * m = (k * q) + r
  BY <1>0, DivMod
<1> HIDE DEF q, r
<1>2. r = k * (m - q)
  BY <1>1 DEF Positive
<1>3. CASE m - q >= 1
  <2>1. k * (m - q) >= k
    BY <1>1, <1>3 DEF Positive
  <2> QED
    BY <1>1, <1>2, <2>1 DEF Positive
<1>4. CASE m - q <= -1
  <2>1. k * (m - q) <= -k
    BY <1>1, <1>4 DEF Positive
  <2> QED
    BY <1>1, <1>2, <2>1 DEF Positive
<1>5. CASE m - q = 0
  BY <1>1, <1>2, <1>5 DEF q, r, Positive
<1> QED
  BY <1>1, <1>3, <1>4, <1>5

LEMMA Cancel ==
    ASSUME NEW k \in Positive, NEW m \in Int, NEW n \in Int, k * m = k * n
    PROVE  m = n
<1>1. (k * m) \div k = m /\ (k * n) \div k = n
  BY Multiple
<1> QED
  BY <1>1

LEMMA FactorPositive ==
    ASSUME NEW k \in Positive, NEW m \in Int, k * m \in Positive
    PROVE  m \in Positive /\ k <= k * m
<1>1. ~(m <= 0)
  BY DEF Positive
<1>2. m \in Positive
  BY <1>1 DEF Positive
<1>3. k * m >= k * 1
  BY <1>2 DEF Positive
<1> QED
  BY <1>2, <1>3 DEF Positive

-----------------------------------------------------------------------------
(***************************************************************************)
(* Fractions in lowest terms.                                              *)
(***************************************************************************)
Lowest(p, q) == \A k \in Positive : p % k = 0 /\ q % k = 0 => k = 1

\* Fraction reduces n over d to lowest terms.
LEMMA FractionReduces ==
    ASSUME NEW n \in Int, NEW d \in Positive
    PROVE  \E g \in Positive, p \in Int, q \in Positive :
              n = g * p /\ d = g * q /\ Fraction(n, d) = <<p, q>> /\ Lowest(p, q)
<1> DEFINE K == {k \in 1 .. d : n % k = 0 /\ d % k = 0}
           g == Sets!Max(K)  p == n \div g  q == d \div g
<1>1. 1 \in K
  <2>1. (1 * n) % 1 = 0 /\ (1 * d) % 1 = 0
    BY Multiple DEF Positive
  <2> QED
    BY <2>1 DEF Positive
<1>2. g \in K /\ \A k \in K : g >= k
  <2>1. K \in SUBSET Int /\ d \in Int /\ \A k \in K : k <= d
    BY DEF Positive
  <2> HIDE DEF K
  <2> QED
    BY <1>1, <2>1, Greatest
<1>3. Fraction(n, d) = <<p, q>>
  BY DEF Fraction
<1>4. g \in Positive /\ n % g = 0 /\ d % g = 0
  BY <1>2 DEF Positive
<1>5. \A k \in Positive : n % k = 0 /\ d % k = 0 => k <= g
  <2>1. ASSUME NEW k \in Positive, n % k = 0, d % k = 0 PROVE k \in K
    <3>1. d \div k \in Int /\ d = k * (d \div k)
      BY <2>1, DivMod DEF Positive
    <3>2. k <= d
      BY <3>1, FactorPositive
    <3> QED
      BY <2>1, <3>2 DEF Positive
  <2> QED
    BY <1>2, <2>1
<1> HIDE DEF K, g
<1>6. p \in Int /\ n = g * p /\ q \in Int /\ d = g * q
  BY <1>4, DivMod DEF Positive
<1> HIDE DEF p, q
<1>7. q \in Positive
  BY <1>4, <1>6, FactorPositive
<1>8. ASSUME NEW k \in Positive, p % k = 0, q % k = 0 PROVE k = 1
  <2> DEFINE a == p \div k  b == q \div k
  <2>1. a \in Int /\ b \in Int /\ p = k * a /\ q = k * b
    <3>1. a \in Int /\ p = (k * a) + (p % k) /\ b \in Int /\ q = (k * b) + (q % k)
      BY <1>6, <1>7, <1>8, DivMod
    <3> HIDE DEF a, b
    <3> QED
      BY <1>8, <3>1 DEF Positive
  <2> HIDE DEF a, b
  <2>2. g * k \in Positive
    BY <1>4, ProductPositive
  <2>3. n = (g * k) * a /\ d = (g * k) * b
    BY <1>4, <1>6, <2>1 DEF Positive
  <2>4. g * k <= g
    <3>1. n % (g * k) = 0 /\ d % (g * k) = 0
      BY <2>1, <2>2, <2>3, Multiple
    <3> QED
      BY <1>5, <2>2, <3>1
  <2>5. g * k >= g
    BY <1>4 DEF Positive
  <2>6. g * k = g * 1
    BY <1>4, <2>4, <2>5 DEF Positive
  <2> QED
    BY <1>4, <2>6, Cancel DEF Positive
<1> QED
  BY <1>3, <1>4, <1>6, <1>7, <1>8 DEF Lowest

\* Of the fractions that are equal, one is in lowest terms.
LEMMA LowestIsUnique ==
    ASSUME NEW p \in Int, NEW q \in Positive, Lowest(p, q),
           NEW r \in Int, NEW s \in Positive, Lowest(r, s), p * s = r * q
    PROVE  p = r /\ q = s
<1> DEFINE T == {t \in Positive : \E w \in Int : w * q = p * t}
<1>1. q \in T /\ s \in T /\ T \in SUBSET Nat
  BY DEF Positive
<1>2. PICK m \in T : \A t \in T : m <= t
  BY <1>1, Least
<1>3. m \in Positive
  BY DEF Positive
<1>4. PICK u \in Int : u * q = p * m
  BY <1>2
<1>5. ASSUME NEW t \in Positive, NEW w \in Int, w * q = p * t, Lowest(w, t)
      PROVE  w = u /\ t = m
  <2> DEFINE a == t \div m  b == t % m
  <2>1. a \in Int /\ b \in 0 .. m - 1 /\ t = m * a + b
    BY <1>3, DivMod DEF Positive
  <2> HIDE DEF a, b
  <2>2. (w - u * a) * q = p * b
    <3>1. (w - u * a) * q = w * q - (u * q) * a
      BY <1>4, <1>5, <2>1 DEF Positive
    <3>2. (w - u * a) * q = p * t - (p * m) * a
      BY <1>4, <1>5, <3>1
    <3>3. p * t = (p * m) * a + p * b
      BY <1>3, <2>1 DEF Positive
    <3> QED
      BY <1>3, <2>1, <3>2, <3>3 DEF Positive
  <2>3. b = 0
    <3>1. SUFFICES ASSUME b # 0 PROVE FALSE
      OBVIOUS
    <3>2. b \in Positive /\ w - u * a \in Int
      BY <2>1, <3>1 DEF Positive
    <3>3. b \in T
      BY <2>2, <3>2
    <3> QED
      BY <1>2, <1>3, <2>1, <3>3 DEF Positive
  <2>4. t = m * a
    BY <1>3, <2>1, <2>3 DEF Positive
  <2>5. w = a * u
    <3>1. q * w = q * (a * u)
      BY <1>3, <2>1, <2>2, <2>3 DEF Positive
    <3> QED
      BY <2>1, <3>1, Cancel
  <2>6. a \in Positive
    BY <1>3, <2>1, <2>4, FactorPositive
  <2>7. w % a = 0 /\ t % a = 0
    BY <1>3, <2>4, <2>5, <2>6, Multiple DEF Positive
  <2>8. a = 1
    BY <1>5, <2>6, <2>7 DEF Lowest
  <2> QED
    BY <1>3, <2>4, <2>5, <2>8 DEF Positive
<1>6. p * q = p * q /\ r * q = p * s
  OBVIOUS
<1> QED
  BY <1>5, <1>6

\* What is equal is reduced to the same fraction.
LEMMA FractionEqual ==
    ASSUME NEW n \in Int, NEW d \in Positive, NEW k \in Int, NEW e \in Positive,
           n * e = k * d
    PROVE  Fraction(n, d) = Fraction(k, e)
<1>1. PICK g \in Positive, p \in Int, q \in Positive :
         n = g * p /\ d = g * q /\ Fraction(n, d) = <<p, q>> /\ Lowest(p, q)
  BY FractionReduces
<1>2. PICK h \in Positive, r \in Int, s \in Positive :
         k = h * r /\ e = h * s /\ Fraction(k, e) = <<r, s>> /\ Lowest(r, s)
  BY FractionReduces
<1>3. (g * h) * (p * s) = (g * h) * (r * q)
  BY <1>1, <1>2 DEF Positive
<1>4. p * s = r * q
  BY <1>3, Cancel, ProductPositive DEF Positive
<1> QED
  BY <1>1, <1>2, <1>4, LowestIsUnique

LEMMA FractionInjective ==
    ASSUME NEW n \in Int, NEW k \in Int, NEW d \in Positive,
           Fraction(n, d) = Fraction(k, d)
    PROVE  n = k
<1>1. PICK g \in Positive, p \in Int, q \in Positive :
         n = g * p /\ d = g * q /\ Fraction(n, d) = <<p, q>>
  BY FractionReduces
<1>2. PICK h \in Positive, r \in Int, s \in Positive :
         k = h * r /\ d = h * s /\ Fraction(k, d) = <<r, s>>
  BY FractionReduces
<1>3. p = r /\ q = s
  BY <1>1, <1>2
<1>4. q * g = q * h
  BY <1>1, <1>2, <1>3 DEF Positive
<1>5. g = h
  BY <1>4, Cancel DEF Positive
<1> QED
  BY <1>1, <1>2, <1>3, <1>5

Fractions == {Fraction(nd[1], nd[2]) : nd \in Int \X Positive}

LEMMA FractionIn ==
    ASSUME NEW n \in Int, NEW d \in Positive
    PROVE  Fraction(n, d) \in Fractions
<1>1. <<n, d>> \in Int \X Positive
  OBVIOUS
<1> QED
  BY <1>1 DEF Fractions

\* A fraction is what it is a fraction of, and over any number its denominator
\* divides.
LEMMA FractionParts ==
    ASSUME NEW a \in Fractions
    PROVE  /\ a[1] \in Int /\ a[2] \in Positive
           /\ \A k \in Positive : a = Fraction(a[1] * k, a[2] * k)
<1>1. PICK n \in Int, d \in Positive : a = Fraction(n, d)
  BY DEF Fractions
<1>2. PICK g \in Positive, p \in Int, q \in Positive :
         n = g * p /\ d = g * q /\ Fraction(n, d) = <<p, q>>
  BY FractionReduces
<1>3. a[1] = p /\ a[2] = q
  BY <1>1, <1>2
<1>4. ASSUME NEW k \in Positive PROVE a = Fraction(p * k, q * k)
  <2>1. n * (q * k) = (p * k) * d
    BY <1>2 DEF Positive
  <2>2. p * k \in Int /\ q * k \in Positive
    BY ProductPositive DEF Positive
  <2> QED
    BY <1>1, <2>1, <2>2, FractionEqual
<1> QED
  BY <1>3, <1>4

-----------------------------------------------------------------------------
(***************************************************************************)
(* Fractions over one denominator add and subtract as their numerators.    *)
(***************************************************************************)
LEMMA SameParts ==
    ASSUME NEW x \in Int, NEW d \in Positive, NEW a, a = Fraction(x, d)
    PROVE  a \in Fractions /\ a[1] \in Int /\ a[2] \in Positive /\ a[1] * d = x * a[2]
<1>1. PICK g \in Positive, p \in Int, q \in Positive :
         x = g * p /\ d = g * q /\ Fraction(x, d) = <<p, q>>
  BY FractionReduces
<1>2. a[1] = p /\ a[2] = q
  BY <1>1
<1>3. p * (g * q) = (g * p) * q
  BY <1>1 DEF Positive
<1> QED
  BY <1>1, <1>2, <1>3, FractionIn

LEMMA AddOver ==
    ASSUME NEW x \in Int, NEW y \in Int, NEW d \in Positive
    PROVE  /\ Fraction(x, d) (+) Fraction(y, d) = Fraction(x + y, d)
           /\ Fraction(x, d) (-) Fraction(y, d) = Fraction(x - y, d)
<1> DEFINE a == Fraction(x, d)  b == Fraction(y, d)
<1>1. /\ a[1] \in Int /\ a[2] \in Positive /\ a[1] * d = x * a[2]
      /\ b[1] \in Int /\ b[2] \in Positive /\ b[1] * d = y * b[2]
  BY SameParts
<1>2. a (+) b = Fraction(a[1] * b[2] + b[1] * a[2], a[2] * b[2])
      /\ a (-) b = Fraction(a[1] * b[2] - b[1] * a[2], a[2] * b[2])
  BY DEF (+), (-)
<1> HIDE DEF a, b
<1> DEFINE p == a[1]  q == a[2]  r == b[1]  s == b[2]
<1>3. /\ p \in Int /\ q \in Positive /\ p * d = x * q
      /\ r \in Int /\ s \in Positive /\ r * d = y * s
  BY <1>1
<1>4. a (+) b = Fraction(p * s + r * q, q * s) /\ a (-) b = Fraction(p * s - r * q, q * s)
  BY <1>2
<1> HIDE DEF p, q, r, s
<1>5. (p * s) * d = x * (q * s) /\ (r * q) * d = y * (q * s)
  <2>1. (p * s) * d = (p * d) * s /\ (r * q) * d = (r * d) * q
    BY <1>3 DEF Positive
  <2> QED
    BY <1>3, <2>1 DEF Positive
<1>6. p * s \in Int /\ r * q \in Int /\ q * s \in Positive
  BY <1>3, ProductPositive DEF Positive
<1> DEFINE t == q * s  u == p * s  v == r * q
<1>7. /\ t \in Positive /\ u \in Int /\ v \in Int /\ u * d = x * t /\ v * d = y * t
      /\ a (+) b = Fraction(u + v, t) /\ a (-) b = Fraction(u - v, t)
  BY <1>4, <1>5, <1>6
<1> HIDE DEF t, u, v
<1>8. (u + v) * d = (x + y) * t /\ (u - v) * d = (x - y) * t
  BY <1>7 DEF Positive
<1>9. Fraction(u + v, t) = Fraction(x + y, d) /\ Fraction(u - v, t) = Fraction(x - y, d)
  BY <1>7, <1>8, FractionEqual
<1> QED
  BY <1>7, <1>9 DEF a, b

Over(d) == {Fraction(x, d) : x \in Int}

\* Any three fractions have a common denominator.
LEMMA CommonDenominator ==
    ASSUME NEW a \in Fractions, NEW b \in Fractions, NEW c \in Fractions
    PROVE  \E d \in Positive : a \in Over(d) /\ b \in Over(d) /\ c \in Over(d)
<1> DEFINE d == a[2] * (b[2] * c[2])
<1>1. /\ a[1] \in Int /\ a[2] \in Positive /\ b[1] \in Int /\ b[2] \in Positive
      /\ c[1] \in Int /\ c[2] \in Positive
  BY FractionParts
<1>2. /\ b[2] * c[2] \in Positive /\ a[2] * c[2] \in Positive /\ a[2] * b[2] \in Positive
      /\ d \in Positive
  BY <1>1, ProductPositive
<1>3. d = a[2] * (b[2] * c[2]) /\ d = b[2] * (a[2] * c[2]) /\ d = c[2] * (a[2] * b[2])
  BY <1>1 DEF Positive
<1> HIDE DEF d
<1>4. /\ a = Fraction(a[1] * (b[2] * c[2]), d) /\ b = Fraction(b[1] * (a[2] * c[2]), d)
      /\ c = Fraction(c[1] * (a[2] * b[2]), d)
  <2>1. /\ \A k \in Positive : a = Fraction(a[1] * k, a[2] * k)
        /\ \A k \in Positive : b = Fraction(b[1] * k, b[2] * k)
        /\ \A k \in Positive : c = Fraction(c[1] * k, c[2] * k)
    BY FractionParts
  <2> QED
    BY <1>2, <1>3, <2>1
<1>5. /\ a[1] * (b[2] * c[2]) \in Int /\ b[1] * (a[2] * c[2]) \in Int
      /\ c[1] * (a[2] * b[2]) \in Int
  BY <1>1, <1>2 DEF Positive
<1> QED
  BY <1>2, <1>4, <1>5 DEF Over

LEMMA OverMultiple ==
    ASSUME NEW d \in Positive, NEW k \in Positive
    PROVE  d * k \in Positive /\ Over(d) \subseteq Over(d * k) /\ Over(d) \subseteq Over(k * d)
<1>1. d * k \in Positive /\ d * k = k * d
  BY ProductPositive DEF Positive
<1>2. ASSUME NEW x \in Int PROVE Fraction(x, d) = Fraction(x * k, d * k)
  <2>1. x * (d * k) = (x * k) * d /\ x * k \in Int
    BY DEF Positive
  <2> QED
    BY <1>1, <2>1, FractionEqual
<1>3. \A x \in Int : x * k \in Int
  BY DEF Positive
<1> QED
  BY <1>1, <1>2, <1>3 DEF Over

\* Any six do.
LEMMA CommonOfSix ==
    ASSUME NEW a \in Fractions, NEW b \in Fractions, NEW c \in Fractions,
           NEW e \in Fractions, NEW f \in Fractions, NEW g \in Fractions
    PROVE  \E d \in Positive : {a, b, c, e, f, g} \subseteq Over(d)
<1>1. PICK d \in Positive : a \in Over(d) /\ b \in Over(d) /\ c \in Over(d)
  BY CommonDenominator
<1>2. PICK k \in Positive : e \in Over(k) /\ f \in Over(k) /\ g \in Over(k)
  BY CommonDenominator
<1>3. d * k \in Positive /\ Over(d) \subseteq Over(d * k) /\ Over(k) \subseteq Over(d * k)
  BY OverMultiple
<1> QED
  BY <1>1, <1>2, <1>3

LEMMA WholeFraction ==
    ASSUME NEW n \in Int
    PROVE  Whole(n) = Fraction(n, 1) /\ Whole(n) \in Fractions
<1>0. 1 \in Positive
  BY DEF Positive
<1>1. PICK g \in Positive, p \in Int, q \in Positive :
         n = g * p /\ 1 = g * q /\ Fraction(n, 1) = <<p, q>>
  BY <1>0, FractionReduces
<1>2. g <= 1 /\ q <= 1
  BY <1>1, FactorPositive DEF Positive
<1>3. g = 1 /\ q = 1 /\ p = n
  BY <1>1, <1>2 DEF Positive
<1> QED
  BY <1>0, <1>1, <1>3, FractionIn DEF Whole

LEMMA WholeSum ==
    ASSUME NEW m \in Int, NEW n \in Int
    PROVE  Whole(m + n) = Whole(m) (+) Whole(n)
BY WholeFraction, AddOver DEF Positive

LEMMA OverClosed ==
    ASSUME NEW d \in Positive, NEW a \in Over(d), NEW b \in Over(d)
    PROVE  a (+) b \in Over(d) /\ a (-) b \in Over(d)
<1>1. PICK x \in Int, y \in Int : a = Fraction(x, d) /\ b = Fraction(y, d)
  BY DEF Over
<1> QED
  BY <1>1, AddOver DEF Over

LEMMA SumIn ==
    ASSUME NEW a \in Fractions, NEW b \in Fractions
    PROVE  a (+) b \in Fractions /\ a (-) b \in Fractions
<1>1. PICK d \in Positive : a \in Over(d) /\ b \in Over(d)
  BY CommonDenominator
<1>2. PICK x \in Int, y \in Int : a = Fraction(x, d) /\ b = Fraction(y, d)
  BY <1>1 DEF Over
<1> QED
  BY <1>2, AddOver, FractionIn

\* A multiple of a fraction, and a part of it.
LEMMA ShareIn ==
    ASSUME NEW a \in Fractions, NEW m \in Int, NEW n \in Positive
    PROVE  /\ (a (.) Whole(m)) (/) n \in Fractions
           /\ m = n => (a (.) Whole(m)) (/) n = a
<1> DEFINE b == a (.) Whole(m)
<1>1. a[1] \in Int /\ a[2] \in Positive /\ a[1] * m \in Int
      /\ \A k \in Positive : a = Fraction(a[1] * k, a[2] * k)
  BY FractionParts
<1>2. b = Fraction(a[1] * m, a[2])
  BY <1>1 DEF (.), Whole, Positive
<1>3. b[1] \in Int /\ b[2] \in Positive /\ b[1] * a[2] = (a[1] * m) * b[2]
  BY <1>1, <1>2, SameParts
<1> HIDE DEF b
<1>4. b (/) n = Fraction(b[1], b[2] * n) /\ b[2] * n \in Positive
  BY <1>3, ProductPositive DEF (/)
<1>5. ASSUME m = n PROVE b (/) n = a
  <2>1. b[1] * (a[2] * n) = (a[1] * n) * (b[2] * n)
    <3>1. b[1] * (a[2] * n) = (b[1] * a[2]) * n
      BY <1>1, <1>3 DEF Positive
    <3>2. ((a[1] * n) * b[2]) * n = (a[1] * n) * (b[2] * n)
      BY <1>1, <1>3 DEF Positive
    <3> QED
      BY <1>3, <1>5, <3>1, <3>2
  <2>2. a[2] * n \in Positive /\ a[1] * n \in Int
    BY <1>1, ProductPositive DEF Positive
  <2> QED
    BY <1>1, <1>3, <1>4, <2>1, <2>2, FractionEqual
<1> QED
  BY <1>3, <1>4, <1>5, FractionIn DEF b

-----------------------------------------------------------------------------
(***************************************************************************)
(* What Balanced needs of the arithmetic.                                  *)
(***************************************************************************)
\* Something is bought: what was paid, and what is held, grow by v.
LEMMA BuyBalance ==
    ASSUME NEW p \in Fractions, NEW c \in Fractions, NEW v \in Fractions
    PROVE  (p (+) v) (-) (c (+) v) = p (-) c
<1>1. PICK d \in Positive : p \in Over(d) /\ c \in Over(d) /\ v \in Over(d)
  BY CommonDenominator
<1>2. PICK x \in Int, y \in Int, z \in Int :
         p = Fraction(x, d) /\ c = Fraction(y, d) /\ v = Fraction(z, d)
  BY <1>1 DEF Over
<1>3. /\ p (+) v = Fraction(x + z, d) /\ c (+) v = Fraction(y + z, d)
      /\ p (-) c = Fraction(x - y, d)
  BY <1>2, AddOver
<1>4. Fraction(x + z, d) (-) Fraction(y + z, d) = Fraction((x + z) - (y + z), d)
  BY AddOver
<1>5. (x + z) - (y + z) = x - y
  OBVIOUS
<1> QED
  BY <1>3, <1>4, <1>5

LEMMA AddTurns ==
    ASSUME NEW p \in Fractions, NEW b \in Fractions, NEW v \in Fractions, NEW f \in Fractions
    PROVE  (p (+) v) (+) (b (+) f) = (p (+) b) (+) (v (+) f)
<1>1. PICK d \in Positive : {p, b, v, f, p, p} \subseteq Over(d)
  BY CommonOfSix
<1>2. PICK x \in Int, y \in Int, z \in Int, w \in Int :
         p = Fraction(x, d) /\ b = Fraction(y, d) /\ v = Fraction(z, d) /\ f = Fraction(w, d)
  BY <1>1 DEF Over
<1>3. /\ p (+) v = Fraction(x + z, d) /\ b (+) f = Fraction(y + w, d)
      /\ p (+) b = Fraction(x + y, d) /\ v (+) f = Fraction(z + w, d)
  BY <1>2, AddOver
<1>4. /\ Fraction(x + z, d) (+) Fraction(y + w, d) = Fraction((x + z) + (y + w), d)
      /\ Fraction(x + y, d) (+) Fraction(z + w, d) = Fraction((x + y) + (z + w), d)
  BY AddOver
<1>5. (x + z) + (y + w) = (x + y) + (z + w)
  OBVIOUS
<1> QED
  BY <1>3, <1>4, <1>5

\* Something is sold for v and o of what is held leaves: the profit g grows by the
\* difference.
LEMMA SellBalance ==
    ASSUME NEW r \in Fractions, NEW p \in Fractions, NEW c \in Fractions,
           NEW v \in Fractions, NEW o \in Fractions
    PROVE  (r (-) (p (-) c)) (+) (v (-) o) = (r (+) v) (-) (p (-) (c (-) o))
<1> DEFINE g == r (-) (p (-) c)
<1>0. g \in Fractions /\ g = r (-) (p (-) c)
  BY SumIn
<1> HIDE DEF g
<1>1. PICK d \in Positive : {g, r, p, c, v, o} \subseteq Over(d)
  BY <1>0, CommonOfSix
<1>2. PICK x1 \in Int, x2 \in Int, x3 \in Int, x4 \in Int, x5 \in Int, x6 \in Int :
         /\ g = Fraction(x1, d) /\ r = Fraction(x2, d) /\ p = Fraction(x3, d)
         /\ c = Fraction(x4, d) /\ v = Fraction(x5, d) /\ o = Fraction(x6, d)
  BY <1>1 DEF Over
<1>3. /\ p (-) c = Fraction(x3 - x4, d) /\ v (-) o = Fraction(x5 - x6, d)
      /\ r (+) v = Fraction(x2 + x5, d) /\ c (-) o = Fraction(x4 - x6, d)
  BY <1>2, AddOver
<1>4. /\ Fraction(x2, d) (-) Fraction(x3 - x4, d) = Fraction(x2 - (x3 - x4), d)
      /\ Fraction(x1, d) (+) Fraction(x5 - x6, d) = Fraction(x1 + (x5 - x6), d)
      /\ Fraction(x3, d) (-) Fraction(x4 - x6, d) = Fraction(x3 - (x4 - x6), d)
      /\ Fraction(x2 + x5, d) (-) Fraction(x3 - (x4 - x6), d)
            = Fraction((x2 + x5) - (x3 - (x4 - x6)), d)
  <2>1. x3 - x4 \in Int /\ x5 - x6 \in Int /\ x4 - x6 \in Int
        /\ x3 - (x4 - x6) \in Int /\ x2 + x5 \in Int
    OBVIOUS
  <2> QED
    BY <2>1, AddOver
<1>5. (r (+) v) (-) (p (-) (c (-) o)) = Fraction((x2 + x5) - (x3 - (x4 - x6)), d)
  BY <1>2, <1>3, <1>4
<1>6. x1 = x2 - (x3 - x4)
  <2>1. r (-) (p (-) c) = Fraction(x2 - (x3 - x4), d)
    BY <1>2, <1>3, <1>4, Zenon
  <2>2. Fraction(x1, d) = Fraction(x2 - (x3 - x4), d)
    BY <1>0, <1>2, <2>1, Zenon
  <2>3. x2 - (x3 - x4) \in Int
    OBVIOUS
  <2> QED
    BY <2>2, <2>3, FractionInjective
<1>7. x1 + (x5 - x6) = (x2 + x5) - (x3 - (x4 - x6))
  BY <1>6
<1> QED
  BY <1>0, <1>2, <1>3, <1>4, <1>5, <1>7

LEMMA FeeTurns ==
    ASSUME NEW r \in Fractions, NEW s \in Fractions, NEW v \in Fractions, NEW f \in Fractions
    PROVE  (r (-) s) (+) (v (-) f) = (r (+) v) (-) (s (+) f)
<1>1. PICK d \in Positive : {r, s, v, f, r, r} \subseteq Over(d)
  BY CommonOfSix
<1>2. PICK x \in Int, y \in Int, z \in Int, w \in Int :
         r = Fraction(x, d) /\ s = Fraction(y, d) /\ v = Fraction(z, d) /\ f = Fraction(w, d)
  BY <1>1 DEF Over
<1>3. /\ r (-) s = Fraction(x - y, d) /\ v (-) f = Fraction(z - w, d)
      /\ r (+) v = Fraction(x + z, d) /\ s (+) f = Fraction(y + w, d)
  BY <1>2, AddOver
<1>4. /\ Fraction(x - y, d) (+) Fraction(z - w, d) = Fraction((x - y) + (z - w), d)
      /\ Fraction(x + z, d) (-) Fraction(y + w, d) = Fraction((x + z) - (y + w), d)
  BY AddOver
<1>5. (x - y) + (z - w) = (x + z) - (y + w)
  OBVIOUS
<1> QED
  BY <1>3, <1>4, <1>5

\* The fee that is reported is the difference of the two profits.
LEMMA FeeBalance ==
    ASSUME NEW g \in Fractions, NEW f \in Fractions,
           NEW u \in Fractions, NEW v \in Fractions
    PROVE  (g (-) f) (+) v = (g (+) u) (-) (f (+) (u (-) v))
<1> DEFINE n == g (-) f
<1>0. n \in Fractions /\ n = g (-) f
  BY SumIn
<1> HIDE DEF n
<1>1. PICK d \in Positive : {g, f, n, u, v, v} \subseteq Over(d)
  BY <1>0, CommonOfSix
<1>2. PICK x \in Int, y \in Int, z \in Int, w \in Int, t \in Int :
         /\ g = Fraction(x, d) /\ f = Fraction(y, d) /\ n = Fraction(z, d)
         /\ u = Fraction(w, d) /\ v = Fraction(t, d)
  BY <1>1 DEF Over
<1>3. /\ g (-) f = Fraction(x - y, d) /\ n (+) v = Fraction(z + t, d)
      /\ g (+) u = Fraction(x + w, d) /\ u (-) v = Fraction(w - t, d)
  <2>1. /\ Fraction(x, d) (-) Fraction(y, d) = Fraction(x - y, d)
        /\ Fraction(z, d) (+) Fraction(t, d) = Fraction(z + t, d)
        /\ Fraction(x, d) (+) Fraction(w, d) = Fraction(x + w, d)
        /\ Fraction(w, d) (-) Fraction(t, d) = Fraction(w - t, d)
    BY AddOver
  <2> QED
    BY <1>2, <2>1, Zenon
<1>4. /\ Fraction(y, d) (+) Fraction(w - t, d) = Fraction(y + (w - t), d)
      /\ Fraction(x + w, d) (-) Fraction(y + (w - t), d)
            = Fraction((x + w) - (y + (w - t)), d)
  <2>1. w - t \in Int /\ y + (w - t) \in Int /\ x + w \in Int
    OBVIOUS
  <2> QED
    BY <2>1, AddOver
<1>5. (g (+) u) (-) (f (+) (u (-) v)) = Fraction((x + w) - (y + (w - t)), d)
  BY <1>2, <1>3, <1>4
<1>6. z = x - y
  <2>1. Fraction(z, d) = Fraction(x - y, d)
    BY <1>0, <1>2, <1>3, Zenon
  <2> QED
    BY <2>1, FractionInjective
<1>7. z + t = (x + w) - (y + (w - t))
  BY <1>6
<1> QED
  BY <1>0, <1>3, <1>5, <1>7

LEMMA NothingLeft ==
    ASSUME NEW a \in Fractions
    PROVE  a (-) a = Whole(0)
<1>1. PICK n \in Int, d \in Positive : a = Fraction(n, d)
  BY DEF Fractions
<1>2. a (-) a = Fraction(n - n, d)
  BY <1>1, AddOver
<1>3. 0 * 1 = 0 * d
  BY DEF Positive
<1>4. Fraction(0, d) = Fraction(0, 1)
  BY <1>3, FractionEqual DEF Positive
<1> QED
  BY <1>2, <1>4, WholeFraction

-----------------------------------------------------------------------------
(***************************************************************************)
(* A sum over a finite set is what its recursion says, and a whole number. *)
(* There is no induction to cite: of the sizes of the sets for which it    *)
(* fails the least one is refuted.                                         *)
(***************************************************************************)
Pick(s) == CHOOSE x \in s : TRUE

\* f sums v over the subsets of S that have n elements or fewer.
UpTo(S, n) == {s \in SUBSET S : Cardinality(s) <= n}

Sums(f, v, D) ==
    /\ f \in [D -> Int]
    /\ \A s \in D : f[s] = IF s = {} THEN 0 ELSE v[Pick(s)] + f[s \ {Pick(s)}]

LEMMA PickFacts ==
    ASSUME NEW S, IsFiniteSet(S), NEW s \in SUBSET S, s # {}
    PROVE  /\ Pick(s) \in S /\ s \ {Pick(s)} \in SUBSET S
           /\ Cardinality(s) \in Nat /\ Cardinality(s) > 0
           /\ Cardinality(s \ {Pick(s)}) = Cardinality(s) - 1
<1>1. Pick(s) \in s
  BY DEF Pick
<1>2. IsFiniteSet(s) /\ Cardinality(s) \in Nat
  BY FS_Subset, FS_CardinalityType
<1>3. Cardinality(s) # 0
  BY <1>2, FS_EmptySet
<1>4. Cardinality(s \ {Pick(s)}) = Cardinality(s) - 1
  BY <1>1, <1>2, FS_RemoveElement
<1> QED
  BY <1>1, <1>2, <1>3, <1>4

LEMMA SumsExist ==
    ASSUME NEW S, IsFiniteSet(S), NEW v \in [S -> Int], NEW n \in Nat
    PROVE  \E f : Sums(f, v, UpTo(S, n))
<1> DEFINE Bad == {m \in Nat : ~\E f : Sums(f, v, UpTo(S, m))}
<1>1. SUFFICES ASSUME Bad # {} PROVE FALSE
  OBVIOUS
<1>2. PICK m \in Bad : \A k \in Bad : m <= k
  BY <1>1, Least
<1>3. \A s \in SUBSET S : Cardinality(s) \in Nat
  BY FS_Subset, FS_CardinalityType
<1>4. CASE m = 0
  <2>1. ASSUME NEW s \in UpTo(S, 0), s # {} PROVE FALSE
    <3>1. s \in SUBSET S /\ Cardinality(s) <= 0
      BY DEF UpTo
    <3>2. Cardinality(s) > 0 /\ Cardinality(s) \in Nat
      BY <2>1, <3>1, PickFacts
    <3> QED
      BY <3>1, <3>2
  <2>2. Sums([s \in UpTo(S, 0) |-> 0], v, UpTo(S, 0))
    BY <2>1 DEF Sums
  <2> QED
    BY <1>4, <2>2
<1>5. CASE m # 0
  <2>1. m - 1 \in Nat /\ m - 1 \notin Bad
    BY <1>2, <1>5
  <2>2. PICK f : Sums(f, v, UpTo(S, m - 1))
    BY <2>1
  <2> DEFINE g == [s \in UpTo(S, m) |-> IF s = {} THEN 0 ELSE v[Pick(s)] + f[s \ {Pick(s)}]]
  <2>3. ASSUME NEW s \in UpTo(S, m), s # {}
        PROVE  s \ {Pick(s)} \in UpTo(S, m - 1) /\ s \ {Pick(s)} \in UpTo(S, m) /\ Pick(s) \in S
    BY <2>3, <1>2, PickFacts DEF UpTo
  <2>4. g \in [UpTo(S, m) -> Int]
    BY <2>2, <2>3 DEF Sums
  <2>5. \A s \in UpTo(S, m - 1) : s \in UpTo(S, m) /\ g[s] = f[s]
    BY <1>2, <1>3, <2>2 DEF Sums, UpTo
  <2>6. Sums(g, v, UpTo(S, m))
    BY <2>3, <2>4, <2>5 DEF Sums
  <2> QED
    BY <1>2, <2>6
<1> QED
  BY <1>4, <1>5

LEMMA SumIsWhole ==
    ASSUME NEW S, IsFiniteSet(S), NEW v \in [S -> Int], NEW h,
           h = [s \in SUBSET S |-> IF s = {} THEN 0 ELSE v[Pick(s)] + h[s \ {Pick(s)}]]
    PROVE  h[S] \in Int
<1> DEFINE Bad == {n \in Nat : \E s \in SUBSET S : Cardinality(s) = n /\ h[s] \notin Int}
<1>1. \A s \in SUBSET S : Cardinality(s) \in Nat
  BY FS_Subset, FS_CardinalityType
<1>2. ASSUME NEW s \in SUBSET S
      PROVE  h[s] = IF s = {} THEN 0 ELSE v[Pick(s)] + h[s \ {Pick(s)}]
  OBVIOUS
<1>3. Bad = {}
  <2>1. SUFFICES ASSUME Bad # {} PROVE FALSE
    OBVIOUS
  <2>2. PICK n \in Bad : \A k \in Bad : n <= k
    BY <2>1, Least
  <2>3. PICK s \in SUBSET S : Cardinality(s) = n /\ h[s] \notin Int
    BY <2>2
  <2>4. h[s] = IF s = {} THEN 0 ELSE v[Pick(s)] + h[s \ {Pick(s)}]
    BY <1>2
  <2> DEFINE t == s \ {Pick(s)}
  <2>5. CASE s = {}
    <3>1. h[s] = 0
      BY ONLY <2>4, <2>5
    <3> QED
      BY ONLY <2>3, <3>1
  <2>6. CASE s # {}
    <3>1. Pick(s) \in S /\ t \in SUBSET S /\ Cardinality(t) = n - 1 /\ n - 1 \in Nat
      <4>1. Pick(s) \in S /\ t \in SUBSET S /\ Cardinality(t) = Cardinality(s) - 1
            /\ Cardinality(s) \in Nat /\ Cardinality(s) > 0
        BY <2>6, PickFacts
      <4> QED
        BY <2>3, <4>1
    <3>2. h[s] = v[Pick(s)] + h[t]
      BY ONLY <2>4, <2>6 DEF t
    <3> HIDE DEF t
    <3>3. n - 1 \notin Bad
      <4>1. n \in Nat
        BY ONLY <2>2
      <4>2. n - 1 \in Bad => n <= n - 1
        BY <2>2
      <4> QED
        BY ONLY <4>1, <4>2
    <3>4. h[t] \in Int
      BY ONLY <3>1, <3>3
    <3>5. v[Pick(s)] \in Int
      BY <3>1
    <3> QED
      BY ONLY <2>3, <3>2, <3>4, <3>5
  <2> QED
    BY <2>5, <2>6
<1>4. S \in SUBSET S
  OBVIOUS
<1> QED
  BY <1>1, <1>3, <1>4

\* The sum that FeeAlloc forms, written out.
LEMMA TotalUnfold ==
    ASSUME NEW S
    PROVE  Sets!MapThenSumSet(LAMBDA i : Value(deals[i]), S)
              = (LET iter[s \in SUBSET S] ==
                        IF s = {} THEN 0
                        ELSE Value(deals[CHOOSE x \in s : TRUE])
                                + iter[s \ {CHOOSE x \in s : TRUE}]
                 IN iter[S])
BY DEF Sets!MapThenSumSet, Sets!MapThenFoldSet

LEMMA TotalInt ==
    ASSUME NEW S, IsFiniteSet(S), \A i \in S : Value(deals[i]) \in Int
    PROVE  Sets!MapThenSumSet(LAMBDA i : Value(deals[i]), S) \in Int
<1> DEFINE Eq(h) == h = [s \in SUBSET S |-> IF s = {} THEN 0
                                            ELSE Value(deals[CHOOSE x \in s : TRUE])
                                                    + h[s \ {CHOOSE x \in s : TRUE}]]
           v == [i \in S |-> Value(deals[i])]
           Same(h) == h = [s \in SUBSET S |-> IF s = {} THEN 0
                                              ELSE v[Pick(s)] + h[s \ {Pick(s)}]]
<1>1. v \in [S -> Int]
  OBVIOUS
<1>2. ASSUME NEW h PROVE Eq(h) <=> Same(h)
  <2>1. ASSUME NEW s \in SUBSET S, s # {}
        PROVE  v[Pick(s)] = Value(deals[CHOOSE x \in s : TRUE])
    BY <2>1 DEF Pick
  <2>2. [s \in SUBSET S |-> IF s = {} THEN 0
                            ELSE Value(deals[CHOOSE x \in s : TRUE])
                                    + h[s \ {CHOOSE x \in s : TRUE}]]
           = [s \in SUBSET S |-> IF s = {} THEN 0 ELSE v[Pick(s)] + h[s \ {Pick(s)}]]
    <3> HIDE DEF v
    <3> QED
      BY <2>1 DEF Pick
  <2> QED
    BY <2>2
<1>3. \E h : Same(h)
  <2> HIDE DEF v
  <2>1. Cardinality(S) \in Nat /\ UpTo(S, Cardinality(S)) = SUBSET S
    BY FS_Subset, FS_CardinalityType DEF UpTo
  <2>2. \E f : Sums(f, v, UpTo(S, Cardinality(S)))
    BY <1>1, <2>1, SumsExist
  <2>3. PICK f : Sums(f, v, SUBSET S)
    BY <2>1, <2>2
  <2>4. Same(f)
    BY <2>3 DEF Sums
  <2> QED
    BY <2>4
<1>4. \A h : Same(h) => h[S] \in Int
  <2> HIDE DEF v
  <2> QED
    BY <1>1, SumIsWhole
<1> HIDE DEF Same
<1>5. \A h : Eq(h) => h[S] \in Int
  BY <1>2, <1>4
<1>6. \E h : Eq(h)
  BY <1>2, <1>3
<1>7. (LET iter[s \in SUBSET S] ==
             IF s = {} THEN 0
             ELSE Value(deals[CHOOSE x \in s : TRUE]) + iter[s \ {CHOOSE x \in s : TRUE}]
       IN iter[S]) = (CHOOSE h : Eq(h))[S]
  OBVIOUS
<1> HIDE DEF Eq
<1>8. (CHOOSE h : Eq(h))[S] \in Int
  BY <1>5, <1>6
<1> QED
  BY <1>7, <1>8, TotalUnfold

-----------------------------------------------------------------------------
(***************************************************************************)
(* The types, with the fractions where they belong.                        *)
(***************************************************************************)
State == [qty : Nat, cost : Fractions]

PlTyped ==
    /\ side \in [Orders -> {"BUY", "SELL", "SELL_SHORT"}]
    /\ fees \in [Orders -> Fees]
    /\ deals \in UNION {[1 .. n -> Deal] : n \in 0 .. MaxDeals}
    /\ row \in Nat
    /\ gross \in State /\ net \in State
    /\ item \in [gross : Fractions, fee : Fractions, net : Fractions, closed : Int]
    /\ book \in [bought : Int, paid : Int, buyFee : Fractions, received : Int,
                 sellFee : Fractions]

PlInv == PlTyped /\ Balanced

LEMMA DealFacts ==
    ASSUME PlTyped, NEW i \in DOMAIN deals
    PROVE  /\ deals[i] \in Deal /\ deals[i].order \in Orders
           /\ deals[i].qty \in Int /\ deals[i].price \in Int /\ Value(deals[i]) \in Int
<1>1. PICK n \in 0 .. MaxDeals : deals \in [1 .. n -> Deal]
  BY DEF PlTyped
<1>2. deals[i] \in Deal
  BY <1>1
<1>3. deals[i].qty \in Int /\ deals[i].price \in Int /\ deals[i].order \in Orders
  BY <1>2, RealizedPlAssumption DEF Deal
<1> QED
  BY <1>2, <1>3 DEF Value

\* The fee of a deal is a fraction.
LEMMA FeeIn ==
    ASSUME PlTyped, NEW k \in DOMAIN deals
    PROVE  FeeAlloc(k) \in Fractions
<1> DEFINE S == {i \in DOMAIN deals : deals[i].order = deals[k].order}
           total == Sets!MapThenSumSet(LAMBDA i : Value(deals[i]), S)
           whole == fees[deals[k].order] * Value(deals[k])
<1>1. IsFiniteSet(S)
  <2>1. PICK n \in 0 .. MaxDeals : DOMAIN deals = 1 .. n
    BY DEF PlTyped
  <2>2. IsFiniteSet(1 .. n)
    BY FS_Interval
  <2> QED
    BY <2>1, <2>2, FS_Subset
<1>2. \A i \in S : Value(deals[i]) \in Int
  BY DealFacts
<1>3. total \in Int
  <2> HIDE DEF S
  <2> QED
    BY <1>1, <1>2, TotalInt
<1>4. whole \in Int
  <2>1. fees[deals[k].order] \in Int
    BY DealFacts, RealizedPlAssumption DEF PlTyped
  <2> QED
    BY <2>1, DealFacts
<1>5. FeeAlloc(k) = IF total <= 0 THEN Whole(0) ELSE Whole(whole) (/) total
  BY DEF FeeAlloc
<1> HIDE DEF total, whole
<1>6. CASE total <= 0
  BY <1>5, <1>6, WholeFraction
<1>7. CASE ~(total <= 0)
  <2>1. total \in Positive /\ 1 * total \in Positive
    BY <1>3, <1>7 DEF Positive
  <2>2. Whole(whole) (/) total = Fraction(whole, 1 * total)
    BY DEF (/), Whole
  <2> QED
    BY <1>4, <1>5, <1>7, <2>1, <2>2, FractionIn
<1> QED
  BY <1>6, <1>7

LEMMA PlInitially == PlInit => PlInv
<1> SUFFICES ASSUME PlInit PROVE PlInv
  OBVIOUS
<1>1. Whole(0) \in Fractions /\ Whole(0) (-) Whole(0) = Whole(0)
      /\ Whole(0) (+) Whole(0) = Whole(0)
  BY WholeFraction, WholeSum, NothingLeft
<1>2. PlTyped
  BY <1>1 DEF PlInit, PlTyped, State
<1>3. Balanced
  BY <1>1 DEF PlInit, Balanced
<1> QED
  BY <1>2, <1>3 DEF PlInv

-----------------------------------------------------------------------------
(***************************************************************************)
(* Rows.                                                                   *)
(***************************************************************************)
LEMMA NextRow ==
    ASSUME PlTyped, row < Len(deals)
    PROVE  row + 1 \in DOMAIN deals
BY DEF PlTyped

LEMMA BuyBalances ==
    ASSUME PlInv, row < Len(deals), Buy, row' = row + 1, UNCHANGED <<side, fees, deals>>
    PROVE  PlInv'
<1> DEFINE d == deals[row + 1]  fee == FeeAlloc(row + 1)  w == Whole(Value(d))
           p == Whole(book.paid)  q == p (+) book.buyFee
<1>1. row + 1 \in DOMAIN deals
  BY NextRow DEF PlInv
<1>2. d.qty \in Int /\ Value(d) \in Int /\ d.qty > 0
  BY <1>1, DealFacts DEF PlInv, Buy
<1>3. fee \in Fractions
  BY <1>1, FeeIn DEF PlInv
<1>4. /\ gross' = [qty |-> gross.qty + d.qty, cost |-> gross.cost (+) w]
      /\ net' = [qty |-> net.qty + d.qty, cost |-> net.cost (+) (w (+) fee)]
      /\ book' = [book EXCEPT !.bought = @ + d.qty, !.paid = @ + Value(d),
                              !.buyFee = @ (+) fee]
      /\ item' = item
  BY DEF Buy
<1> DEFINE v == Value(d)  n == d.qty
<1>5. w = Whole(v)
  OBVIOUS
<1> HIDE DEF d, fee, w, v, n
<1>6. /\ gross.cost \in Fractions /\ gross.qty \in Nat
      /\ net.cost \in Fractions /\ net.qty \in Nat
      /\ book.paid \in Int /\ book.buyFee \in Fractions /\ book.bought \in Int
  BY DEF PlInv, PlTyped, State
<1>7. w \in Fractions /\ p \in Fractions /\ Whole(book.paid + v) = p (+) w
  BY <1>2, <1>5, <1>6, WholeFraction, WholeSum DEF v
<1>8. q \in Fractions /\ w (+) fee \in Fractions
  BY <1>3, <1>6, <1>7, SumIn
<1>9. /\ book'.paid = book.paid + v /\ book'.buyFee = book.buyFee (+) fee
      /\ book'.bought = book.bought + n
      /\ book'.received = book.received /\ book'.sellFee = book.sellFee
  BY <1>4 DEF PlInv, PlTyped, v, n
<1>10. PlTyped'
  <2>1. gross' \in State /\ net' \in State
    BY <1>2, <1>4, <1>6, <1>7, <1>8, SumIn DEF State
  <2>2. book' \in [bought : Int, paid : Int, buyFee : Fractions, received : Int,
                   sellFee : Fractions]
    <3>1. book \in [bought : Int, paid : Int, buyFee : Fractions, received : Int,
                    sellFee : Fractions]
      BY DEF PlInv, PlTyped
    <3>2. /\ book.bought + d.qty \in Int /\ book.paid + Value(d) \in Int
          /\ book.buyFee (+) fee \in Fractions
      BY <1>2, <1>3, <1>6, SumIn
    <3> QED
      BY <1>4, <3>1, <3>2
  <2> QED
    BY <1>4, <2>1, <2>2 DEF PlInv, PlTyped
<1>11. p (-) gross.cost = Whole(book.paid + v) (-) gross'.cost
  BY <1>4, <1>6, <1>7, BuyBalance
<1>12. q (-) net.cost = (Whole(book.paid + v) (+) (book.buyFee (+) fee)) (-) net'.cost
  <2>1. Whole(book.paid + v) (+) (book.buyFee (+) fee) = q (+) (w (+) fee)
    BY <1>3, <1>6, <1>7, AddTurns
  <2>2. (q (+) (w (+) fee)) (-) (net.cost (+) (w (+) fee)) = q (-) net.cost
    BY <1>6, <1>8, BuyBalance
  <2> QED
    BY <1>4, <2>1, <2>2
<1>13. Balanced'
  <2>1. item'.gross = Whole(book'.received) (-) (Whole(book'.paid) (-) gross'.cost)
    BY <1>4, <1>9, <1>11 DEF PlInv, Balanced
  <2>2. item'.net = (Whole(book'.received) (-) book'.sellFee)
                        (-) ((Whole(book'.paid) (+) book'.buyFee) (-) net'.cost)
    BY <1>4, <1>9, <1>12 DEF PlInv, Balanced
  <2>3. item'.net = item'.gross (-) item'.fee
    BY <1>4 DEF PlInv, Balanced
  <2>4. /\ gross'.qty = net'.qty /\ item'.closed + gross'.qty = book'.bought
        /\ gross'.qty # 0
    BY <1>2, <1>4, <1>6, <1>9 DEF PlInv, PlTyped, Balanced, n
  <2> QED
    BY <2>1, <2>2, <2>3, <2>4 DEF Balanced
<1> QED
  BY <1>10, <1>13 DEF PlInv

\* What is sold is held, and all of it only when nothing is left.
LEMMA ClosingFacts ==
    ASSUME NEW n \in Int, NEW m \in Nat, n > 0, m > 0
    PROVE  /\ Smaller(n, Smaller(m, m)) \in Positive
           /\ m - Smaller(n, Smaller(m, m)) \in Nat
BY DEF Smaller, Positive

LEMMA SellBalances ==
    ASSUME PlInv, row < Len(deals), Sell, row' = row + 1, UNCHANGED <<side, fees, deals>>
    PROVE  PlInv'
<1> DEFINE d == deals[row + 1]
           closing == Smaller(d.qty, Smaller(gross.qty, net.qty))
           fee == (FeeAlloc(row + 1) (.) Whole(closing)) (/) d.qty
           outGross == OutAtCost(gross, closing, d.price)
           outNet == OutAtCost(net, closing, d.price)
           v == d.price * closing
           w == Whole(v)
           grossPl == w (-) outGross
           netPl == (w (-) fee) (-) outNet
           r == Whole(book.received)  p == Whole(book.paid)
<1>1. row + 1 \in DOMAIN deals
  BY NextRow DEF PlInv
<1>2. d.qty \in Int /\ d.price \in Int /\ d.qty > 0 /\ gross.qty > 0 /\ net.qty > 0
  BY <1>1, DealFacts DEF PlInv, Sell
<1>3. /\ gross.cost \in Fractions /\ gross.qty \in Nat
      /\ net.cost \in Fractions /\ net.qty \in Nat /\ gross.qty = net.qty
      /\ book.paid \in Int /\ book.buyFee \in Fractions /\ book.bought \in Int
      /\ book.received \in Int /\ book.sellFee \in Fractions
      /\ item.gross \in Fractions /\ item.fee \in Fractions /\ item.net \in Fractions
      /\ item.closed \in Int
  BY DEF PlInv, PlTyped, State, Balanced
<1>4. closing \in Positive /\ gross.qty - closing \in Nat /\ v \in Int
  <2>1. closing = Smaller(d.qty, Smaller(gross.qty, gross.qty))
    BY <1>3
  <2>2. closing \in Positive /\ gross.qty - closing \in Nat
    BY <1>2, <1>3, <2>1, ClosingFacts
  <2> QED
    BY <1>2, <2>2 DEF Positive
<1>5. /\ gross' = [qty |-> gross.qty - closing, cost |-> gross.cost (-) outGross]
      /\ net' = [qty |-> net.qty - closing, cost |-> net.cost (-) outNet]
      /\ item' = [gross |-> item.gross (+) grossPl, fee |-> item.fee (+) (grossPl (-) netPl),
                  net |-> item.net (+) netPl, closed |-> item.closed + closing]
      /\ book' = [book EXCEPT !.received = @ + v, !.sellFee = @ (+) fee]
  BY DEF Sell
<1>6. fee \in Fractions
  <2>1. FeeAlloc(row + 1) \in Fractions
    BY <1>1, FeeIn DEF PlInv
  <2>2. d.qty \in Positive /\ closing \in Int
    BY <1>2, <1>4 DEF Positive
  <2> HIDE DEF closing, d
  <2> QED
    BY <2>1, <2>2, ShareIn
<1>7. /\ outGross \in Fractions /\ outNet \in Fractions
      /\ closing = gross.qty => outGross = gross.cost /\ outNet = net.cost
  <2>1. gross.qty \in Positive /\ net.qty \in Positive /\ closing \in Int
    BY <1>2, <1>3, <1>4 DEF Positive
  <2> HIDE DEF closing, d
  <2> QED
    BY <1>3, <2>1, ShareIn DEF OutAtCost
<1>8. w = Whole(v)
  OBVIOUS
<1> HIDE DEF d, closing, fee, outGross, outNet, v, w
<1>9. w \in Fractions /\ r \in Fractions /\ p \in Fractions
      /\ Whole(book.received + v) = r (+) w
  BY <1>3, <1>4, <1>8, WholeFraction, WholeSum
<1>10. /\ grossPl \in Fractions /\ w (-) fee \in Fractions /\ netPl \in Fractions
       /\ r (-) book.sellFee \in Fractions /\ p (+) book.buyFee \in Fractions
       /\ grossPl (-) netPl \in Fractions
  BY <1>3, <1>6, <1>7, <1>9, SumIn
<1>11. /\ book'.received = book.received + v /\ book'.sellFee = book.sellFee (+) fee
       /\ book'.paid = book.paid /\ book'.buyFee = book.buyFee /\ book'.bought = book.bought
  BY <1>5 DEF PlInv, PlTyped
<1>12. PlTyped'
  <2>1. gross' \in State /\ net' \in State
    BY <1>3, <1>4, <1>5, <1>7, SumIn DEF State
  <2>2. item' \in [gross : Fractions, fee : Fractions, net : Fractions, closed : Int]
    <3>1. /\ item.gross (+) grossPl \in Fractions /\ item.net (+) netPl \in Fractions
          /\ item.fee (+) (grossPl (-) netPl) \in Fractions /\ item.closed + closing \in Int
      BY <1>3, <1>4, <1>10, SumIn DEF Positive
    <3> QED
      BY <1>5, <3>1
  <2>3. book' \in [bought : Int, paid : Int, buyFee : Fractions, received : Int,
                   sellFee : Fractions]
    <3>1. book \in [bought : Int, paid : Int, buyFee : Fractions, received : Int,
                    sellFee : Fractions]
      BY DEF PlInv, PlTyped
    <3>2. book.received + v \in Int /\ book.sellFee (+) fee \in Fractions
      BY <1>3, <1>4, <1>6, SumIn
    <3> QED
      BY <1>5, <3>1, <3>2
  <2> QED
    BY <2>1, <2>2, <2>3 DEF PlInv, PlTyped
<1>13. item'.gross = Whole(book'.received) (-) (Whole(book'.paid) (-) gross'.cost)
  <2>1. item.gross = r (-) (p (-) gross.cost)
    BY DEF PlInv, Balanced
  <2>2. item.gross (+) grossPl = (r (+) w) (-) (p (-) (gross.cost (-) outGross))
    <3>1. (r (-) (p (-) gross.cost)) (+) (w (-) outGross)
              = (r (+) w) (-) (p (-) (gross.cost (-) outGross))
      <4>1. /\ r \in Fractions /\ p \in Fractions /\ gross.cost \in Fractions
            /\ w \in Fractions /\ outGross \in Fractions
        BY <1>3, <1>7, <1>9
      <4> QED
        BY ONLY <4>1, SellBalance
    <3> QED
      BY <2>1, <3>1, Zenon
  <2> QED
    BY <1>5, <1>9, <1>11, <2>2
<1>14. item'.net = (Whole(book'.received) (-) book'.sellFee)
                      (-) ((Whole(book'.paid) (+) book'.buyFee) (-) net'.cost)
  <2>1. item.net = (r (-) book.sellFee) (-) ((p (+) book.buyFee) (-) net.cost)
    BY DEF PlInv, Balanced
  <2>2. item.net (+) netPl = ((r (-) book.sellFee) (+) (w (-) fee))
                                (-) ((p (+) book.buyFee) (-) (net.cost (-) outNet))
    <3>1. ((r (-) book.sellFee) (-) ((p (+) book.buyFee) (-) net.cost))
                (+) ((w (-) fee) (-) outNet)
              = ((r (-) book.sellFee) (+) (w (-) fee))
                    (-) ((p (+) book.buyFee) (-) (net.cost (-) outNet))
      <4>1. /\ r (-) book.sellFee \in Fractions /\ p (+) book.buyFee \in Fractions
            /\ net.cost \in Fractions /\ w (-) fee \in Fractions /\ outNet \in Fractions
        BY <1>3, <1>7, <1>10
      <4> QED
        BY ONLY <4>1, SellBalance
    <3> QED
      BY <2>1, <3>1, Zenon
  <2>3. (r (-) book.sellFee) (+) (w (-) fee) = (r (+) w) (-) (book.sellFee (+) fee)
    BY <1>3, <1>6, <1>9, FeeTurns
  <2> QED
    BY <1>5, <1>9, <1>11, <2>2, <2>3
<1>15. item'.net = item'.gross (-) item'.fee
  <2>1. item.net = item.gross (-) item.fee
    BY DEF PlInv, Balanced
  <2>2. item.net (+) netPl = (item.gross (+) grossPl) (-) (item.fee (+) (grossPl (-) netPl))
    <3>1. (item.gross (-) item.fee) (+) netPl
              = (item.gross (+) grossPl) (-) (item.fee (+) (grossPl (-) netPl))
      <4>1. /\ item.gross \in Fractions /\ item.fee \in Fractions
            /\ grossPl \in Fractions /\ netPl \in Fractions
        BY <1>3, <1>10
      <4> QED
        BY ONLY <4>1, FeeBalance
    <3> QED
      BY <2>1, <3>1, Zenon
  <2> QED
    BY <1>5, <2>2
<1>16. gross'.qty = net'.qty /\ item'.closed + gross'.qty = book'.bought
  BY <1>3, <1>4, <1>5, <1>11 DEF PlInv, Balanced, Positive
<1>17. gross'.qty = 0 => gross'.cost = Whole(0) /\ net'.cost = Whole(0)
  BY <1>3, <1>4, <1>5, <1>7, NothingLeft DEF Positive
<1> QED
  BY <1>12, <1>13, <1>14, <1>15, <1>16, <1>17 DEF PlInv, Balanced

\* For any deals, fees and prices, and however many rows have been gone through.
THEOREM BooksBalance == PlSpec => []Balanced
<1>1. PlInv /\ [PlNext]_plVars => PlInv'
  <2> SUFFICES ASSUME PlInv, [PlNext]_plVars PROVE PlInv'
    OBVIOUS
  <2>1. CASE PlNext /\ Buy
    BY <2>1, BuyBalances DEF PlNext
  <2>2. CASE PlNext /\ Sell
    BY <2>2, SellBalances DEF PlNext
  <2>3. CASE PlNext /\ Skip
    <3>1. UNCHANGED <<gross, net, item, book>>
      BY <2>3 DEF Skip
    <3> QED
      <4>1. row' = row + 1 /\ UNCHANGED <<side, fees, deals>>
        BY <2>3 DEF PlNext
      <4>2. PlTyped'
        BY <3>1, <4>1 DEF PlInv, PlTyped
      <4>3. Balanced'
        BY <3>1 DEF PlInv, Balanced
      <4> QED
        BY <4>2, <4>3 DEF PlInv
  <2>4. CASE UNCHANGED plVars
    BY <2>4 DEF plVars, PlInv, PlTyped, Balanced
  <2> QED
    BY <2>1, <2>2, <2>3, <2>4 DEF PlNext
<1>2. PlInv => Balanced
  BY DEF PlInv
<1> QED
  BY <1>1, <1>2, PlInitially, PTL DEF PlSpec

-----------------------------------------------------------------------------
(***************************************************************************)
(* The watch-list cache: files and who writes them.                        *)
(***************************************************************************)
\* The parts a synchronisation has written, if nobody else wrote.
Prefix(s, n) == [i \in 1 .. n |-> [sync |-> s, part |-> i]]

Begun == {s \in Syncs : stage[s].at # "idle"}

\* Nobody changes file f any more, and it is the payload of s.
SettledIn(f, s) ==
    /\ f \in 1 .. files /\ f # tmpFile
    /\ \A t \in Writing : handle[t] # f
    /\ content[f] = Payload(s)

\* The same after a step, for a file and a payload fixed before it.
SettledInNext(f, s) ==
    /\ f \in 1 .. files' /\ f # tmpFile'
    /\ \A t \in Writing' : handle'[t] # f
    /\ content'[f] = Payload(s)

FilesCounted == files <= Cardinality(Begun)

Opened == \A s \in Writing : handle[s] \in 1 .. files

AloneFills ==
    \A s \in alone :
        /\ s \in Begun
        /\ s \in Writing =>
              /\ Writing = {s} /\ handle[s] = tmpFile
              /\ content[tmpFile] = Prefix(s, stage[s].part)

CacheSettled == sound # NoSync => SettledIn(cacheFile, sound)

ReadersSettled ==
    \A r \in Readers : reader[r] = "open" =>
        /\ source[r] \in 1 .. files
        /\ expected[r] # NoSync => SettledIn(source[r], expected[r])

CacheInv ==
    /\ CacheTypeOK /\ FilesCounted /\ Opened
    /\ AloneFills /\ CacheSettled /\ ReadersSettled /\ ReaderWhole

USE WatchlistCacheAssumption DEF NoFile, Hole

-----------------------------------------------------------------------------
(***************************************************************************)
(* Parts and files.                                                        *)
(***************************************************************************)

LEMMA PrefixLen ==
    ASSUME NEW s \in Syncs, NEW n \in 0 .. Parts
    PROVE  Prefix(s, n) \in Seq(PartType) /\ Len(Prefix(s, n)) = n
<1>1. \A i \in 1 .. n : [sync |-> s, part |-> i] \in PartType
  BY DEF PartType
<1> QED
  BY <1>1 DEF Prefix

\* There is a file left for a synchronisation that has not begun.
LEMMA FileLeft ==
    ASSUME CacheTypeOK, FilesCounted, NEW s \in Syncs, s \notin Begun
    PROVE  /\ files + 1 \in Files
           /\ Cardinality(Begun \union {s}) = Cardinality(Begun) + 1
<1>1. Begun \subseteq Syncs /\ IsFiniteSet(Begun) /\ Cardinality(Begun) \in Nat
  <2>1. Begun \subseteq Syncs
    BY DEF Begun
  <2>2. IsFiniteSet(Begun)
    BY <2>1, FS_Subset
  <2> QED
    BY <2>1, <2>2, FS_CardinalityType
<1>2. Cardinality(Begun \union {s}) = Cardinality(Begun) + 1
  BY <1>1, FS_AddElement
<1>3. /\ Begun \union {s} \subseteq Syncs
      /\ Cardinality(Begun \union {s}) <= Cardinality(Syncs)
      /\ Cardinality(Syncs) \in Nat
  BY <1>1, FS_Subset, FS_CardinalityType
<1>4. files \in Nat
  BY <1>3 DEF CacheTypeOK, Files
<1> QED
  BY <1>1, <1>2, <1>3, <1>4 DEF FilesCounted, Files

-----------------------------------------------------------------------------
(***************************************************************************)
(* The invariant is kept.                                                  *)
(***************************************************************************)
LEMMA CacheInitInvariant == CacheInit => CacheInv
<1> SUFFICES ASSUME CacheInit PROVE CacheInv
  OBVIOUS
<1> USE DEF CacheInit
<1>1. Cardinality(Syncs) \in Nat
  BY FS_CardinalityType
<1>2. <<>> \in Seq(PartType)
  OBVIOUS
<1>3. CacheTypeOK
  BY <1>1, <1>2 DEF CacheTypeOK, Files
<1>4. FilesCounted
  <2>1. Begun = {}
    BY DEF Begun
  <2> QED
    BY <2>1, FS_EmptySet DEF FilesCounted
<1> QED
  BY <1>3, <1>4 DEF CacheInv, Opened, Writing, AloneFills, CacheSettled, ReadersSettled,
                    ReaderWhole

\* A step that touches neither the cache nor a reader, and unsettles no file.
LEMMA SettledKept ==
    ASSUME CacheSettled, ReadersSettled, files \in Nat, files' \in Nat, files <= files',
           UNCHANGED <<cacheFile, reader, source, sound, expected>>,
           \A g, p : SettledIn(g, p) => SettledInNext(g, p)
    PROVE  CacheSettled' /\ ReadersSettled'
<1>1. CacheSettled'
  <2> SUFFICES ASSUME sound' # NoSync PROVE SettledIn(cacheFile, sound)'
    BY DEF CacheSettled, SettledIn, Payload
  <2>1. SettledInNext(cacheFile, sound)
    BY DEF CacheSettled
  <2> QED
    BY <2>1 DEF SettledInNext, SettledIn, Payload
<1>2. ReadersSettled'
  <2> SUFFICES ASSUME NEW r \in Readers, reader'[r] = "open"
               PROVE  /\ source'[r] \in 1 .. files'
                      /\ expected'[r] # NoSync => SettledIn(source[r], expected[r])'
    BY DEF ReadersSettled, SettledIn, Payload
  <2>1. source[r] \in 1 .. files
    BY DEF ReadersSettled
  <2>2. expected[r] # NoSync => SettledInNext(source[r], expected[r])
    BY DEF ReadersSettled
  <2> QED
    BY <2>1, <2>2 DEF SettledInNext, SettledIn, Payload
<1> QED
  BY <1>1, <1>2

LEMMA OpenTmpInvariant ==
    ASSUME CacheInv, NEW s \in Syncs, OpenTmp(s) PROVE CacheInv'
<1> DEFINE f == IF tmpFile = NoFile THEN files + 1 ELSE tmpFile
<1>1. /\ stage[s].at = "idle"
      /\ stage' = [stage EXCEPT ![s] = [at |-> "write", part |-> 0]]
      /\ handle' = [handle EXCEPT ![s] = f] /\ tmpFile' = f
      /\ alone' = IF Writing = {} THEN alone \union {s} ELSE alone \ Writing
      /\ files' = IF tmpFile = NoFile THEN files + 1 ELSE files
      /\ UNCHANGED <<cacheFile, reader, source, got, sound, expected>>
  BY DEF OpenTmp, CacheInv, CacheTypeOK
<1>2. CacheTypeOK
  BY DEF CacheInv
<1>3. s \notin Begun /\ s \notin Writing
  BY <1>1 DEF Begun, Writing
<1>4. /\ files + 1 \in Files /\ Cardinality(Begun \union {s}) = Cardinality(Begun) + 1
  BY <1>2, <1>3, FileLeft DEF CacheInv
<1>5. /\ f \in Files /\ f \in 1 .. files' /\ files' \in Files /\ files <= files'
      /\ files \in Nat /\ files' <= files + 1
  BY <1>1, <1>2, <1>4, FS_CardinalityType DEF CacheTypeOK, Files
<1>6. content' = [content EXCEPT ![f] = <<>>]
  BY <1>1, <1>2 DEF OpenTmp, CacheTypeOK
<1>7. Begun' = Begun \union {s} /\ Writing' = Writing \union {s}
  BY <1>1, <1>2 DEF Begun, Writing, CacheTypeOK
<1> HIDE DEF f
<1>8. CacheTypeOK'
  <2>1. content' \in [Files -> Seq(PartType)]
    <3>1. <<>> \in Seq(PartType)
      OBVIOUS
    <3> QED
      BY <1>2, <1>6, <3>1 DEF CacheTypeOK
  <2>2. stage' \in [Syncs -> [at : {"idle", "write", "done", "failed"}, part : 0 .. Parts]]
    BY <1>1, <1>2 DEF CacheTypeOK
  <2>3. handle' \in [Syncs -> 0 .. files'] /\ source' \in [Readers -> 0 .. files']
    BY <1>1, <1>2, <1>5 DEF CacheTypeOK
  <2>4. alone' \subseteq Syncs
    BY <1>1, <1>2 DEF CacheTypeOK
  <2>5. /\ cacheFile' \in 0 .. files' /\ tmpFile' \in 0 .. files'
        /\ files' \in {NoFile} \union Files
    BY <1>1, <1>2, <1>5 DEF CacheTypeOK
  <2> QED
    BY <1>1, <1>2, <2>1, <2>2, <2>3, <2>4, <2>5 DEF CacheTypeOK
<1>9. FilesCounted'
  <2>1. Cardinality(Begun) \in Nat
    BY <1>4, FS_Subset, FS_CardinalityType DEF Begun
  <2> QED
    BY <1>4, <1>5, <1>7, <2>1 DEF FilesCounted, CacheInv
<1>10. Opened'
  BY <1>1, <1>2, <1>5, <1>7 DEF Opened, CacheInv, CacheTypeOK
<1>11. AloneFills'
  <2> SUFFICES ASSUME NEW t \in alone'
               PROVE  /\ t \in Begun'
                      /\ t \in Writing' =>
                            /\ Writing' = {t} /\ handle'[t] = tmpFile'
                            /\ content'[tmpFile'] = Prefix(t, stage'[t].part)
    BY DEF AloneFills, Prefix
  <2>1. CASE t = s
    <3>1. Writing = {}
      BY <1>1, <1>3, <2>1 DEF CacheInv, AloneFills
    <3>2. Prefix(t, 0) = <<>>
      BY DEF Prefix
    <3>3. /\ handle'[t] = f /\ stage'[t].part = 0 /\ content'[f] = <<>>
      BY <1>1, <1>2, <1>5, <1>6, <2>1 DEF CacheTypeOK
    <3> QED
      BY <1>1, <1>7, <2>1, <3>1, <3>2, <3>3
  <2>2. CASE t # s
    <3>1. t \in alone /\ t \notin Writing
      BY <1>1, <2>2
    <3> QED
      BY <1>7, <2>2, <3>1 DEF CacheInv, AloneFills
  <2> QED
    BY <2>1, <2>2
<1>12. ASSUME NEW g, NEW p, SettledIn(g, p) PROVE SettledInNext(g, p)
  <2>1. g # f /\ g \in 1 .. files'
    <3>1. g \in 1 .. files /\ g # tmpFile
      BY <1>12 DEF SettledIn
    <3>2. f = tmpFile \/ f = files + 1
      BY DEF f
    <3> QED
      BY <1>5, <3>1, <3>2
  <2>2. content'[g] = content[g]
    BY <1>2, <1>4, <1>5, <1>6, <1>12, <2>1 DEF SettledIn, CacheTypeOK, Files
  <2>3. \A t \in Writing' : handle'[t] # g
    BY <1>1, <1>2, <1>7, <1>12, <2>1 DEF SettledIn, CacheTypeOK
  <2> QED
    BY <1>1, <1>12, <2>1, <2>2, <2>3 DEF SettledIn, SettledInNext
<1>13. CacheSettled' /\ ReadersSettled'
  BY <1>1, <1>5, <1>12, SettledKept DEF CacheInv
<1>15. ReaderWhole'
  BY <1>1 DEF ReaderWhole, CacheInv, Payload
<1> QED
  BY <1>8, <1>9, <1>10, <1>11, <1>13, <1>15 DEF CacheInv

LEMMA WritePartInvariant ==
    ASSUME CacheInv, NEW s \in Syncs, WritePart(s) PROVE CacheInv'
<1> DEFINE i == stage[s].part + 1
           f == handle[s]
           old == content[f]
           length == IF Len(old) < i THEN i ELSE Len(old)
           new == [k \in 1 .. length |-> IF k = i THEN [sync |-> s, part |-> i]
                                         ELSE IF k <= Len(old) THEN old[k] ELSE Hole]
<1>1. CacheTypeOK /\ s \in Writing /\ stage[s].at = "write" /\ stage[s].part < Parts
  BY DEF CacheInv, WritePart, Writing
<1>2. /\ content' = [content EXCEPT ![f] = new]
      /\ stage' = [stage EXCEPT ![s].part = @ + 1]
      /\ UNCHANGED <<cacheFile, tmpFile, files, handle, reader, source, got, alone, sound,
                     expected>>
  BY DEF WritePart
<1>3. /\ f \in 1 .. files /\ f \in Files /\ files \in Nat /\ i \in 1 .. Parts
      /\ old \in Seq(PartType)
  <2>1. f \in 1 .. files
    BY <1>1 DEF CacheInv, Opened
  <2>2. files \in Nat /\ f \in Files
    BY <1>1, <2>1, FS_CardinalityType DEF CacheTypeOK, Files
  <2>3. i \in 1 .. Parts
    BY <1>1 DEF CacheTypeOK
  <2> QED
    BY <1>1, <2>1, <2>2, <2>3 DEF CacheTypeOK
<1>4. new \in Seq(PartType)
  <2>1. [sync |-> s, part |-> i] \in PartType /\ Hole \in PartType
    BY <1>3 DEF PartType
  <2>2. Len(old) \in Nat /\ \A k \in 1 .. Len(old) : old[k] \in PartType
    BY <1>3
  <2>3. length \in Nat
    BY <1>3, <2>2
  <2> HIDE DEF i, old, length
  <2> QED
    BY <2>1, <2>2, <2>3
<1>5. s \in alone => new = Prefix(s, i)
  <2> SUFFICES ASSUME s \in alone PROVE new = Prefix(s, i)
    OBVIOUS
  <2>1. old = Prefix(s, i - 1) /\ i - 1 \in 0 .. Parts
    BY <1>1, <1>3 DEF CacheInv, AloneFills, CacheTypeOK
  <2>2. Len(old) = i - 1
    BY <2>1, PrefixLen
  <2>3. length = i
    BY <1>3, <2>2
  <2>4. \A k \in 1 .. i - 1 : old[k] = [sync |-> s, part |-> k]
    BY <2>1 DEF Prefix
  <2> HIDE DEF i, old, length
  <2> QED
    BY <1>3, <2>2, <2>3, <2>4 DEF Prefix
<1> HIDE DEF i, f, old, length, new
<1>6. Writing' = Writing /\ Begun' = Begun
  BY <1>1, <1>2 DEF Writing, Begun, CacheTypeOK
<1>7. CacheTypeOK'
  <2>1. content' \in [Files -> Seq(PartType)]
    BY <1>1, <1>2, <1>4 DEF CacheTypeOK
  <2>2. stage' \in [Syncs -> [at : {"idle", "write", "done", "failed"}, part : 0 .. Parts]]
    BY <1>1, <1>2 DEF CacheTypeOK
  <2> QED
    BY <1>1, <1>2, <2>1, <2>2 DEF CacheTypeOK, Files, PartType
<1>8. FilesCounted' /\ Opened' /\ ReaderWhole'
  BY <1>2, <1>6 DEF CacheInv, FilesCounted, Opened, ReaderWhole, Payload
<1>9. AloneFills'
  <2> SUFFICES ASSUME NEW t \in alone
               PROVE  /\ t \in Begun
                      /\ t \in Writing =>
                            /\ Writing = {t} /\ handle[t] = tmpFile
                            /\ content'[tmpFile] = Prefix(t, stage'[t].part)
    BY <1>2, <1>6 DEF AloneFills, Prefix
  <2>1. CASE t = s
    <3>1. stage'[t].part = i
      BY <1>1, <1>2, <2>1 DEF i, CacheTypeOK
    <3>2. Writing = {t} /\ handle[t] = tmpFile /\ tmpFile = f /\ t \in Begun
      BY <1>1, <2>1 DEF CacheInv, AloneFills, f
    <3>3. content'[f] = new
      BY <1>1, <1>2, <1>3 DEF CacheTypeOK
    <3> QED
      BY <1>5, <2>1, <3>1, <3>2, <3>3
  <2>2. CASE t # s
    BY <1>1, <2>2 DEF CacheInv, AloneFills
  <2> QED
    BY <2>1, <2>2
<1>10. ASSUME NEW g, NEW p, SettledIn(g, p) PROVE SettledInNext(g, p)
  <2>1. g # f
    BY <1>1, <1>10 DEF SettledIn, f
  <2>2. g \in Files
    BY <1>1, <1>10, FS_CardinalityType DEF SettledIn, CacheTypeOK, Files
  <2> QED
    BY <1>1, <1>2, <1>6, <1>10, <2>1, <2>2 DEF SettledIn, SettledInNext, CacheTypeOK
<1>11. CacheSettled' /\ ReadersSettled'
  BY <1>2, <1>3, <1>10, SettledKept DEF CacheInv
<1> QED
  BY <1>7, <1>8, <1>9, <1>11 DEF CacheInv

LEMMA WriteFailsInvariant ==
    ASSUME CacheInv, NEW s \in Syncs, WriteFails(s) PROVE CacheInv'
<1>1. /\ CacheTypeOK /\ stage[s].at = "write"
      /\ stage' = [stage EXCEPT ![s].at = "failed"]
      /\ handle' = [handle EXCEPT ![s] = NoFile]
      /\ UNCHANGED <<cacheFile, tmpFile, files, content, reader, source, got, alone, sound,
                     expected>>
  BY DEF WriteFails, CacheInv
<1>2. Writing' = Writing \ {s} /\ Begun' = Begun /\ files \in Nat
  BY <1>1, FS_CardinalityType DEF Writing, Begun, CacheTypeOK, Files
<1>3. CacheTypeOK'
  <2>1. handle' \in [Syncs -> 0 .. files]
    BY <1>1, <1>2 DEF CacheTypeOK
  <2>2. stage' \in [Syncs -> [at : {"idle", "write", "done", "failed"}, part : 0 .. Parts]]
    BY <1>1 DEF CacheTypeOK
  <2> QED
    BY <1>1, <2>1, <2>2 DEF CacheTypeOK, Files, PartType
<1>4. FilesCounted' /\ ReaderWhole'
  BY <1>1, <1>2 DEF CacheInv, FilesCounted, ReaderWhole, Payload
<1>5. Opened' /\ AloneFills'
  BY <1>1, <1>2 DEF CacheInv, Opened, AloneFills, Prefix, CacheTypeOK, Writing
<1>6. ASSUME NEW g, NEW p, SettledIn(g, p) PROVE SettledInNext(g, p)
  BY <1>1, <1>2, <1>6 DEF SettledIn, SettledInNext, CacheTypeOK, Writing
<1>7. CacheSettled' /\ ReadersSettled'
  BY <1>1, <1>2, <1>6, SettledKept DEF CacheInv
<1> QED
  BY <1>3, <1>4, <1>5, <1>7 DEF CacheInv

LEMMA ReplaceInvariant ==
    ASSUME CacheInv, NEW s \in Syncs, Replace(s) PROVE CacheInv'
<1>1. /\ CacheTypeOK /\ s \in Writing /\ stage[s].at = "write" /\ stage[s].part = Parts
      /\ \E to \in {"failed", "done"} : stage' = [stage EXCEPT ![s].at = to]
      /\ handle' = [handle EXCEPT ![s] = NoFile]
      /\ UNCHANGED <<files, content, reader, source, got, alone, expected>>
  BY DEF Replace, CacheInv, Writing
<1>2. Writing' = Writing \ {s} /\ Begun' = Begun /\ files \in Nat
  BY <1>1, FS_CardinalityType DEF Writing, Begun, CacheTypeOK, Files
<1>3. \/ tmpFile = NoFile /\ UNCHANGED <<cacheFile, tmpFile, sound>>
      \/ /\ tmpFile # NoFile /\ cacheFile' = tmpFile /\ tmpFile' = NoFile
         /\ sound' = IF s \in alone THEN s ELSE NoSync
  BY DEF Replace
<1>4. CacheTypeOK'
  <2>1. handle' \in [Syncs -> 0 .. files]
    BY <1>1, <1>2 DEF CacheTypeOK
  <2>2. stage' \in [Syncs -> [at : {"idle", "write", "done", "failed"}, part : 0 .. Parts]]
    BY <1>1 DEF CacheTypeOK
  <2>3. /\ cacheFile' \in 0 .. files /\ tmpFile' \in 0 .. files
        /\ sound' \in Syncs \union {NoSync}
    BY <1>1, <1>2, <1>3 DEF CacheTypeOK
  <2> QED
    BY <1>1, <2>1, <2>2, <2>3 DEF CacheTypeOK, Files, PartType
<1>5. FilesCounted' /\ ReaderWhole'
  BY <1>1, <1>2 DEF CacheInv, FilesCounted, ReaderWhole, Payload
<1>6. Opened'
  BY <1>1, <1>2 DEF CacheInv, Opened, CacheTypeOK, Writing
<1>7. AloneFills'
  <2> SUFFICES ASSUME NEW t \in alone
               PROVE  t \in Begun /\ t \notin Writing'
    BY <1>1, <1>2 DEF AloneFills, Prefix
  <2> QED
    BY <1>1, <1>2 DEF CacheInv, AloneFills
<1>8. ASSUME NEW g, NEW p, SettledIn(g, p) PROVE SettledInNext(g, p)
  <2>1. g # tmpFile'
    BY <1>2, <1>3, <1>8 DEF SettledIn
  <2> QED
    BY <1>1, <1>2, <1>8, <2>1 DEF SettledIn, SettledInNext, CacheTypeOK, Writing
<1>9. CacheSettled'
  <2> SUFFICES ASSUME sound' # NoSync PROVE SettledInNext(cacheFile', sound')
    BY DEF CacheSettled, SettledIn, SettledInNext, Payload
  <2>1. CASE tmpFile = NoFile
    BY <1>3, <1>8, <2>1 DEF CacheInv, CacheSettled
  <2>2. CASE tmpFile # NoFile
    <3>1. s \in alone /\ sound' = s /\ cacheFile' = tmpFile /\ tmpFile' = NoFile
      BY <1>3, <2>2
    <3>2. Writing = {s} /\ content[tmpFile] = Prefix(s, Parts)
      BY <1>1, <3>1 DEF CacheInv, AloneFills
    <3>3. content'[tmpFile] = Payload(s) /\ Writing' = {}
      BY <1>1, <1>2, <3>2 DEF Prefix, Payload
    <3>4. tmpFile \in 1 .. files /\ files' = files
      BY <1>1, <1>2, <2>2 DEF CacheTypeOK
    <3> QED
      BY <3>1, <3>3, <3>4 DEF SettledInNext
  <2> QED
    BY <2>1, <2>2
<1>10. ReadersSettled'
  <2> SUFFICES ASSUME NEW r \in Readers, reader[r] = "open"
               PROVE  /\ source[r] \in 1 .. files
                      /\ expected[r] # NoSync => SettledInNext(source[r], expected[r])
    BY <1>1 DEF ReadersSettled, SettledIn, SettledInNext, Payload
  <2> QED
    BY <1>8 DEF CacheInv, ReadersSettled
<1> QED
  BY <1>4, <1>5, <1>6, <1>7, <1>9, <1>10 DEF CacheInv

LEMMA ReaderInvariant ==
    ASSUME CacheInv, NEW r \in Readers, OpenCache(r) \/ ReadCache(r) PROVE CacheInv'
<1>1. CacheTypeOK
  BY DEF CacheInv
<1>2. UNCHANGED <<cacheFile, tmpFile, files, content, stage, handle, alone, sound>>
  BY DEF OpenCache, ReadCache
<1>3. FilesCounted' /\ Opened' /\ AloneFills' /\ CacheSettled' /\ files \in Nat
  BY <1>1, <1>2, FS_CardinalityType
     DEF CacheInv, CacheTypeOK, Files, FilesCounted, Begun, Opened, Writing, AloneFills,
         Prefix, CacheSettled, SettledIn, Payload
<1>4. \A g, p : SettledIn(g, p) => SettledInNext(g, p)
  BY <1>2 DEF SettledIn, SettledInNext, Writing
<1>5. CASE OpenCache(r)
  <2>1. CacheTypeOK'
    BY <1>1, <1>2, <1>5 DEF OpenCache, CacheTypeOK, Files, PartType
  <2>2. ReaderWhole'
    BY <1>1, <1>5 DEF OpenCache, CacheInv, ReaderWhole, CacheTypeOK, Payload
  <2>3. ReadersSettled'
    <3> SUFFICES ASSUME NEW q \in Readers, reader'[q] = "open"
                 PROVE  /\ source'[q] \in 1 .. files
                        /\ expected'[q] # NoSync => SettledInNext(source'[q], expected'[q])
      BY <1>2 DEF ReadersSettled, SettledIn, SettledInNext, Payload
    <3>1. CASE q = r
      <4>1. /\ cacheFile # NoFile /\ source'[q] = cacheFile /\ expected'[q] = sound
        BY <1>1, <1>5, <3>1 DEF OpenCache, CacheTypeOK
      <4>2. sound # NoSync => SettledInNext(cacheFile, sound)
        BY <1>4 DEF CacheInv, CacheSettled
      <4> QED
        BY <1>1, <1>3, <4>1, <4>2 DEF CacheTypeOK
    <3>2. CASE q # r
      <4>1. reader'[q] = reader[q] /\ source'[q] = source[q] /\ expected'[q] = expected[q]
        BY <1>1, <1>5, <3>2 DEF OpenCache, CacheTypeOK
      <4> QED
        BY <1>4, <4>1 DEF CacheInv, ReadersSettled
    <3> QED
      BY <3>1, <3>2
  <2> QED
    BY <1>3, <2>1, <2>2, <2>3 DEF CacheInv
<1>6. CASE ReadCache(r)
  <2>1. /\ reader[r] = "open" /\ reader' = [reader EXCEPT ![r] = "read"]
        /\ got' = [got EXCEPT ![r] = content[source[r]]] /\ UNCHANGED <<source, expected>>
    BY <1>6 DEF ReadCache
  <2>2. source[r] \in 1 .. files /\ source[r] \in Files
    BY <1>1, <1>3, <2>1, FS_CardinalityType DEF CacheInv, ReadersSettled, CacheTypeOK, Files
  <2>3. got' \in [Readers -> Seq(PartType)]
    BY <1>1, <2>1, <2>2 DEF CacheTypeOK
  <2>4. CacheTypeOK'
    BY <1>1, <1>2, <2>1, <2>3 DEF CacheTypeOK, Files, PartType
  <2>5. ReaderWhole'
    <3> SUFFICES ASSUME NEW q \in Readers, reader'[q] = "read", expected[q] # NoSync
                 PROVE  got'[q] = Payload(expected[q])
      BY <2>1 DEF ReaderWhole, Payload
    <3>1. CASE q = r
      <4>1. content[source[r]] = Payload(expected[r])
        BY <2>1, <3>1 DEF CacheInv, ReadersSettled, SettledIn
      <4> QED
        BY <1>1, <2>1, <3>1, <4>1 DEF CacheTypeOK
    <3>2. CASE q # r
      <4>1. reader'[q] = reader[q] /\ got'[q] = got[q]
        BY <1>1, <2>1, <3>2 DEF CacheTypeOK
      <4> QED
        BY <4>1 DEF CacheInv, ReaderWhole
    <3> QED
      BY <3>1, <3>2
  <2>6. ReadersSettled'
    <3> SUFFICES ASSUME NEW q \in Readers, reader'[q] = "open"
                 PROVE  /\ source[q] \in 1 .. files
                        /\ expected[q] # NoSync => SettledInNext(source[q], expected[q])
      BY <1>2, <2>1 DEF ReadersSettled, SettledIn, SettledInNext, Payload
    <3>1. reader[q] = "open"
      BY <1>1, <2>1 DEF CacheTypeOK
    <3> QED
      BY <1>4, <3>1 DEF CacheInv, ReadersSettled
  <2> QED
    BY <1>3, <2>4, <2>5, <2>6 DEF CacheInv
<1> QED
  BY <1>5, <1>6

LEMMA CrashInvariant == CacheInv /\ Crash => CacheInv'
<1> SUFFICES ASSUME CacheInv, Crash PROVE CacheInv'
  OBVIOUS
<1>1. /\ CacheTypeOK
      /\ stage' = [s \in Syncs |-> IF s \in Writing THEN [at |-> "failed", part |-> 0]
                                   ELSE stage[s]]
      /\ handle' = [s \in Syncs |-> NoFile]
      /\ reader' = [r \in Readers |-> IF reader[r] = "open" THEN "missing" ELSE reader[r]]
      /\ UNCHANGED <<cacheFile, tmpFile, files, content, source, got, alone, sound, expected>>
  BY DEF Crash, CacheInv
<1>2. Writing' = {} /\ Begun' = Begun /\ files \in Nat
  BY <1>1, FS_CardinalityType DEF Writing, Begun, CacheTypeOK, Files
<1>3. CacheTypeOK'
  <2>1. handle' \in [Syncs -> 0 .. files]
    BY <1>1, <1>2
  <2>2. stage' \in [Syncs -> [at : {"idle", "write", "done", "failed"}, part : 0 .. Parts]]
    BY <1>1 DEF CacheTypeOK
  <2>3. reader' \in [Readers -> {"idle", "open", "missing", "read"}]
    BY <1>1 DEF CacheTypeOK
  <2> QED
    BY <1>1, <2>1, <2>2, <2>3 DEF CacheTypeOK, Files, PartType
<1>4. FilesCounted' /\ Opened' /\ AloneFills'
  BY <1>1, <1>2 DEF CacheInv, FilesCounted, Opened, AloneFills, Prefix
<1>5. ReaderWhole'
  BY <1>1 DEF CacheInv, ReaderWhole, Payload
<1>6. ReadersSettled'
  BY <1>1 DEF ReadersSettled
<1>7. CacheSettled'
  BY <1>1, <1>2 DEF CacheInv, CacheSettled, SettledIn, Payload
<1> QED
  BY <1>3, <1>4, <1>5, <1>6, <1>7 DEF CacheInv

LEMMA CacheInvariance == CacheSpec => []CacheInv
<1>1. CacheInv /\ [CacheNext]_cacheVars => CacheInv'
  <2> SUFFICES ASSUME CacheInv, [CacheNext]_cacheVars PROVE CacheInv'
    OBVIOUS
  <2>1. CASE UNCHANGED cacheVars
    <3>1. UNCHANGED <<cacheFile, tmpFile, files, content, stage, handle, reader, source,
                      got, alone, sound, expected>>
      BY <2>1 DEF cacheVars
    <3>2. CacheTypeOK'
      BY <3>1 DEF CacheInv, CacheTypeOK, Files, PartType
    <3>3. FilesCounted' /\ Opened' /\ AloneFills'
      BY <3>1 DEF CacheInv, FilesCounted, Begun, Opened, Writing, AloneFills, Prefix
    <3>4. CacheSettled' /\ ReadersSettled'
      BY <3>1 DEF CacheInv, CacheSettled, ReadersSettled, SettledIn, Writing, Payload
    <3>5. ReaderWhole'
      BY <3>1 DEF CacheInv, ReaderWhole, Payload
    <3> QED
      BY <3>2, <3>3, <3>4, <3>5 DEF CacheInv
  <2> QED
    BY <2>1, OpenTmpInvariant, WritePartInvariant, WriteFailsInvariant, ReplaceInvariant,
       ReaderInvariant, CrashInvariant DEF CacheNext
<1> QED
  BY <1>1, CacheInitInvariant, PTL DEF CacheSpec

-----------------------------------------------------------------------------
(***************************************************************************)
(* What follows.                                                           *)
(***************************************************************************)
\* Every variable keeps its type: there is a file for each synchronisation
\* (write_watchlists_cache, service.py).
THEOREM CacheTypeCorrect == CacheSpec => []CacheTypeOK
<1>1. CacheInv => CacheTypeOK
  BY DEF CacheInv
<1> QED
  BY <1>1, CacheInvariance, PTL

\* Whatever fails, is killed or runs at the same time later: the payload of a
\* synchronisation that ran alone is whole in the cache it has moved it to.
THEOREM CacheIsWhole == CacheSpec => []CacheWhole
<1>1. CacheInv => CacheWhole
  BY DEF CacheInv, CacheSettled, SettledIn, CacheWhole
<1> QED
  BY <1>1, CacheInvariance, PTL

\* A reader that has opened such a cache reads it whole, though it may be replaced
\* and written anew before the reader comes to read it.
THEOREM ReadersReadWhole == CacheSpec => []ReaderWhole
<1>1. CacheInv => ReaderWhole
  BY DEF CacheInv
<1> QED
  BY <1>1, CacheInvariance, PTL

=============================================================================
