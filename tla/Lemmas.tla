------------------------------- MODULE Lemmas -------------------------------
(***************************************************************************)
(* Facts about numbers, pages and exact fractions that the proofs of the  *)
(* components use.                                                         *)
(***************************************************************************)
EXTENDS Rational, FiniteSets, FiniteSetsExt, FiniteSetTheorems, WellFoundedInduction, TLAPS

\* A nonempty set of naturals has a least element.
LEMMA LeastNatural ==
  ASSUME NEW S \in SUBSET Nat, S # {}
  PROVE  \E x \in S : \A y \in S : x <= y
<1>1. PICK x \in S : \A y \in S : ~(<<y, x>> \in OpToRel(<, Nat))
  BY NatLessThanWellFounded, WFMin, Zenon
<1>2. ASSUME NEW y \in S
      PROVE  ~(y < x)
  <2>1. x \in Nat /\ y \in Nat
    OBVIOUS
  <2>2. y < x => <<y, x>> \in OpToRel(<, Nat)
    BY <2>1, Zenon DEF OpToRel
  <2> QED
    BY <1>1, <2>2, Zenon
<1> QED
  BY <1>2

\* A nonempty set of bounded numbers has a greatest one.
LEMMA GreatestNumber ==
  ASSUME NEW n \in Nat, NEW S \in SUBSET (1..n), S # {}
  PROVE  Max(S) \in S /\ \A y \in S : Max(S) >= y
<1> DEFINE Gaps == {n - x : x \in S}
<1>1. Gaps \in SUBSET Nat /\ Gaps # {}
  <2>1. \A x \in S : x \in 1..n
    OBVIOUS
  <2>2. \A x \in S : n - x \in Nat
    BY <2>1
  <2> QED
    BY <2>2
<1>2. PICK g \in Gaps : \A h \in Gaps : g <= h
  <2> HIDE DEF Gaps
  <2> QED
    BY <1>1, LeastNatural
<1>3. PICK x \in S : g = n - x
  OBVIOUS
<1>4. \A y \in S : n - x <= n - y
  BY <1>2, <1>3
<1>5. \A y \in S : x >= y
  BY <1>4
<1> QED
  BY <1>5 DEF Max

\* A part of a numbered population is finite.
LEMMA NumberedFinite ==
  ASSUME NEW n \in Nat, NEW S \in SUBSET (1..n)
  PROVE  IsFiniteSet(S) /\ Cardinality(S) \in Nat
<1>1. IsFiniteSet(1..n)
  BY FS_Interval
<1>2. IsFiniteSet(S)
  BY <1>1, FS_Subset
<1> QED
  BY <1>2, FS_CardinalityType

-----------------------------------------------------------------------------
(* Pages: the first "limit" members of a population behind a cursor *)

Page(S, cur, limit) ==
  LET rest == {x \in S : x > cur} IN {x \in rest : Cardinality({y \in rest : y < x}) < limit}

\* A page skips nobody: with a member it takes everyone between the cursor and
\* that one.
LEMMA PageHasNoGap ==
  ASSUME NEW n \in Nat, NEW S \in SUBSET (1..n), NEW cur \in Nat, NEW limit \in Nat,
         NEW d \in Page(S, cur, limit), NEW e \in S, e > cur, e <= d
  PROVE  e \in Page(S, cur, limit)
<1> DEFINE rest == {x \in S : x > cur}
           Ahead(x) == {y \in rest : y < x}
<1>1. d \in rest /\ Cardinality(Ahead(d)) < limit
  BY DEF Page
<1>2. Ahead(e) \subseteq Ahead(d)
  <2>1. rest \subseteq Nat
    <3>1. \A x \in 1..n : x \in Nat
      OBVIOUS
    <3> QED
      BY <3>1
  <2>2. \A y \in Nat : y < e => y < d
    BY <1>1, <2>1
  <2> QED
    BY <2>1, <2>2
<1>3. Ahead(e) \in SUBSET (1..n) /\ Ahead(d) \in SUBSET (1..n)
  OBVIOUS
<1>4. /\ IsFiniteSet(Ahead(d))
      /\ Cardinality(Ahead(e)) \in Nat /\ Cardinality(Ahead(d)) \in Nat
  BY <1>3, NumberedFinite
<1>5. Cardinality(Ahead(e)) <= Cardinality(Ahead(d))
  BY <1>2, <1>4, FS_Subset
<1>6. Cardinality(Ahead(e)) < limit
  BY <1>1, <1>4, <1>5
<1> QED
  BY <1>6 DEF Page

\* A page that comes back short has taken everyone left.
LEMMA ShortPageTakesTheRest ==
  ASSUME NEW n \in Nat, NEW S \in SUBSET (1..n), NEW cur \in Nat, NEW limit \in Nat,
         Cardinality(Page(S, cur, limit)) < limit, NEW e \in S, e > cur
  PROVE  e \in Page(S, cur, limit)
<1> DEFINE P == Page(S, cur, limit)
           rest == {x \in S : x > cur}
           Ahead(x) == {y \in rest : y < x}
<1>1. \A x \in rest : x \in P <=> Cardinality(Ahead(x)) < limit
  BY DEF Page
<1>2. P \subseteq rest
  BY DEF Page
<1> SUFFICES ASSUME e \notin P
             PROVE  FALSE
  OBVIOUS
<1>3. e \in rest /\ rest \ P \in SUBSET Nat
  <2>1. rest \subseteq Nat
    <3>1. \A x \in 1..n : x \in Nat
      OBVIOUS
    <3> QED
      BY <3>1
  <2> QED
    BY <2>1
<1>4. PICK m \in rest \ P : \A y \in rest \ P : m <= y
  <2> HIDE DEF rest, P
  <2> QED
    BY <1>3, LeastNatural
<1>5. Ahead(m) \subseteq P
  <2>1. ASSUME NEW y \in rest, y < m
        PROVE  y \in P
    <3>1. ~(m <= y)
      BY <2>1
    <3> HIDE DEF rest, P
    <3> QED
      BY <1>4, <2>1, <3>1
  <2> QED
    BY <2>1
<1>6. P \in SUBSET (1..n) /\ Ahead(m) \in SUBSET (1..n)
  BY <1>2
<1>7. IsFiniteSet(P) /\ Cardinality(P) \in Nat /\ Cardinality(Ahead(m)) \in Nat
  <2> HIDE DEF P
  <2> QED
    BY <1>6, NumberedFinite
<1>8. Cardinality(Ahead(m)) <= Cardinality(P)
  <2> HIDE DEF P, Ahead
  <2> QED
    BY <1>5, <1>7, FS_Subset
<1>9. Cardinality(Ahead(m)) < limit
  BY <1>7, <1>8
<1> QED
  BY <1>1, <1>4, <1>9

\* An empty page is a short one.
LEMMA FullPageHasMembers ==
  ASSUME NEW S, NEW cur, NEW limit \in Nat \ {0}, ~(Cardinality(Page(S, cur, limit)) < limit)
  PROVE  Page(S, cur, limit) # {}
BY FS_EmptySet

-----------------------------------------------------------------------------
(* Exact fractions: gcd reduces them *)

\* Division with remainder.
LEMMA DivMod ==
  ASSUME NEW a \in Nat, NEW b \in Nat \ {0}
  PROVE  a % b \in Nat /\ a % b < b /\ \E q \in Int : a = (b * q) + (a % b)
<1>1. a \div b \in Int /\ a % b \in Nat /\ a % b < b
  OBVIOUS
<1>2. a = (b * (a \div b)) + (a % b)
  OBVIOUS
<1> QED
  BY <1>1, <1>2

\* What the definition of gcd says, once it is known to define a function.
GcdRecursion ==
  gcd = [p \in Nat \X Nat |-> IF p[2] = 0 THEN p[1] ELSE gcd[<<p[2], p[1] % p[2]>>]]

\* What divides both numbers.
Divides(k, n) == \E m \in Int : n = k * m

\* Their common divisors.
CommonDivisors(a, b) == {k \in Nat \ {0} : Divides(k, a) /\ Divides(k, b)}

\* The greatest of a set of numbers.
Greatest(S) == CHOOSE k \in S : \A j \in S : j <= k

\* Euclid's step keeps the common divisors.
LEMMA SameDivisors ==
  ASSUME NEW a \in Nat, NEW b \in Nat \ {0}
  PROVE  CommonDivisors(a, b) = CommonDivisors(b, a % b)
<1>1. PICK q \in Int : a = (b * q) + (a % b)
  BY DivMod
<1> DEFINE r == a % b
<1>2. r \in Nat /\ a = (b * q) + r
  BY <1>1, DivMod
<1> HIDE DEF r
<1>3. ASSUME NEW k \in Nat \ {0}, NEW m \in Int, NEW n \in Int, a = k * m, b = k * n
      PROVE  Divides(k, r)
  <2>1. r = k * (m - (n * q))
    BY <1>2, <1>3
  <2> QED
    BY <2>1 DEF Divides
<1>4. ASSUME NEW k \in Nat \ {0}, NEW m \in Int, NEW n \in Int, r = k * m, b = k * n
      PROVE  Divides(k, a)
  <2>1. a = k * (m + (n * q))
    BY <1>2, <1>4
  <2> QED
    BY <2>1 DEF Divides
<1>5. \A k \in Nat \ {0} : Divides(k, a) /\ Divides(k, b) <=> Divides(k, b) /\ Divides(k, r)
  BY <1>3, <1>4, Zenon DEF Divides
<1>6. CommonDivisors(a, b) = CommonDivisors(b, r)
  BY <1>5, Zenon DEF CommonDivisors
<1> QED
  BY <1>6 DEF r

\* Euclid's recursion has a solution, the greatest common divisor, so gcd is one.
LEMMA GcdUnfolds == GcdRecursion
<1> DEFINE G(a, b) == IF b = 0 THEN a ELSE Greatest(CommonDivisors(a, b))
           g == [p \in Nat \X Nat |-> G(p[1], p[2])]
<1>1. ASSUME NEW b \in Nat \ {0}
      PROVE  Greatest(CommonDivisors(b, 0)) = b
  <2>1. b \in CommonDivisors(b, 0)
    <3>1. b = b * 1 /\ 0 = b * 0
      OBVIOUS
    <3> QED
      BY <3>1 DEF CommonDivisors, Divides
  <2>2. \A k \in CommonDivisors(b, 0) : k <= b
    <3>1. ASSUME NEW k \in Nat \ {0}, NEW m \in Int, b = k * m
          PROVE  k <= b
      BY <3>1
    <3> QED
      BY <3>1 DEF CommonDivisors, Divides
  <2>3. \A k \in CommonDivisors(b, 0) : k \in Nat
    BY DEF CommonDivisors
  <2>4. \A k \in CommonDivisors(b, 0) : (\A j \in CommonDivisors(b, 0) : j <= k) => k = b
    BY <2>1, <2>2, <2>3
  <2> QED
    BY <2>1, <2>2, <2>4 DEF Greatest
<1>2. ASSUME NEW a \in Nat, NEW b \in Nat \ {0}
      PROVE  G(a, b) = G(b, a % b)
  <2>1. G(a, b) = Greatest(CommonDivisors(b, a % b))
    BY SameDivisors
  <2>2. CASE a % b = 0
    BY <1>1, <2>1, <2>2
  <2>3. CASE a % b # 0
    BY <2>1, <2>3
  <2> QED
    BY <2>2, <2>3
<1>3. g = [p \in Nat \X Nat |-> IF p[2] = 0 THEN p[1] ELSE g[<<p[2], p[1] % p[2]>>]]
  <2>1. ASSUME NEW p \in Nat \X Nat, p[2] # 0
        PROVE  G(p[1], p[2]) = g[<<p[2], p[1] % p[2]>>]
    <3>1. p[1] \in Nat /\ p[2] \in Nat \ {0}
      BY <2>1
    <3>2. <<p[2], p[1] % p[2]>> \in Nat \X Nat
      BY <3>1, DivMod
    <3>3. G(p[1], p[2]) = G(p[2], p[1] % p[2])
      BY <1>2, <3>1
    <3> HIDE DEF G
    <3> QED
      BY <3>2, <3>3
  <2>2. \A p \in Nat \X Nat :
          G(p[1], p[2]) = IF p[2] = 0 THEN p[1] ELSE g[<<p[2], p[1] % p[2]>>]
    <3>1. \A p \in Nat \X Nat : p[2] = 0 => G(p[1], p[2]) = p[1]
      OBVIOUS
    <3> HIDE DEF G, g
    <3> QED
      BY <2>1, <3>1
  <2> HIDE DEF G
  <2> QED
    BY <2>2, Zenon
<1> HIDE DEF g
<1> QED
  BY <1>3, Zenon DEF gcd, GcdRecursion

\* What gcd is for: a common divisor that is a combination of the two numbers.
GcdOf(a, b, g) ==
  /\ g \in Nat
  /\ a > 0 \/ b > 0 => g > 0
  /\ Divides(g, a) /\ Divides(g, b)
  /\ \E x \in Int, y \in Int : g = (a * x) + (b * y)

\* Euclid's step keeps what gcd is for.
LEMMA GcdStep ==
  ASSUME NEW a \in Nat, NEW b \in Nat \ {0}, NEW g, GcdOf(b, a % b, g)
  PROVE  GcdOf(a, b, g)
<1> DEFINE r == a % b
<1>1. PICK q \in Int : a = (b * q) + r
  BY DivMod
<1>2. r \in Nat
  BY DivMod
<1>3. g \in Nat /\ g > 0
  BY DEF GcdOf
<1>4. PICK m \in Int, n \in Int : b = g * m /\ r = g * n
  BY DEF GcdOf, Divides
<1>5. PICK x \in Int, y \in Int : g = (b * x) + (r * y)
  BY DEF GcdOf
<1> HIDE DEF r
<1>6. a = g * ((m * q) + n)
  <2>1. a = ((g * m) * q) + (g * n)
    BY <1>1, <1>4
  <2> QED
    BY <2>1, <1>3
<1>7. g = (a * y) + (b * (x - (q * y)))
  <2>1. r = a - (b * q)
    BY <1>1, <1>2
  <2>2. g = (b * x) + ((a - (b * q)) * y)
    BY <1>5, <2>1
  <2> QED
    BY <2>2
<1>8. Divides(g, a) /\ Divides(g, b)
  <2>1. (m * q) + n \in Int
    OBVIOUS
  <2> QED
    BY <1>4, <1>6, <2>1 DEF Divides
<1>9. \E u \in Int, v \in Int : g = (a * u) + (b * v)
  <2>1. x - (q * y) \in Int
    OBVIOUS
  <2> QED
    BY <1>7, <2>1
<1> QED
  BY <1>3, <1>8, <1>9 DEF GcdOf

\* gcd computes it: there is no least second argument for which it does not.
LEMMA GcdIsGcd ==
  ASSUME NEW a \in Nat, NEW b \in Nat
  PROVE  GcdOf(a, b, gcd[<<a, b>>])
<1> DEFINE Good(d) == \A c \in Nat : GcdOf(c, d, gcd[<<c, d>>])
           Bad == {d \in Nat : ~Good(d)}
<1>1. \A c \in Nat, d \in Nat : gcd[<<c, d>>] = IF d = 0 THEN c ELSE gcd[<<d, c % d>>]
  BY GcdUnfolds DEF GcdRecursion
<1>2. Good(0)
  <2>1. ASSUME NEW c \in Nat
        PROVE  GcdOf(c, 0, c)
    <3>1. c = c * 1 /\ 0 = c * 0 /\ c = (c * 1) + (0 * 0)
      OBVIOUS
    <3> QED
      BY <3>1 DEF GcdOf, Divides
  <2> QED
    BY <1>1, <2>1
<1>3. ASSUME NEW d \in Nat \ {0}, \A e \in Nat : e < d => Good(e)
      PROVE  Good(d)
  <2>1. ASSUME NEW c \in Nat
        PROVE  GcdOf(c, d, gcd[<<c, d>>])
    <3>1. c % d \in Nat /\ c % d < d
      BY DivMod
    <3>2. GcdOf(d, c % d, gcd[<<d, c % d>>])
      BY <1>3, <3>1
    <3> QED
      BY <1>1, <3>2, GcdStep
  <2> QED
    BY <2>1
<1>4. Bad = {}
  <2> SUFFICES ASSUME Bad # {}
               PROVE  FALSE
    OBVIOUS
  <2> HIDE DEF Good
  <2>1. PICK d \in Bad : \A e \in Bad : d <= e
    BY LeastNatural
  <2>2. d \in Nat /\ ~Good(d) /\ \A e \in Nat : e < d => Good(e)
    BY <2>1
  <2> QED
    BY <1>2, <1>3, <2>2
<1> QED
  BY <1>4

-----------------------------------------------------------------------------
(* A rational stands for every fraction of its value *)

\* x is the value n over d.
Stands(x, n, d) == IsRat(x) /\ n \in Int /\ d \in Int \ {0} /\ x[1] * d = n * x[2]

\* Multiplying and dividing again.
LEMMA DivExact ==
  ASSUME NEW g \in Nat \ {0}, NEW m \in Int
  PROVE  (g * m) \div g = m
OBVIOUS

\* Two numbers of which 1 is a combination have no common divisor.
LEMMA Coprime ==
  ASSUME NEW a \in Nat, NEW b \in Nat, NEW x \in Int, NEW y \in Int, (a * x) + (b * y) = 1
  PROVE  gcd[<<a, b>>] = 1
<1> DEFINE g == gcd[<<a, b>>]
<1>1. GcdOf(a, b, g)
  BY GcdIsGcd
<1> HIDE DEF g
<1>2. g \in Nat
  BY <1>1 DEF GcdOf
<1>3. PICK m \in Int, n \in Int : a = g * m /\ b = g * n
  BY <1>1 DEF GcdOf, Divides
<1>4. PICK c \in Int : g * c = 1
  <2>1. ((g * m) * x) + ((g * n) * y) = 1
    BY <1>3
  <2>2. g * ((m * x) + (n * y)) = 1
    BY <1>2, <2>1
  <2>3. (m * x) + (n * y) \in Int
    OBVIOUS
  <2> QED
    BY <2>2, <2>3
<1>5. g # 0
  BY <1>4
<1>6. g = 1
  BY <1>2, <1>4, <1>5
<1> QED
  BY <1>6 DEF g

\* Reducing a fraction does not change its value.
LEMMA FracStands ==
  ASSUME NEW n \in Int, NEW d \in Int \ {0}
  PROVE  Stands(Frac(n, d), n, d)
<1> DEFINE a == Abs(n)
           b == Abs(d)
           g == gcd[<<a, b>>]
           s == IF d < 0 THEN -1 ELSE 1
<1>1. a \in Nat /\ b \in Nat /\ b > 0 /\ (n = a \/ n = -a) /\ (d = b \/ d = -b)
  BY DEF Abs
<1>2. GcdOf(a, b, g)
  BY <1>1, GcdIsGcd
<1>3. Frac(n, d) = <<s * (n \div g), s * (d \div g)>>
  BY DEF Frac, frac, Fraction
<1>4. s * d = b /\ (s = 1 \/ s = -1)
  BY DEF Abs
<1> HIDE DEF a, b, g, s
<1>5. g \in Nat \ {0}
  BY <1>1, <1>2 DEF GcdOf
<1>6. PICK m \in Int, k \in Int : a = g * m /\ b = g * k
  BY <1>2 DEF GcdOf, Divides
<1>7. PICK x \in Int, y \in Int : g = (a * x) + (b * y)
  BY <1>2 DEF GcdOf
<1>8. m >= 0 /\ k > 0
  BY <1>1, <1>5, <1>6
<1>9. (m * x) + (k * y) = 1
  <2>1. g * ((m * x) + (k * y)) = g * 1
    <3>1. g = ((g * m) * x) + ((g * k) * y)
      BY <1>6, <1>7
    <3> QED
      BY <1>5, <3>1
  <2>2. (m * x) + (k * y) \in Int
    BY <1>6, <1>7
  <2> QED
    BY <1>5, <2>1, <2>2
<1>10. PICK u \in Int : (u = m \/ u = -m) /\ n = g * u
  <2>1. g * (-m) = -(g * m)
    BY <1>5, <1>6
  <2> QED
    BY <1>1, <1>6, <2>1
<1>11. PICK v \in Int : v = s * k /\ d = g * v
  <2>1. d = s * b
    BY <1>1, <1>4
  <2>2. d = g * (s * k)
    BY <1>4, <1>5, <1>6, <2>1
  <2>3. s * k \in Int
    BY <1>4, <1>6
  <2> QED
    BY <2>2, <2>3
<1>12. n \div g = u /\ d \div g = v
  BY <1>5, <1>10, <1>11, DivExact
<1>13. Frac(n, d) = <<s * u, k>>
  BY <1>3, <1>4, <1>11, <1>12
<1>14. Abs(s * u) = m
  BY <1>4, <1>8, <1>10 DEF Abs
<1>15. IsRat(<<s * u, k>>)
  <2>1. gcd[<<m, k>>] = 1
    BY <1>8, <1>9, Coprime
  <2> QED
    BY <1>4, <1>8, <1>10, <1>14, <2>1 DEF IsRat, Fraction
<1>16. (s * u) * d = n * k
  BY <1>4, <1>5, <1>10, <1>11
<1> QED
  BY <1>13, <1>15, <1>16 DEF Stands

\* A rational is the value of its own numerator and denominator.
LEMMA StandsForItself ==
  ASSUME NEW x, IsRat(x)
  PROVE  Stands(x, x[1], x[2]) /\ x[1] \in Int /\ x[2] \in Nat \ {0} /\ x \in Fraction
BY DEF Stands, IsRat, Fraction

\* The denominators of equal values divide each other.
LEMMA DenominatorDivides ==
  ASSUME NEW x, NEW y, IsRat(x), IsRat(y), x[1] * y[2] = y[1] * x[2]
  PROVE  \E k \in Int : y[2] = x[2] * k
<1>1. x[1] \in Int /\ x[2] \in Nat \ {0} /\ y[1] \in Int /\ y[2] \in Nat \ {0}
  BY StandsForItself
<1>2. PICK s \in Int, t \in Int : (Abs(x[1]) * s) + (x[2] * t) = 1
  <2>1. gcd[<<Abs(x[1]), x[2]>>] = 1 /\ Abs(x[1]) \in Nat
    BY <1>1 DEF IsRat, Abs
  <2>2. GcdOf(Abs(x[1]), x[2], 1)
    BY <1>1, <2>1, GcdIsGcd
  <2>3. \E s \in Int, t \in Int : 1 = (Abs(x[1]) * s) + (x[2] * t)
    BY <2>2, Zenon DEF GcdOf
  <2> QED
    BY <2>3
<1>3. PICK r \in Int : (x[1] * r) + (x[2] * t) = 1
  <2>1. CASE x[1] >= 0
    BY <1>1, <1>2, <2>1 DEF Abs
  <2>2. CASE x[1] < 0
    <3>1. (x[1] * (-s)) + (x[2] * t) = 1 /\ -s \in Int
      BY <1>1, <1>2, <2>2 DEF Abs
    <3> QED
      BY <3>1
  <2> QED
    BY <1>1, <2>1, <2>2
<1> DEFINE p == x[1]  q == x[2]  u == y[1]  v == y[2]
<1>4. p \in Int /\ q \in Int /\ u \in Int /\ v \in Int /\ p * v = u * q /\ (p * r) + (q * t) = 1
  BY <1>1, <1>3
<1> HIDE DEF p, q, u, v
<1>5. v = v * ((p * r) + (q * t))
  BY <1>4
<1>6. v * ((p * r) + (q * t)) = ((p * v) * r) + ((q * v) * t)
  BY <1>4
<1>7. ((p * v) * r) + ((q * v) * t) = ((u * q) * r) + ((q * v) * t)
  BY <1>4
<1>8. ((u * q) * r) + ((q * v) * t) = q * ((u * r) + (v * t))
  BY <1>4
<1>9. v = q * ((u * r) + (v * t)) /\ (u * r) + (v * t) \in Int
  BY <1>4, <1>5, <1>6, <1>7, <1>8
<1> QED
  BY <1>9 DEF q, v

\* One value has one representation.
LEMMA LowestTerms ==
  ASSUME NEW x, NEW y, IsRat(x), IsRat(y), x[1] * y[2] = y[1] * x[2]
  PROVE  x = y
<1>1. x \in Int \X Int /\ y \in Int \X Int /\ x[2] > 0 /\ y[2] > 0
  BY DEF IsRat, Fraction
<1>2. PICK k \in Int : y[2] = x[2] * k
  BY DenominatorDivides
<1>3. PICK j \in Int : x[2] = y[2] * j
  <2>1. y[1] * x[2] = x[1] * y[2]
    OBVIOUS
  <2> QED
    BY <2>1, DenominatorDivides
<1> DEFINE p == x[1]  q == x[2]  u == y[1]  v == y[2]
<1>4. p \in Int /\ q \in Int /\ u \in Int /\ v \in Int /\ q > 0 /\ v > 0 /\ p * v = u * q
  BY <1>1
<1>5. v = q * k /\ q = v * j
  BY <1>2, <1>3
<1> HIDE DEF p, q, u, v
<1>6. q <= v /\ v <= q
  BY <1>4, <1>5
<1>7. q = v /\ p = u
  BY <1>4, <1>6
<1> QED
  BY <1>1, <1>7 DEF p, q, u, v

\* A nonzero factor cancels.
LEMMA CancelFactor ==
  ASSUME NEW a \in Int, NEW b \in Int, NEW k \in Int, k # 0, a * k = b * k
  PROVE  a = b
OBVIOUS

\* Two rationals that stand for fractions of the same value are equal.
LEMMA StandsEqual ==
  ASSUME NEW x, NEW y, NEW n, NEW d, NEW m, NEW e, Stands(x, n, d), Stands(y, m, e), n * e = m * d
  PROVE  x = y
<1> DEFINE p == x[1]  q == x[2]  u == y[1]  v == y[2]
<1>1. p \in Int /\ q \in Int /\ u \in Int /\ v \in Int
  BY StandsForItself DEF Stands
<1>2. n \in Int /\ d \in Int \ {0} /\ m \in Int /\ e \in Int \ {0} /\ p * d = n * q /\ u * e = m * v
  BY DEF Stands
<1> HIDE DEF p, q, u, v
<1>3. (p * v) * (d * e) = (u * q) * (d * e)
  <2>1. (p * v) * (d * e) = (p * d) * (v * e)
    BY <1>1, <1>2
  <2>2. (p * d) * (v * e) = (n * q) * (v * e)
    BY <1>1, <1>2
  <2>3. (n * q) * (v * e) = (n * e) * (q * v)
    BY <1>1, <1>2
  <2>4. (n * e) * (q * v) = (m * d) * (q * v)
    BY <1>1, <1>2
  <2>5. (m * d) * (q * v) = (m * v) * (d * q)
    BY <1>1, <1>2
  <2>6. (m * v) * (d * q) = (u * e) * (d * q)
    BY <1>1, <1>2
  <2>7. (u * e) * (d * q) = (u * q) * (d * e)
    BY <1>1, <1>2
  <2> QED
    BY <2>1, <2>2, <2>3, <2>4, <2>5, <2>6, <2>7
<1>4. d * e # 0 /\ d * e \in Int
  BY <1>2
<1>5. p * v = u * q
  <2>1. p * v \in Int /\ u * q \in Int
    BY <1>1
  <2> QED
    BY <1>3, <1>4, <2>1, CancelFactor
<1> QED
  BY <1>5, LowestTerms DEF p, q, u, v, Stands

\* What stands for a fraction stands for every fraction of the same value.
LEMMA Restate ==
  ASSUME NEW z, NEW n \in Int, NEW d \in Int \ {0}, NEW m \in Int, NEW e \in Int \ {0},
         Stands(z, n, d), n * e = m * d
  PROVE  Stands(z, m, e)
<1> DEFINE f == z[1]  g == z[2]
<1>1. f \in Int /\ g \in Int /\ f * d = n * g
  BY StandsForItself DEF Stands
<1> HIDE DEF f, g
<1>2. (f * e) * d = (m * g) * d
  <2>1. (f * e) * d = (f * d) * e
    BY <1>1
  <2>2. (f * d) * e = (n * g) * e
    BY <1>1
  <2>3. (n * g) * e = (n * e) * g
    BY <1>1
  <2>4. (n * e) * g = (m * d) * g
    BY <1>1
  <2>5. (m * d) * g = (m * g) * d
    BY <1>1
  <2> QED
    BY <2>1, <2>2, <2>3, <2>4, <2>5
<1>3. f * e = m * g
  <2>1. f * e \in Int /\ m * g \in Int
    BY <1>1
  <2> QED
    BY <1>2, <2>1, CancelFactor
<1> QED
  BY <1>3 DEF Stands, f, g

\* A sum does not depend on the fractions its operands are given as.
LEMMA SumRescales ==
  ASSUME NEW z, NEW p \in Int, NEW q \in Int \ {0}, NEW u \in Int, NEW v \in Int \ {0},
         NEW n \in Int, NEW d \in Int \ {0}, NEW m \in Int, NEW e \in Int \ {0},
         Stands(z, (p * v) + (u * q), q * v), p * d = n * q, u * e = m * v
  PROVE  Stands(z, (n * e) + (m * d), d * e)
<1>1. ((p * v) + (u * q)) * (d * e) = ((n * e) + (m * d)) * (q * v)
  <2>1. ((p * v) + (u * q)) * (d * e) = ((p * d) * (v * e)) + ((u * e) * (q * d))
    OBVIOUS
  <2>2. ((p * d) * (v * e)) + ((u * e) * (q * d)) = ((n * q) * (v * e)) + ((m * v) * (q * d))
    OBVIOUS
  <2>3. ((n * q) * (v * e)) + ((m * v) * (q * d)) = ((n * e) + (m * d)) * (q * v)
    OBVIOUS
  <2> QED
    BY <2>1, <2>2, <2>3
<1>2. (p * v) + (u * q) \in Int /\ q * v \in Int \ {0} /\ (n * e) + (m * d) \in Int /\ d * e \in Int \ {0}
  OBVIOUS
<1> QED
  BY <1>1, <1>2, Restate

\* The operations on values, whatever fractions they are given as.
LEMMA SumStands ==
  ASSUME NEW x, NEW y, NEW n, NEW d, NEW m, NEW e, Stands(x, n, d), Stands(y, m, e)
  PROVE  Stands(x ++ y, (n * e) + (m * d), d * e)
<1> DEFINE p == x[1]  q == x[2]  u == y[1]  v == y[2]  z == x ++ y
<1>1. p \in Int /\ q \in Int \ {0} /\ u \in Int /\ v \in Int \ {0}
  BY StandsForItself DEF Stands
<1>2. n \in Int /\ d \in Int \ {0} /\ m \in Int /\ e \in Int \ {0} /\ p * d = n * q /\ u * e = m * v
  BY DEF Stands
<1>3. z = Frac((p * v) + (u * q), q * v)
  BY StandsForItself DEF plus, ++, Operands, Frac, Stands
<1> HIDE DEF p, q, u, v
<1>4. Stands(z, (p * v) + (u * q), q * v)
  BY <1>1, <1>3, FracStands
<1> HIDE DEF z
<1>5. Stands(z, (n * e) + (m * d), d * e)
  BY <1>1, <1>2, <1>4, SumRescales
<1> QED
  BY <1>5 DEF z

\* Differences, products and quotients.
LEMMA DifferenceStands ==
  ASSUME NEW x, NEW y, NEW n, NEW d, NEW m, NEW e, Stands(x, n, d), Stands(y, m, e)
  PROVE  Stands(x -- y, (n * e) - (m * d), d * e)
<1> DEFINE p == x[1]  q == x[2]  u == y[1]  v == y[2]  z == x -- y
<1>1. p \in Int /\ q \in Int \ {0} /\ u \in Int /\ v \in Int \ {0}
  BY StandsForItself DEF Stands
<1>2. n \in Int /\ d \in Int \ {0} /\ m \in Int /\ e \in Int \ {0} /\ p * d = n * q /\ u * e = m * v
  BY DEF Stands
<1>3. z = Frac((p * v) - (u * q), q * v)
  BY StandsForItself DEF minus, --, Operands, Frac, Stands
<1> HIDE DEF p, q, u, v
<1>4. Stands(z, (p * v) - (u * q), q * v)
  BY <1>1, <1>3, FracStands
<1>5. Stands(z, (p * v) + ((-u) * q), q * v)
  <2>1. (p * v) - (u * q) = (p * v) + ((-u) * q)
    BY <1>1
  <2> QED
    BY <1>4, <2>1
<1>6. (-u) * e = (-m) * v
  <2>1. (-u) * e = -(u * e) /\ (-m) * v = -(m * v)
    BY <1>1, <1>2
  <2> QED
    BY <1>2, <2>1
<1>7. Stands(z, (n * e) + ((-m) * d), d * e)
  <2> HIDE DEF z
  <2> DEFINE uu == -u
             mm == -m
  <2>1. uu \in Int /\ mm \in Int /\ uu * e = mm * v /\ Stands(z, (p * v) + (uu * q), q * v)
    BY <1>1, <1>2, <1>5, <1>6
  <2> HIDE DEF uu, mm
  <2>2. Stands(z, (n * e) + (mm * d), d * e)
    BY <1>1, <1>2, <2>1, SumRescales
  <2> QED
    BY <2>2 DEF mm
<1>8. (n * e) + ((-m) * d) = (n * e) - (m * d)
  BY <1>2
<1> QED
  BY <1>7, <1>8 DEF z

\* Products.
LEMMA ProductStands ==
  ASSUME NEW x, NEW y, NEW n, NEW d, NEW m, NEW e, Stands(x, n, d), Stands(y, m, e)
  PROVE  Stands(x ** y, n * m, d * e)
<1> DEFINE p == x[1]  q == x[2]  u == y[1]  v == y[2]  z == x ** y
<1>1. p \in Int /\ q \in Int \ {0} /\ u \in Int /\ v \in Int \ {0}
  BY StandsForItself DEF Stands
<1>2. n \in Int /\ d \in Int \ {0} /\ m \in Int /\ e \in Int \ {0} /\ p * d = n * q /\ u * e = m * v
  BY DEF Stands
<1>3. z = Frac(p * u, q * v)
  BY StandsForItself DEF times, **, Operands, Frac, Stands
<1> HIDE DEF p, q, u, v
<1>4. Stands(z, p * u, q * v)
  BY <1>1, <1>3, FracStands
<1>5. (p * u) * (d * e) = (n * m) * (q * v)
  <2>1. (p * u) * (d * e) = (p * d) * (u * e)
    BY <1>1, <1>2
  <2>2. (n * m) * (q * v) = (n * q) * (m * v)
    BY <1>1, <1>2
  <2> QED
    BY <1>2, <2>1, <2>2
<1>6. n * m \in Int /\ d * e \in Int \ {0} /\ p * u \in Int /\ q * v \in Int \ {0}
  BY <1>1, <1>2
<1> HIDE DEF z
<1>7. Stands(z, n * m, d * e)
  BY <1>4, <1>5, <1>6, Restate
<1> QED
  BY <1>7 DEF z

\* Quotients, but not by zero.
LEMMA QuotientStands ==
  ASSUME NEW x, NEW y, NEW n, NEW d, NEW m, NEW e, Stands(x, n, d), Stands(y, m, e), m # 0
  PROVE  Stands(x // y, n * e, d * m)
<1> DEFINE p == x[1]  q == x[2]  u == y[1]  v == y[2]  z == x // y
<1>1. p \in Int /\ q \in Int \ {0} /\ u \in Int /\ v \in Int \ {0}
  BY StandsForItself DEF Stands
<1>2. n \in Int /\ d \in Int \ {0} /\ m \in Int \ {0} /\ e \in Int \ {0} /\ p * d = n * q /\ u * e = m * v
  BY DEF Stands
<1>3. z = Frac(p * v, q * u)
  BY StandsForItself DEF over, //, Operands, Frac, Stands
<1> HIDE DEF p, q, u, v
<1>4. u # 0
  <2>1. m * v # 0
    BY <1>1, <1>2
  <2> QED
    BY <1>1, <1>2, <2>1
<1>5. Stands(z, p * v, q * u)
  BY <1>1, <1>3, <1>4, FracStands
<1>6. (p * v) * (d * m) = (n * e) * (q * u)
  <2>1. (p * v) * (d * m) = (p * d) * (m * v)
    BY <1>1, <1>2
  <2>2. (n * e) * (q * u) = (n * q) * (u * e)
    BY <1>1, <1>2
  <2> QED
    BY <1>2, <2>1, <2>2
<1>7. n * e \in Int /\ d * m \in Int \ {0} /\ p * v \in Int /\ q * u \in Int \ {0}
  BY <1>1, <1>2, <1>4
<1> HIDE DEF z
<1>8. Stands(z, n * e, d * m)
  BY <1>5, <1>6, <1>7, Restate
<1> QED
  BY <1>8 DEF z

-----------------------------------------------------------------------------
(* Values over one denominator add like integers *)

\* The values: fractions in lowest terms with a positive denominator.
Rats == {r \in Fraction : IsRat(r)}

\* A value stands for its own numerator and denominator.
LEMMA RatStands ==
  ASSUME NEW x
  PROVE  /\ x \in Rats <=> IsRat(x)
         /\ x \in Rats => Stands(x, x[1], x[2]) /\ x[1] \in Int /\ x[2] \in Nat \ {0}
BY StandsForItself DEF Rats, IsRat

\* A fraction may be expanded.
LEMMA Rescale ==
  ASSUME NEW x, NEW n, NEW d, Stands(x, n, d), NEW k \in Int \ {0}
  PROVE  Stands(x, n * k, d * k)
<1>1. n \in Int /\ d \in Int \ {0}
  BY DEF Stands
<1>2. n * k \in Int /\ d * k \in Int \ {0} /\ n * (d * k) = (n * k) * d
  BY <1>1
<1> QED
  BY <1>1, <1>2, Restate

\* A value with numerator 0 is Zero, and whole numbers are values.
LEMMA Wholes ==
  ASSUME NEW n \in Int
  PROVE  Rat(n) \in Rats /\ Stands(Rat(n), n, 1) /\ \A d \in Int \ {0} : Stands(Rat(n), n * d, d)
<1>1. IsRat(<<n, 1>>)
  <2>1. Abs(n) \in Nat
    BY DEF Abs
  <2>2. (Abs(n) * 0) + (1 * 1) = 1
    BY <2>1
  <2>3. gcd[<<Abs(n), 1>>] = 1
    BY <2>1, <2>2, Coprime
  <2> QED
    BY <2>3 DEF IsRat, Fraction
<1>2. Stands(Rat(n), n, 1)
  BY <1>1 DEF Stands, Rat
<1>3. ASSUME NEW d \in Int \ {0}
      PROVE  Stands(Rat(n), n * d, d)
  <2>1. Stands(Rat(n), n * d, 1 * d)
    BY <1>2, Rescale
  <2> QED
    BY <2>1
<1> QED
  BY <1>1, <1>2, <1>3, RatStands DEF Rat

\* Only zero has numerator 0.
LEMMA NonzeroNumerator ==
  ASSUME NEW y \in Rats
  PROVE  y = Zero <=> y[1] = 0
<1>1. Zero \in Rats /\ Zero[1] = 0 /\ Zero[2] = 1
  BY Wholes DEF Zero, Rat
<1>2. ASSUME y[1] = 0
      PROVE  y = Zero
  <2>1. y[1] * Zero[2] = Zero[1] * y[2]
    BY <1>1, <1>2, RatStands
  <2> QED
    BY <1>1, <2>1, LowestTerms, RatStands
<1> QED
  BY <1>1, <1>2

\* The operations on values give values.
LEMMA RatClosed ==
  ASSUME NEW x \in Rats, NEW y \in Rats
  PROVE  x ++ y \in Rats /\ x -- y \in Rats /\ x ** y \in Rats /\ (y # Zero => x // y \in Rats)
<1>1. Stands(x, x[1], x[2]) /\ Stands(y, y[1], y[2])
  BY RatStands
<1>2. x ++ y \in Rats
  BY <1>1, SumStands, RatStands DEF Stands
<1>3. x -- y \in Rats
  BY <1>1, DifferenceStands, RatStands DEF Stands
<1>4. x ** y \in Rats
  BY <1>1, ProductStands, RatStands DEF Stands
<1>5. ASSUME y # Zero
      PROVE  x // y \in Rats
  <2>1. y[1] # 0
    BY <1>5, NonzeroNumerator
  <2> QED
    BY <1>1, <2>1, QuotientStands, RatStands DEF Stands
<1> QED
  BY <1>2, <1>3, <1>4, <1>5

\* Over one denominator, sums and differences are those of the numerators.
LEMMA SameDenominator ==
  ASSUME NEW x, NEW y, NEW n, NEW m, NEW d, Stands(x, n, d), Stands(y, m, d)
  PROVE  Stands(x ++ y, n + m, d) /\ Stands(x -- y, n - m, d)
<1>1. n \in Int /\ m \in Int /\ d \in Int \ {0}
  BY DEF Stands
<1>2. Stands(x ++ y, (n * d) + (m * d), d * d) /\ Stands(x -- y, (n * d) - (m * d), d * d)
  BY SumStands, DifferenceStands
<1>3. /\ (n * d) + (m * d) \in Int /\ (n * d) - (m * d) \in Int /\ d * d \in Int \ {0}
      /\ n + m \in Int /\ n - m \in Int
      /\ ((n * d) + (m * d)) * d = (n + m) * (d * d)
      /\ ((n * d) - (m * d)) * d = (n - m) * (d * d)
  BY <1>1
<1> QED
  BY <1>1, <1>2, <1>3, Restate

\* One fraction is one value.
LEMMA SameDenominatorEqual ==
  ASSUME NEW x, NEW y, NEW n, NEW d, Stands(x, n, d), Stands(y, n, d)
  PROVE  x = y
BY StandsEqual DEF Stands

\* Any two values, three or four have a common positive denominator.
LEMMA Common2 ==
  ASSUME NEW x \in Rats, NEW y \in Rats
  PROVE  \E d \in Nat \ {0}, a \in Int, b \in Int : Stands(x, a, d) /\ Stands(y, b, d)
<1> DEFINE n == x[1]  d == x[2]  m == y[1]  e == y[2]
<1>1. Stands(x, n, d) /\ Stands(y, m, e) /\ n \in Int /\ d \in Nat \ {0} /\ m \in Int /\ e \in Nat \ {0}
  BY RatStands
<1> HIDE DEF n, d, m, e
<1>2. Stands(x, n * e, d * e) /\ Stands(y, m * d, e * d)
  BY <1>1, Rescale
<1>3. e * d = d * e /\ d * e \in Nat \ {0} /\ n * e \in Int /\ m * d \in Int
  BY <1>1
<1> QED
  BY <1>2, <1>3

\* Three values.
LEMMA Common3 ==
  ASSUME NEW x \in Rats, NEW y \in Rats, NEW z \in Rats
  PROVE  \E d \in Nat \ {0}, a \in Int, b \in Int, c \in Int :
           Stands(x, a, d) /\ Stands(y, b, d) /\ Stands(z, c, d)
<1>1. PICK d \in Nat \ {0}, a \in Int, b \in Int : Stands(x, a, d) /\ Stands(y, b, d)
  BY Common2
<1> DEFINE m == z[1]  e == z[2]
<1>2. Stands(z, m, e) /\ m \in Int /\ e \in Nat \ {0}
  BY RatStands
<1> HIDE DEF m, e
<1>3. Stands(x, a * e, d * e) /\ Stands(y, b * e, d * e) /\ Stands(z, m * d, e * d)
  BY <1>1, <1>2, Rescale
<1>4. e * d = d * e /\ d * e \in Nat \ {0} /\ a * e \in Int /\ b * e \in Int /\ m * d \in Int
  BY <1>2
<1> QED
  BY <1>3, <1>4

\* Four values.
LEMMA Common4 ==
  ASSUME NEW x \in Rats, NEW y \in Rats, NEW z \in Rats, NEW w \in Rats
  PROVE  \E d \in Nat \ {0}, a \in Int, b \in Int, c \in Int, f \in Int :
           Stands(x, a, d) /\ Stands(y, b, d) /\ Stands(z, c, d) /\ Stands(w, f, d)
<1>1. PICK d \in Nat \ {0}, a \in Int, b \in Int, c \in Int :
           Stands(x, a, d) /\ Stands(y, b, d) /\ Stands(z, c, d)
  BY Common3
<1> DEFINE m == w[1]  e == w[2]
<1>2. Stands(w, m, e) /\ m \in Int /\ e \in Nat \ {0}
  BY RatStands
<1> HIDE DEF m, e
<1>3. Stands(x, a * e, d * e) /\ Stands(y, b * e, d * e) /\ Stands(z, c * e, d * e) /\ Stands(w, m * d, e * d)
  BY <1>1, <1>2, Rescale
<1>4. e * d = d * e /\ d * e \in Nat \ {0} /\ a * e \in Int /\ b * e \in Int /\ c * e \in Int /\ m * d \in Int
  BY <1>2
<1> QED
  BY <1>3, <1>4
=============================================================================
