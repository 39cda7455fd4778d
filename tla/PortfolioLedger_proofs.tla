----------------------- MODULE PortfolioLedger_proofs -----------------------
(***************************************************************************)
(* Safety of a portfolio's books, for any symbols, prices, quantities and  *)
(* fees, any kinds of mutations and any number of commits.                 *)
(*                                                                         *)
(* Every handler commits a plan, and every plan is one of three things:    *)
(* an ordinary one, which keeps the form of a book, moves the cash its     *)
(* legs say and changes what the book is worth at cost by what they gain   *)
(* (Whole); a reshaping by hand, which records nothing; or the correction  *)
(* of a trade, one leg in the place of another (Corrects).  What a plan is *)
(* follows from the arithmetic of its rows, once for each plan operator;   *)
(* Steps puts them together: every step commits a plan that is what its    *)
(* kind asks for (Facts), or is one of the background's.  The invariants   *)
(* are proved from that alone:                                             *)
(*   LedgerInv     types, and no debt;                                     *)
(*   Costed        no row was ever bought for less than nothing;           *)
(*   CashIsRecorded  the balance is the sum of what the legs say of cash;  *)
(*   ClosedInv     the last leg of a closed episode is not a purchase;     *)
(*   GainsExplain  cash and cost together are the sum of the gains;        *)
(*   RankedInv     a book with something in it has an active ranked state. *)
(***************************************************************************)
EXTENDS PortfolioLedger, Lemmas, SequenceTheorems

-----------------------------------------------------------------------------
(* Sums and signs of values *)

\* The running sums of Total.
Sums(v) == CHOOSE f : f = [n \in 0..Len(v) |-> IF n = 0 THEN Zero ELSE f[n - 1] ++ v[n]]

\* The running sums exist, so the CHOOSE of Sums finds them.
LEMMA SumsExist ==
  ASSUME NEW v \in Seq(Rats)
  PROVE  Sums(v) = [n \in 0..Len(v) |-> IF n = 0 THEN Zero ELSE Sums(v)[n - 1] ++ v[n]]
<1> DEFINE Runs(f, k) == f = [n \in 0..k |-> IF n = 0 THEN Zero ELSE f[n - 1] ++ v[n]]
           Bad == {k \in Nat : ~\E f : Runs(f, k)}
<1>1. \E f : Runs(f, 0)
  <2> DEFINE g == [n \in 0..0 |-> Zero]
  <2>1. 0..0 = {0}
    OBVIOUS
  <2>2. g = [n \in 0..0 |-> IF n = 0 THEN Zero ELSE g[n - 1] ++ v[n]]
    BY <2>1
  <2> QED
    BY <2>2, Zenon
<1>2. ASSUME NEW k \in Nat \ {0}, NEW f, Runs(f, k - 1)
      PROVE  \E h : Runs(h, k)
  <2> DEFINE h == [n \in 0..k |-> IF n = k THEN f[k - 1] ++ v[k] ELSE f[n]]
  <2>1. \A n \in 0..(k - 1) : f[n] = IF n = 0 THEN Zero ELSE f[n - 1] ++ v[n]
    BY <1>2
  <2>2. \A n \in 0..k : n # 0 => n - 1 \in 0..(k - 1) /\ n - 1 \in 0..k /\ n - 1 # k
    OBVIOUS
  <2>3. \A n \in 0..k : n # k => n \in 0..(k - 1)
    OBVIOUS
  <2>4. \A n \in 0..k : h[n] = IF n = 0 THEN Zero ELSE h[n - 1] ++ v[n]
    <3> SUFFICES ASSUME NEW n \in 0..k
                 PROVE  h[n] = IF n = 0 THEN Zero ELSE h[n - 1] ++ v[n]
      OBVIOUS
    <3>1. n # 0 => h[n - 1] = f[n - 1]
      BY <2>2
    <3>2. CASE n = k
      BY <3>1, <3>2
    <3>3. CASE n # k
      BY <2>1, <2>3, <3>1, <3>3
    <3> QED
      BY <3>2, <3>3
  <2>5. h = [n \in 0..k |-> IF n = 0 THEN Zero ELSE h[n - 1] ++ v[n]]
    <3>1. h = [n \in 0..k |-> h[n]]
      OBVIOUS
    <3> HIDE DEF h
    <3> QED
      BY <2>4, <3>1
  <2> HIDE DEF h
  <2> QED
    BY <2>5
<1>3. Bad = {}
  <2> SUFFICES ASSUME Bad # {}
               PROVE  FALSE
    OBVIOUS
  <2>1. Bad \in SUBSET Nat
    OBVIOUS
  <2>2. PICK k \in Bad : \A j \in Bad : k <= j
    <3> HIDE DEF Bad
    <3> QED
      BY <2>1, LeastNatural
  <2>3. k \in Nat /\ ~\E f : Runs(f, k)
    OBVIOUS
  <2>4. k # 0
    BY <1>1, <2>3
  <2>5. k - 1 \in Nat /\ k - 1 \notin Bad
    <3> HIDE DEF Bad
    <3> QED
      BY <2>2, <2>3, <2>4
  <2>6. PICK f : Runs(f, k - 1)
    BY <2>5
  <2>7. k \in Nat \ {0}
    BY <2>3, <2>4
  <2> HIDE DEF Runs
  <2> QED
    BY <1>2, <2>3, <2>6, <2>7
<1>4. PICK g : Runs(g, Len(v))
  <2>1. Len(v) \in Nat
    OBVIOUS
  <2>2. Len(v) \notin Bad
    BY <1>3
  <2> QED
    BY <2>1, <2>2
<1>5. \E f : f = [n \in 0..Len(v) |-> IF n = 0 THEN Zero ELSE f[n - 1] ++ v[n]]
  BY <1>4
<1> QED
  BY <1>5, Zenon DEF Sums

\* They begin with zero, each adds one term, and the last is Total.
LEMMA SumsAre ==
  ASSUME NEW v \in Seq(Rats)
  PROVE  /\ Sums(v)[0] = Zero
         /\ \A n \in 1..Len(v) : Sums(v)[n] = Sums(v)[n - 1] ++ v[n]
         /\ Total(v) = Sums(v)[Len(v)]
<1>1. Len(v) \in Nat /\ 0 \in 0..Len(v) /\ \A n \in 1..Len(v) : n \in 0..Len(v) /\ n # 0
  OBVIOUS
<1> DEFINE f == Sums(v)
<1>2. f = [n \in 0..Len(v) |-> IF n = 0 THEN Zero ELSE f[n - 1] ++ v[n]]
  BY SumsExist
<1>3. Total(v) = f[Len(v)]
  BY DEF Total, Sums
<1> HIDE DEF f
<1>4. f[0] = Zero /\ \A n \in 1..Len(v) : f[n] = f[n - 1] ++ v[n]
  BY <1>1, <1>2
<1> QED
  BY <1>3, <1>4 DEF f

\* Two sequences that agree up to n have the same sum up to n, and it is a value.
LEMMA SumsAgree ==
  ASSUME NEW v \in Seq(Rats), NEW w \in Seq(Rats), NEW n \in Nat, n <= Len(v), n <= Len(w),
         \A k \in 1..n : v[k] = w[k]
  PROVE  Sums(v)[n] = Sums(w)[n] /\ Sums(v)[n] \in Rats
<1> DEFINE Bad == {k \in Nat : k <= n /\ ~(Sums(v)[k] = Sums(w)[k] /\ Sums(v)[k] \in Rats)}
<1>1. Zero \in Rats
  BY Wholes DEF Zero
<1>2. Bad = {}
  <2> SUFFICES ASSUME Bad # {}
               PROVE  FALSE
    OBVIOUS
  <2>1. PICK k \in Bad : \A j \in Bad : k <= j
    <3>1. Bad \in SUBSET Nat
      OBVIOUS
    <3> HIDE DEF Bad
    <3> QED
      BY <3>1, LeastNatural
  <2>2. k \in Nat /\ k <= n /\ ~(Sums(v)[k] = Sums(w)[k] /\ Sums(v)[k] \in Rats)
    OBVIOUS
  <2>3. k # 0
    BY <1>1, <2>2, SumsAre
  <2>4. k - 1 \in Nat /\ k - 1 <= n /\ k - 1 \notin Bad
    BY <2>1, <2>2, <2>3
  <2>5. Sums(v)[k - 1] = Sums(w)[k - 1] /\ Sums(v)[k - 1] \in Rats
    BY <2>4
  <2>6. k \in 1..Len(v) /\ k \in 1..Len(w) /\ k \in 1..n
    BY <2>2, <2>3
  <2>7. Sums(v)[k] = Sums(v)[k - 1] ++ v[k] /\ Sums(w)[k] = Sums(w)[k - 1] ++ w[k]
    BY <2>6, SumsAre
  <2>8. v[k] \in Rats /\ v[k] = w[k]
    BY <2>6
  <2> QED
    BY <2>2, <2>5, <2>7, <2>8, RatClosed
<1> QED
  BY <1>2

\* A sum of values is a value.
LEMMA TotalIsRat ==
  ASSUME NEW v \in Seq(Rats)
  PROVE  Total(v) \in Rats
<1>1. Len(v) \in Nat
  OBVIOUS
<1> QED
  BY <1>1, SumsAgree, SumsAre

\* The sum of nothing is zero.
LEMMA TotalEmpty == Total(<<>>) = Zero
<1>1. <<>> \in Seq(Rats) /\ Len(<<>>) = 0
  OBVIOUS
<1> QED
  BY <1>1, SumsAre

\* One more term is added.
LEMMA TotalAppend ==
  ASSUME NEW v \in Seq(Rats), NEW x \in Rats
  PROVE  Append(v, x) \in Seq(Rats) /\ Total(Append(v, x)) = Total(v) ++ x
<1> DEFINE w == Append(v, x)
           n == Len(v)
<1>1. n \in Nat /\ w \in Seq(Rats) /\ Len(w) = n + 1 /\ w[n + 1] = x /\ \A k \in 1..n : w[k] = v[k]
  OBVIOUS
<1> HIDE DEF w
<1>2. Sums(w)[n] = Sums(v)[n]
  BY <1>1, SumsAgree
<1>3. Sums(w)[n + 1] = Sums(w)[n] ++ x
  BY <1>1, SumsAre
<1> QED
  BY <1>1, <1>2, <1>3, SumsAre DEF w

(* The group laws of values *)

\* Zero is a value, over any denominator.
LEMMA ZeroIsRat == Zero \in Rats /\ \A d \in Int \ {0} : Stands(Zero, 0, d)
BY Wholes DEF Zero

\* Zero is neutral, and a value less itself is zero.
LEMMA AddZero ==
  ASSUME NEW x \in Rats
  PROVE  x ++ Zero = x /\ Zero ++ x = x /\ x -- Zero = x /\ x -- x = Zero
<1>1. PICK d \in Nat \ {0}, a \in Int, b \in Int : Stands(x, a, d) /\ Stands(Zero, b, d)
  BY Common2, ZeroIsRat
<1>2. Stands(Zero, 0, d) /\ Stands(Zero, a - a, d)
  BY ZeroIsRat
<1>3. Stands(x ++ Zero, a + 0, d) /\ Stands(Zero ++ x, 0 + a, d) /\ Stands(x -- Zero, a - 0, d)
      /\ Stands(x -- x, a - a, d)
  BY <1>1, <1>2, SameDenominator
<1>4. a + 0 = a /\ 0 + a = a /\ a - 0 = a
  OBVIOUS
<1> QED
  BY <1>1, <1>2, <1>3, <1>4, SameDenominatorEqual

\* Addition commutes.
LEMMA AddCommutes ==
  ASSUME NEW x \in Rats, NEW y \in Rats
  PROVE  x ++ y = y ++ x
<1>1. PICK d \in Nat \ {0}, a \in Int, b \in Int : Stands(x, a, d) /\ Stands(y, b, d)
  BY Common2
<1>2. Stands(x ++ y, a + b, d) /\ Stands(y ++ x, b + a, d)
  BY <1>1, SameDenominator
<1>3. a + b = b + a
  OBVIOUS
<1> QED
  BY <1>2, <1>3, SameDenominatorEqual

\* Addition associates.
LEMMA AddAssociates ==
  ASSUME NEW x \in Rats, NEW y \in Rats, NEW z \in Rats
  PROVE  (x ++ y) ++ z = x ++ (y ++ z)
<1>1. PICK d \in Nat \ {0}, a \in Int, b \in Int, c \in Int :
        Stands(x, a, d) /\ Stands(y, b, d) /\ Stands(z, c, d)
  BY Common3
<1>2. Stands((x ++ y) ++ z, (a + b) + c, d) /\ Stands(x ++ (y ++ z), a + (b + c), d)
  BY <1>1, SameDenominator
<1>3. (a + b) + c = a + (b + c)
  OBVIOUS
<1> QED
  BY <1>2, <1>3, SameDenominatorEqual

\* The sum of two sequences is the sum of their sums.
LEMMA TotalConcat ==
  ASSUME NEW v \in Seq(Rats), NEW w \in Seq(Rats)
  PROVE  v \o w \in Seq(Rats) /\ Total(v \o w) = Total(v) ++ Total(w)
<1> DEFINE u == v \o w
           n == Len(v)
           Bad == {k \in Nat : k <= Len(w) /\ ~(Sums(u)[n + k] = Total(v) ++ Sums(w)[k])}
<1>1. /\ n \in Nat /\ Len(w) \in Nat /\ u \in Seq(Rats) /\ Len(u) = n + Len(w)
      /\ \A k \in 1..n : u[k] = v[k]
      /\ \A k \in 1..Len(w) : u[n + k] = w[k]
  <2>1. \A k \in 1..Len(w) : n + k > n /\ n + k <= n + Len(w) /\ (n + k) - n = k
    OBVIOUS
  <2> QED
    BY <2>1
<1> HIDE DEF u
<1>2. Sums(u)[n] = Sums(v)[n] /\ Total(v) = Sums(v)[n] /\ Total(v) \in Rats
  <2>1. n <= Len(u) /\ n <= Len(v) /\ \A k \in 1..n : v[k] = u[k]
    BY <1>1
  <2>2. Sums(v)[n] = Sums(u)[n] /\ Sums(v)[n] \in Rats
    BY <1>1, <2>1, SumsAgree
  <2> QED
    BY <2>2, SumsAre
<1>3. Bad = {}
  <2> SUFFICES ASSUME Bad # {}
               PROVE  FALSE
    OBVIOUS
  <2>1. PICK k \in Bad : \A j \in Bad : k <= j
    <3>1. Bad \in SUBSET Nat
      OBVIOUS
    <3> HIDE DEF Bad
    <3> QED
      BY <3>1, LeastNatural
  <2>2. k \in Nat /\ k <= Len(w) /\ Sums(u)[n + k] # Total(v) ++ Sums(w)[k]
    OBVIOUS
  <2>3. k # 0
    <3>1. Sums(w)[0] = Zero /\ n + 0 = n
      BY <1>1, SumsAre
    <3> QED
      BY <1>2, <2>2, <3>1, AddZero
  <2>4. k - 1 \in Nat /\ k - 1 <= Len(w) /\ k - 1 \notin Bad
    <3> HIDE DEF Bad
    <3> QED
      BY <1>1, <2>1, <2>2, <2>3
  <2>5. Sums(u)[n + (k - 1)] = Total(v) ++ Sums(w)[k - 1]
    BY <2>4
  <2>6. k \in 1..Len(w) /\ n + k \in 1..Len(u) /\ (n + k) - 1 = n + (k - 1)
    BY <1>1, <2>2, <2>3
  <2>7. Sums(u)[n + k] = Sums(u)[n + (k - 1)] ++ u[n + k] /\ Sums(w)[k] = Sums(w)[k - 1] ++ w[k]
    BY <1>1, <2>6, SumsAre
  <2>8. u[n + k] = w[k] /\ w[k] \in Rats
    BY <1>1, <2>6
  <2>9. Sums(w)[k - 1] \in Rats
    BY <2>4, SumsAgree
  <2> QED
    BY <1>2, <2>2, <2>5, <2>7, <2>8, <2>9, AddAssociates
<1>4. Sums(u)[n + Len(w)] = Total(v) ++ Sums(w)[Len(w)]
  <2>1. Len(w) \notin Bad
    BY <1>3
  <2> QED
    BY <1>1, <2>1
<1> QED
  BY <1>1, <1>4, SumsAre DEF u

\* Changing one term changes the sum by as much.
LEMMA ReplacesOne ==
  ASSUME NEW x \in Rats, NEW y \in Rats, NEW z \in Rats
  PROVE  /\ ((x -- y) ++ z) = ((x ++ z) -- y)
         /\ ((x ++ y) -- y) ++ z = x ++ z
<1>1. PICK d \in Nat \ {0}, a \in Int, b \in Int, c \in Int :
        Stands(x, a, d) /\ Stands(y, b, d) /\ Stands(z, c, d)
  BY Common3
<1>2. /\ Stands((x -- y) ++ z, (a - b) + c, d) /\ Stands((x ++ z) -- y, (a + c) - b, d)
      /\ Stands(((x ++ y) -- y) ++ z, ((a + b) - b) + c, d) /\ Stands(x ++ z, a + c, d)
  BY <1>1, SameDenominator
<1>3. (a - b) + c = (a + c) - b /\ ((a + b) - b) + c = a + c
  OBVIOUS
<1> QED
  BY <1>2, <1>3, SameDenominatorEqual

\* Four summands may change partners.
LEMMA Interchange ==
  ASSUME NEW x \in Rats, NEW y \in Rats, NEW z \in Rats, NEW w \in Rats
  PROVE  (x ++ y) ++ (z ++ w) = (x ++ z) ++ (y ++ w)
<1>1. PICK d \in Nat \ {0}, a \in Int, b \in Int, c \in Int, e \in Int :
        Stands(x, a, d) /\ Stands(y, b, d) /\ Stands(z, c, d) /\ Stands(w, e, d)
  BY Common4
<1>2. /\ Stands((x ++ y) ++ (z ++ w), (a + b) + (c + e), d)
      /\ Stands((x ++ z) ++ (y ++ w), (a + c) + (b + e), d)
  BY <1>1, SameDenominator
<1>3. (a + b) + (c + e) = (a + c) + (b + e)
  OBVIOUS
<1> QED
  BY <1>2, <1>3, SameDenominatorEqual

\* A later summand may be added before an earlier one is exchanged.
LEMMA ShiftedSum ==
  ASSUME NEW x \in Rats, NEW y \in Rats, NEW z \in Rats, NEW w \in Rats
  PROVE  ((x -- y) ++ z) ++ w = ((x ++ w) -- y) ++ z
<1>1. PICK d \in Nat \ {0}, a \in Int, b \in Int, c \in Int, e \in Int :
        Stands(x, a, d) /\ Stands(y, b, d) /\ Stands(z, c, d) /\ Stands(w, e, d)
  BY Common4
<1>2. /\ Stands(((x -- y) ++ z) ++ w, ((a - b) + c) + e, d)
      /\ Stands(((x ++ w) -- y) ++ z, ((a + e) - b) + c, d)
  BY <1>1, SameDenominator
<1>3. ((a - b) + c) + e = ((a + e) - b) + c
  OBVIOUS
<1> QED
  BY <1>2, <1>3, SameDenominatorEqual

\* Changing one term of a sequence changes its sum by as much.
LEMMA TotalReplace ==
  ASSUME NEW v \in Seq(Rats), NEW w \in Seq(Rats), NEW i \in 1..Len(v), Len(w) = Len(v),
         \A k \in 1..Len(v) : k # i => w[k] = v[k]
  PROVE  Total(w) = (Total(v) -- v[i]) ++ w[i]
<1> DEFINE Bad == {k \in Nat : i <= k /\ k <= Len(v) /\ Sums(w)[k] # (Sums(v)[k] -- v[i]) ++ w[i]}
<1>1. Len(v) \in Nat /\ i \in Nat /\ i - 1 \in Nat /\ i - 1 <= Len(v) /\ v[i] \in Rats /\ w[i] \in Rats
  OBVIOUS
<1>2. Bad = {}
  <2> SUFFICES ASSUME Bad # {}
               PROVE  FALSE
    OBVIOUS
  <2>1. PICK k \in Bad : \A j \in Bad : k <= j
    <3>1. Bad \in SUBSET Nat
      OBVIOUS
    <3> HIDE DEF Bad
    <3> QED
      BY <3>1, LeastNatural
  <2>2. k \in Nat /\ i <= k /\ k <= Len(v) /\ Sums(w)[k] # (Sums(v)[k] -- v[i]) ++ w[i]
    OBVIOUS
  <2>3. k \in 1..Len(v) /\ k - 1 \in Nat /\ k - 1 <= Len(v)
    BY <1>1, <2>2
  <2>4. Sums(v)[k] = Sums(v)[k - 1] ++ v[k] /\ Sums(w)[k] = Sums(w)[k - 1] ++ w[k]
    BY <2>3, SumsAre
  <2>5. Sums(v)[k - 1] \in Rats
    BY <2>3, SumsAgree
  <2>6. CASE k = i
    <3>1. Sums(w)[k - 1] = Sums(v)[k - 1]
      <4>1. \A j \in 1..(k - 1) : v[j] = w[j]
        BY <1>1, <2>3, <2>6
      <4> QED
        BY <2>3, <4>1, SumsAgree
    <3> QED
      BY <1>1, <2>2, <2>4, <2>5, <2>6, <3>1, ReplacesOne
  <2>7. CASE k # i
    <3>1. k - 1 \notin Bad
      <4> HIDE DEF Bad
      <4> QED
        BY <2>1, <2>3
    <3>2. i <= k - 1
      BY <1>1, <2>2, <2>7
    <3>3. Sums(w)[k - 1] = (Sums(v)[k - 1] -- v[i]) ++ w[i]
      BY <2>3, <3>1, <3>2
    <3>4. w[k] = v[k] /\ v[k] \in Rats
      BY <2>3, <2>7
    <3> QED
      BY <1>1, <2>2, <2>4, <2>5, <3>3, <3>4, ShiftedSum
  <2> QED
    BY <2>6, <2>7
<1>3. Sums(w)[Len(v)] = (Sums(v)[Len(v)] -- v[i]) ++ w[i]
  <2>1. Len(v) \notin Bad
    BY <1>2
  <2> QED
    BY <1>1, <2>1
<1> QED
  BY <1>3, SumsAre

\* A sum of sums, term by term.
LEMMA TotalPointwise ==
  ASSUME NEW v \in Seq(Rats), NEW w \in Seq(Rats), NEW u \in Seq(Rats),
         Len(w) = Len(v), Len(u) = Len(v), \A k \in 1..Len(v) : u[k] = v[k] ++ w[k]
  PROVE  Total(u) = Total(v) ++ Total(w)
<1> DEFINE Bad == {k \in Nat : k <= Len(v) /\ Sums(u)[k] # Sums(v)[k] ++ Sums(w)[k]}
<1>1. Len(v) \in Nat
  OBVIOUS
<1>2. Bad = {}
  <2> SUFFICES ASSUME Bad # {}
               PROVE  FALSE
    OBVIOUS
  <2>1. PICK k \in Bad : \A j \in Bad : k <= j
    <3>1. Bad \in SUBSET Nat
      OBVIOUS
    <3> HIDE DEF Bad
    <3> QED
      BY <3>1, LeastNatural
  <2>2. k \in Nat /\ k <= Len(v) /\ Sums(u)[k] # Sums(v)[k] ++ Sums(w)[k]
    OBVIOUS
  <2>3. k # 0
    BY <2>2, SumsAre, AddZero, ZeroIsRat
  <2>4. k \in 1..Len(v) /\ k - 1 \in Nat /\ k - 1 <= Len(v)
    BY <1>1, <2>2, <2>3
  <2>5. /\ Sums(v)[k] = Sums(v)[k - 1] ++ v[k] /\ Sums(w)[k] = Sums(w)[k - 1] ++ w[k]
        /\ Sums(u)[k] = Sums(u)[k - 1] ++ u[k]
    BY <2>4, SumsAre
  <2>6. Sums(v)[k - 1] \in Rats /\ Sums(w)[k - 1] \in Rats /\ v[k] \in Rats /\ w[k] \in Rats
    BY <2>4, SumsAgree
  <2>7. Sums(u)[k - 1] = Sums(v)[k - 1] ++ Sums(w)[k - 1]
    <3>1. k - 1 \notin Bad
      <4> HIDE DEF Bad
      <4> QED
        BY <2>1, <2>4
    <3> QED
      BY <2>4, <3>1
  <2>8. u[k] = v[k] ++ w[k]
    BY <2>4
  <2>9. Sums(u)[k] = (Sums(v)[k - 1] ++ Sums(w)[k - 1]) ++ (v[k] ++ w[k])
    BY <2>5, <2>7, <2>8
  <2>10. Sums(u)[k] = (Sums(v)[k - 1] ++ v[k]) ++ (Sums(w)[k - 1] ++ w[k])
    <3> DEFINE a == Sums(v)[k - 1]  b == Sums(w)[k - 1]  c == v[k]  e == w[k]
    <3>1. a \in Rats /\ b \in Rats /\ c \in Rats /\ e \in Rats
      BY <2>6
    <3> HIDE DEF a, b, c, e, Bad
    <3>2. (a ++ b) ++ (c ++ e) = (a ++ c) ++ (b ++ e)
      BY <3>1, Interchange
    <3> QED
      BY <2>9, <3>2 DEF a, b, c, e
  <2> QED
    BY <2>2, <2>5, <2>10
<1>3. Len(v) \notin Bad
  BY <1>2
<1> QED
  BY <1>1, <1>3, SumsAre

(* Signs and order *)

\* A positive factor on either side keeps signs.
LEMMA SameSign ==
  ASSUME NEW s \in Int, NEW t \in Int, NEW k \in Nat \ {0}, NEW j \in Nat \ {0}, s * k = t * j
  PROVE  (s <= 0 <=> t <= 0) /\ (s < 0 <=> t < 0) /\ (s > 0 <=> t > 0) /\ (s = 0 <=> t = 0)
<1>1. (s > 0 => s * k > 0) /\ (s < 0 => s * k < 0) /\ (s = 0 => s * k = 0)
  OBVIOUS
<1>2. (t > 0 => t * j > 0) /\ (t < 0 => t * j < 0) /\ (t = 0 => t * j = 0)
  OBVIOUS
<1> QED
  BY <1>1, <1>2

\* Over one denominator values compare like their numerators.
LEMMA OverOneDenominator ==
  ASSUME NEW x, NEW y, NEW a, NEW b, NEW d \in Nat \ {0}, Stands(x, a, d), Stands(y, b, d)
  PROVE  /\ x \preceq y <=> a <= b
         /\ x \prec y <=> a < b
         /\ x = y <=> a = b
         /\ Positive(x) <=> a > 0
         /\ x = Zero <=> a = 0
<1> DEFINE p == x[1]  q == x[2]  u == y[1]  v == y[2]
<1>1. /\ p \in Int /\ q \in Nat \ {0} /\ u \in Int /\ v \in Nat \ {0} /\ a \in Int /\ b \in Int
      /\ p * d = a * q /\ u * d = b * v /\ x \in Rats /\ y \in Rats
      /\ x \in Fraction /\ y \in Fraction
  BY StandsForItself, RatStands DEF Stands
<1>2. /\ x \preceq y <=> (p * v) - (u * q) <= 0
      /\ x \prec y <=> (p * v) - (u * q) < 0
      /\ Positive(x) <=> p > 0
      /\ x = Zero <=> p = 0
  BY <1>1, NonzeroNumerator DEF \preceq, \prec, compare, Operands, Positive
<1> HIDE DEF p, q, u, v
<1>3. ((p * v) - (u * q)) * d = (a - b) * (q * v)
  <2>1. ((p * v) - (u * q)) * d = ((p * d) * v) - ((u * d) * q)
    BY <1>1
  <2>2. ((p * d) * v) - ((u * d) * q) = ((a * q) * v) - ((b * v) * q)
    BY <1>1
  <2>3. ((a * q) * v) - ((b * v) * q) = (a - b) * (q * v)
    BY <1>1
  <2> QED
    BY <2>1, <2>2, <2>3
<1>4. /\ (p * v) - (u * q) \in Int /\ a - b \in Int /\ q * v \in Nat \ {0}
      /\ (a - b <= 0 <=> a <= b) /\ (a - b < 0 <=> a < b)
  BY <1>1
<1>5. /\ (p * v) - (u * q) <= 0 <=> a - b <= 0
      /\ (p * v) - (u * q) < 0 <=> a - b < 0
  BY <1>3, <1>4, SameSign
<1>6. (p > 0 <=> a > 0) /\ (p = 0 <=> a = 0)
  <2>1. (p > 0 <=> a > 0) /\ (p = 0 <=> a = 0)
    BY <1>1, SameSign
  <2> QED
    BY <2>1
<1>7. x = y <=> a = b
  <2>1. x = y => a = b
    <3>1. x = y => p = u /\ q = v
      BY DEF p, q, u, v
    <3>2. p = u /\ q = v => a * q = b * q
      BY <1>1
    <3> QED
      BY <1>1, <3>1, <3>2, CancelFactor
  <2>2. a = b => x = y
    BY SameDenominatorEqual
  <2> QED
    BY <2>1, <2>2
<1> QED
  BY <1>2, <1>4, <1>5, <1>6, <1>7

\* The signs of sums, products, quotients and differences.
LEMMA SignsOfRats ==
  ASSUME NEW x \in Rats, NEW y \in Rats
  PROVE  /\ Positive(x) => x # Zero /\ Zero \preceq x /\ Zero \prec x
         /\ Zero \preceq x /\ x # Zero => Positive(x)
         /\ Positive(x) /\ Positive(y) => Positive(x ++ y) /\ Positive(x ** y) /\ Positive(x // y)
         /\ Zero \preceq x /\ Zero \preceq y => Zero \preceq (x ++ y) /\ Zero \preceq (x ** y)
         /\ Positive(x) /\ Zero \preceq y => Positive(x ++ y) /\ Zero \preceq (y // x)
         /\ y \preceq x => Zero \preceq (x -- y)
         /\ y \preceq x /\ x # y => Positive(x -- y)
<1>1. PICK d \in Nat \ {0}, a \in Int, b \in Int : Stands(x, a, d) /\ Stands(y, b, d)
  BY Common2
<1>2. Stands(Zero, 0, d) /\ Zero \in Rats /\ 0 \in Int
  BY ZeroIsRat
<1>3. /\ (Zero \preceq x <=> 0 <= a) /\ (Zero \prec x <=> 0 < a) /\ (Positive(x) <=> a > 0) /\ (x = Zero <=> a = 0)
      /\ (Zero \preceq y <=> 0 <= b) /\ (Positive(y) <=> b > 0) /\ (y = Zero <=> b = 0)
      /\ (y \preceq x <=> b <= a) /\ (x = y <=> a = b)
  BY <1>1, <1>2, OverOneDenominator
<1>4. /\ Positive(x ++ y) <=> a + b > 0
      /\ Zero \preceq (x ++ y) <=> 0 <= a + b
      /\ Positive(x -- y) <=> a - b > 0
      /\ Zero \preceq (x -- y) <=> 0 <= a - b
  <2>1. Stands(x ++ y, a + b, d) /\ Stands(x -- y, a - b, d)
    BY <1>1, SameDenominator
  <2> QED
    BY <1>2, <2>1, OverOneDenominator
<1>5. (Positive(x ** y) <=> a * b > 0) /\ (Zero \preceq (x ** y) <=> 0 <= a * b)
  <2>1. Stands(x ** y, a * b, d * d) /\ d * d \in Nat \ {0} /\ Stands(Zero, 0, d * d)
    <3>1. d * d \in Nat \ {0}
      OBVIOUS
    <3> DEFINE e == d * d
    <3>2. e \in Int \ {0}
      BY <3>1
    <3> HIDE DEF e
    <3>3. Stands(Zero, 0, e)
      BY <3>2, ZeroIsRat
    <3> QED
      BY <1>1, <3>1, <3>3, ProductStands DEF e
  <2> QED
    BY <1>2, <2>1, OverOneDenominator
<1>6. a > 0 /\ b > 0 => a * b > 0
  OBVIOUS
<1>7. 0 <= a /\ 0 <= b => 0 <= a * b
  OBVIOUS
<1>8. ASSUME b > 0
      PROVE  (Positive(x // y) <=> a > 0) /\ (Zero \preceq (x // y) <=> 0 <= a)
  <2>1. Stands(x // y, a * d, d * b) /\ d * b \in Nat \ {0} /\ a * d \in Int
    BY <1>1, <1>8, QuotientStands
  <2>2. Stands(Zero, 0, d * b)
    BY <2>1, ZeroIsRat
  <2>3. (Positive(x // y) <=> a * d > 0) /\ (Zero \preceq (x // y) <=> 0 <= a * d)
    BY <1>2, <2>1, <2>2, OverOneDenominator
  <2>4. (a * d > 0 <=> a > 0) /\ (0 <= a * d <=> 0 <= a)
    OBVIOUS
  <2> QED
    BY <2>3, <2>4
<1>9. ASSUME a > 0
      PROVE  Zero \preceq (y // x) <=> 0 <= b
  <2>1. Stands(y // x, b * d, d * a) /\ d * a \in Nat \ {0} /\ b * d \in Int
    BY <1>1, <1>9, QuotientStands
  <2>2. Stands(Zero, 0, d * a)
    BY <2>1, ZeroIsRat
  <2>3. Zero \preceq (y // x) <=> 0 <= b * d
    BY <1>2, <2>1, <2>2, OverOneDenominator
  <2>4. 0 <= b * d <=> 0 <= b
    OBVIOUS
  <2> QED
    BY <2>3, <2>4
<1> QED
  BY <1>3, <1>4, <1>5, <1>6, <1>7, <1>8, <1>9

-----------------------------------------------------------------------------
(* Types of rows, legs and plans *)

\* The types of legs that are about cash alone.
CashTypes == {"deposit", "withdrawal", "management_fee"}
\* Those that may name no episode.
LooseTypes == CashTypes \cup {"cash_dividend"}

\* Every type of leg the coordinator writes.
ActivityTypes ==
  LooseTypes \cup
  {"buy", "sell", "buy_fee", "sell_fee", "reinvested_dividend", "return_of_capital", "stock_dividend",
   "split", "symbol_change", "write_off"}

\* A row of positions.
Rows == [sym : Symbols, qty : Rats, avg : Rats, status : {"open", "closed", "deleted"}, acquired : Nat]

\* A row of portfolio_activities.
Activities ==
  [type : ActivityTypes, sym : Symbols \cup {NoSymbol}, ep : Nat, qty : Rats, gross : Rats, fee : Rats,
   net : Rats, basis : Rats, realized : Rats, ratio : Rats, boxed : BOOLEAN, at : Nat, created : Nat, of : Nat]

\* A leg is about cash alone or names an episode, and a sale's net is what its
\* gross leaves after the fee.
WellFormed(a, episodes) ==
  /\ a.ep <= episodes
  /\ a.type \notin LooseTypes => a.ep > 0 /\ a.sym \in Symbols
  /\ a.type \in CashTypes => a.sym = NoSymbol
  /\ a.type = "sell" => a.net = a.gross -- a.fee

\* An open row holds something.
PositiveRows(p) == \A i \in DOMAIN p : p[i].status = "open" => Positive(p[i].qty)

\* No row, open or not, was ever bought for less than nothing.
Costed(p) == \A i \in DOMAIN p : Zero \preceq p[i].avg

\* Types, with what the plans rely on: open rows hold something, and a leg of the
\* ledger names an existing episode and corrects an earlier leg.
TypeInv ==
  /\ position \in Seq(Rows) /\ PositiveRows(position)
  /\ cash \in Rats /\ autoFund \in BOOLEAN
  /\ ledger \in Seq(Activities)
  /\ \A i \in DOMAIN ledger :
       /\ WellFormed(ledger[i], Len(position))
       /\ ledger[i].of < i /\ ledger[i].at <= ledger[i].created /\ ledger[i].created < version
  /\ version \in 1..(MaxCommits + 1) /\ trusted.at \in 0..version
  /\ price \in [Symbols -> Prices]

\* A correction names an activity, and one before the trusted boundary only if
\* it is about cash alone.
MayCorrect(i) == i \in DOMAIN ledger /\ (ledger[i].sym = NoSymbol \/ ledger[i].at >= trusted.at)

\* A leg of a plan: recorded now, at a date that is not in the future and, unless
\* corporate actions may be backdated, not before the trusted boundary.
NewLeg(a, episodes) ==
  /\ WellFormed(a, episodes)
  /\ a.created = Now /\ a.at <= Now
  /\ a.of # 0 => MayCorrect(a.of)
  /\ ~Backdating => a.sym = NoSymbol \/ a.at >= trusted.at

\* The type of a plan.
Plans ==
  [pos : Seq(Rows), open : SUBSET Nat, cash : Rats, acts : Seq(Activities), effect : {Neutral, Return},
   ret : Rats, inv : BOOLEAN, atCost : SUBSET Nat]

\* What every plan is, whatever it plans: a position it leaves open holds
\* something, or is one the valuation after the mutation will look at.
PlanTyped(p) ==
  /\ p \in Plans /\ Len(position) <= Len(p.pos)
  /\ \A i \in OpenIds(p.pos) : Positive(p.pos[i].qty) \/ (~p.inv /\ i \in p.open)
  /\ \A k \in DOMAIN p.acts : NewLeg(p.acts[k], Len(p.pos))

\* A leg that corrects no trade.
Uncorrecting(a) == a.of # 0 => ledger[a.of].sym = NoSymbol

\* Legs that correct no trade.
NewLegs(legs, episodes) ==
  /\ legs \in Seq(Activities)
  /\ \A k \in DOMAIN legs : NewLeg(legs[k], episodes) /\ Uncorrecting(legs[k])

\* A book: what every plan but the correction of a trade is.
BookTyped(p) ==
  /\ PlanTyped(p) /\ NewLegs(p.acts, Len(p.pos))
  /\ PositiveRows(p.pos) /\ p.open = OpenIds(p.pos)

\* What each leg of a sequence does, by one reading of an activity.
Along(reading, legs) == [k \in DOMAIN legs |-> reading[legs[k]]]

\* The reading of a leg the cash balance is made of.
cashOf == [a \in Activities |-> CashEffectOf(a)]

\* What a leg adds to what the portfolio has in cash and at cost.
GainOf(a) ==
  CASE a.type \in {"deposit", "cash_dividend", "reinvested_dividend"} -> a.gross
    [] a.type \in {"withdrawal", "management_fee"} -> Zero -- a.gross
    [] a.type \in {"sell", "write_off"} -> a.realized
    [] a.type = "return_of_capital" -> a.gross -- a.basis
    [] OTHER -> Zero

\* The reading of a leg the book at cost is made of.
gainOf == [a \in Activities |-> GainOf(a)]

\* What a plan leaves in cash and at cost.
Equity(p) == p.cash ++ BasisOf(p.pos, p.open)

\* A plan moves as much cash as its legs say.
Balanced(p) == p.cash = cash ++ Total(Along(cashOf, p.acts))

\* A plan changes the book at cost by as much as its legs say was gained.
Accounted(p) == Equity(p) = Equity(Book) ++ Total(Along(gainOf, p.acts))

\* Putting a row changes one row, or appends one.
LEMMA PutRowTyped ==
  ASSUME NEW p \in Seq(Rows), NEW i \in 1..(Len(p) + 1), NEW r \in Rows
  PROVE  /\ PutRow(p, i, r) \in Seq(Rows)
         /\ Len(p) <= Len(PutRow(p, i, r)) /\ i <= Len(PutRow(p, i, r))
         /\ PutRow(p, i, r)[i] = r
         /\ DOMAIN PutRow(p, i, r) = DOMAIN p \cup {i}
         /\ \A j \in DOMAIN p : j # i => PutRow(p, i, r)[j] = p[j]
<1>1. CASE i > Len(p)
  <2>1. i = Len(p) + 1
    BY <1>1
  <2> QED
    BY <1>1, <2>1 DEF PutRow
<1>2. CASE i <= Len(p)
  BY <1>2 DEF PutRow, ReplaceAt
<1> QED
  BY <1>1, <1>2

\* What putting a row does to the open positions.
LEMMA PutRowOpen ==
  ASSUME NEW p \in Seq(Rows), NEW i \in 1..(Len(p) + 1), NEW r \in Rows, PositiveRows(p)
  PROVE  /\ OpenIds(PutRow(p, i, r)) = IF r.status = "open" THEN OpenIds(p) \cup {i} ELSE OpenIds(p) \ {i}
         /\ (r.status = "open" => Positive(r.qty)) => PositiveRows(PutRow(p, i, r))
<1> DEFINE w == PutRow(p, i, r)
<1>1. DOMAIN w = DOMAIN p \cup {i} /\ w[i] = r /\ \A j \in DOMAIN p : j # i => w[j] = p[j]
  BY PutRowTyped
<1> HIDE DEF w
<1>2. \A j \in DOMAIN w : w[j].status = "open" <=> IF j = i THEN r.status = "open" ELSE j \in OpenIds(p)
  BY <1>1 DEF OpenIds
<1>3. OpenIds(w) = IF r.status = "open" THEN OpenIds(p) \cup {i} ELSE OpenIds(p) \ {i}
  BY <1>1, <1>2 DEF OpenIds
<1>4. (r.status = "open" => Positive(r.qty)) => PositiveRows(w)
  BY <1>1, <1>2 DEF PositiveRows, OpenIds
<1> QED
  BY <1>3, <1>4 DEF w

\* The fields of an activity as it is made.
LEMMA NewActivity ==
  ASSUME NEW t \in ActivityTypes, NEW s \in Symbols \cup {NoSymbol}, NEW e \in Nat, Now \in Nat
  PROVE  /\ Activity(t, s, e) \in Activities
         /\ Activity(t, s, e) =
              [type |-> t, sym |-> s, ep |-> e, qty |-> Zero, gross |-> Zero, fee |-> Zero,
               net |-> Zero, basis |-> Zero, realized |-> Zero, ratio |-> One, boxed |-> FALSE,
               at |-> Now, created |-> Now, of |-> 0]
BY ZeroIsRat, Wholes DEF Activity, Activities, One

\* The open position of a symbol, where there is one.
LEMMA HeldFacts ==
  ASSUME TypeInv, NEW b, b.pos \in Seq(Rows), b.open = OpenIds(b.pos), NEW s, findOpenBySymbol(b, s) # {}
  PROVE  LET i == The(findOpenBySymbol(b, s)) IN
         i \in b.open /\ i \in 1..Len(b.pos) /\ b.pos[i] \in Rows /\ b.pos[i].sym = s /\ b.pos[i].status = "open"
<1> DEFINE S == findOpenBySymbol(b, s)
<1>1. S \in SUBSET Nat /\ \A i \in S : i \in b.open /\ i \in 1..Len(b.pos) /\ b.pos[i].sym = s /\ b.pos[i].status = "open"
  BY DEF findOpenBySymbol, OpenIds
<1> HIDE DEF S
<1>2. \E i \in S : \A j \in S : i <= j
  BY <1>1, LeastNatural DEF S
<1>3. The(S) \in S
  BY <1>2 DEF The
<1>4. The(S) \in b.open /\ The(S) \in 1..Len(b.pos) /\ b.pos[The(S)].sym = s /\ b.pos[The(S)].status = "open"
  BY <1>1, <1>3
<1> QED
  BY <1>4 DEF S

-----------------------------------------------------------------------------
(* Plans built on plans *)

\* Every activity has a cash effect and a gain, and they are values.
LEMMA Readings == cashOf \in [Activities -> Rats] /\ gainOf \in [Activities -> Rats]
<1>1. ASSUME NEW a \in Activities
      PROVE  CashEffectOf(a) \in Rats /\ GainOf(a) \in Rats
  <2>1. a.gross \in Rats /\ a.fee \in Rats /\ a.basis \in Rats /\ a.realized \in Rats /\ Zero \in Rats
    BY ZeroIsRat DEF Activities
  <2>2. /\ Zero -- a.gross \in Rats /\ a.gross ++ a.fee \in Rats /\ a.gross -- a.fee \in Rats
        /\ a.gross -- a.basis \in Rats
    BY <2>1, RatClosed
  <2>3. Zero -- (a.gross ++ a.fee) \in Rats
    BY <2>1, <2>2, RatClosed
  <2> QED
    BY <2>1, <2>2, <2>3 DEF CashEffectOf, GainOf
<1> QED
  BY <1>1 DEF cashOf, gainOf

\* A sequence that agrees with two others, one after the other, is their concatenation.
LEMMA ConcatIs ==
  ASSUME NEW v \in Seq(Rats), NEW w \in Seq(Rats), NEW u \in Seq(Rats), Len(u) = Len(v) + Len(w),
         \A i \in 1..Len(v) : u[i] = v[i], \A i \in 1..Len(w) : u[Len(v) + i] = w[i]
  PROVE  u = v \o w
<1>1. v \o w \in Seq(Rats) /\ Len(v \o w) = Len(u)
  OBVIOUS
<1>2. ASSUME NEW i \in 1..Len(u)
      PROVE  u[i] = (v \o w)[i]
  <2>1. CASE i <= Len(v)
    BY <2>1
  <2>2. CASE i > Len(v)
    <3>1. i - Len(v) \in 1..Len(w) /\ (v \o w)[i] = w[i - Len(v)] /\ Len(v) + (i - Len(v)) = i
      BY <2>2
    <3> QED
      BY <3>1
  <2> QED
    BY <2>1, <2>2
<1> QED
  BY <1>1, <1>2

\* What the legs of a plan say about cash adds up over its parts.
LEMMA LegSums ==
  ASSUME NEW F \in [Activities -> Rats], NEW l \in Seq(Activities), NEW m \in Seq(Activities)
  PROVE  /\ Along(F, l) \in Seq(Rats) /\ Total(Along(F, l)) \in Rats
         /\ Total(Along(F, l \o m)) = Total(Along(F, l)) ++ Total(Along(F, m))
         /\ Total(Along(F, <<>>)) = Zero
         /\ \A x \in Activities : Total(Along(F, <<x>>)) = F[x]
<1>1. ASSUME NEW k \in Seq(Activities)
      PROVE  /\ Along(F, k) \in Seq(Rats) /\ Len(Along(F, k)) = Len(k)
             /\ \A i \in 1..Len(k) : Along(F, k)[i] = F[k[i]]
  <2>1. \A i \in 1..Len(k) : F[k[i]] \in Rats
    OBVIOUS
  <2>2. Along(F, k) = [i \in 1..Len(k) |-> F[k[i]]]
    BY DEF Along
  <2> QED
    BY <2>1, <2>2
<1>2. Along(F, l \o m) = Along(F, l) \o Along(F, m)
  <2> DEFINE v == Along(F, l)  w == Along(F, m)  n == l \o m  u == Along(F, n)
  <2>1. n \in Seq(Activities) /\ Len(n) = Len(l) + Len(m)
    OBVIOUS
  <2>2. \A i \in 1..Len(n) : n[i] = IF i <= Len(l) THEN l[i] ELSE m[i - Len(l)]
    OBVIOUS
  <2> HIDE DEF n
  <2>3. /\ v \in Seq(Rats) /\ Len(v) = Len(l) /\ \A i \in 1..Len(l) : v[i] = F[l[i]]
        /\ w \in Seq(Rats) /\ Len(w) = Len(m) /\ \A i \in 1..Len(m) : w[i] = F[m[i]]
        /\ u \in Seq(Rats) /\ Len(u) = Len(n) /\ \A i \in 1..Len(n) : u[i] = F[n[i]]
    BY <1>1, <2>1
  <2> HIDE DEF u, v, w
  <2>4. v \in Seq(Rats) /\ w \in Seq(Rats) /\ u \in Seq(Rats) /\ Len(u) = Len(v) + Len(w)
    BY <2>1, <2>3
  <2>5. ASSUME NEW i \in 1..Len(v)
        PROVE  u[i] = v[i]
    <3>1. i \in 1..Len(l) /\ i \in 1..Len(n) /\ i <= Len(l)
      BY <2>1, <2>3
    <3>2. u[i] = F[n[i]] /\ v[i] = F[l[i]]
      BY <2>3, <3>1
    <3>3. n[i] = l[i]
      BY <2>2, <3>1
    <3> QED
      BY <3>2, <3>3
  <2>7. ASSUME NEW i \in 1..Len(w)
        PROVE  u[Len(v) + i] = w[i]
    <3>1. i \in 1..Len(m) /\ Len(v) + i \in 1..Len(n) /\ ~(Len(v) + i <= Len(l)) /\ (Len(v) + i) - Len(l) = i
      BY <2>1, <2>3
    <3>2. u[Len(v) + i] = F[n[Len(v) + i]] /\ w[i] = F[m[i]]
      BY <2>3, <3>1
    <3>3. n[Len(v) + i] = m[i]
      BY <2>2, <3>1
    <3> QED
      BY <3>2, <3>3
  <2>6. u = v \o w
    BY <2>4, <2>5, <2>7, ConcatIs
  <2> QED
    BY <2>6 DEF u, v, w, n
<1>3. Along(F, <<>>) = <<>> /\ <<>> \in Seq(Rats) /\ <<>> \in Seq(Activities)
  BY DEF Along
<1>4. ASSUME NEW x \in Activities
      PROVE  Total(Along(F, <<x>>)) = F[x]
  <2> DEFINE k == <<x>>  e == F[x]
  <2>1. k \in Seq(Activities) /\ Len(k) = 1 /\ k[1] = x
    OBVIOUS
  <2> HIDE DEF k
  <2> DEFINE u == Along(F, k)
  <2>6. u \in Seq(Rats) /\ Len(u) = Len(k) /\ \A i \in 1..Len(k) : u[i] = F[k[i]]
    BY <1>1, <2>1
  <2> HIDE DEF u
  <2>2. u \in Seq(Rats) /\ Len(u) = 1 /\ u[1] = F[k[1]]
    BY <2>1, <2>6
  <2>3. e \in Rats
    OBVIOUS
  <2> HIDE DEF e
  <2>4. u = Append(<<>>, e)
    BY <2>1, <2>2, <2>3 DEF e
  <2>5. Total(Append(<<>>, e)) = Zero ++ e
    BY <1>3, <2>3, TotalAppend, TotalEmpty
  <2> QED
    BY <2>3, <2>4, <2>5, AddZero DEF e, k, u
<1> QED
  BY <1>1, <1>2, <1>3, <1>4, TotalConcat, TotalEmpty, TotalIsRat

\* What a plan built on a book adds to it.
Adds(p, b, legs) ==
  /\ p \in Plans /\ Len(b.pos) <= Len(p.pos)
  /\ PositiveRows(p.pos) /\ p.open = OpenIds(p.pos)
  /\ NewLegs(legs, Len(p.pos)) /\ p.acts = b.acts \o legs

\* What is built on a book by such a plan is a book.
LEMMA AddsToBook ==
  ASSUME NEW b, BookTyped(b), NEW p, NEW legs, Adds(p, b, legs)
  PROVE  BookTyped(p)
<1>1. b \in Plans /\ p \in Plans /\ legs \in Seq(Activities) /\ b.acts \in Seq(Activities)
  BY DEF Adds, BookTyped, PlanTyped, Plans, NewLegs
<1>7. Len(b.pos) \in Nat /\ Len(p.pos) \in Nat
  BY <1>1 DEF Plans
<1>2. Len(position) <= Len(p.pos)
  BY <1>7 DEF Adds, BookTyped, PlanTyped
<1>3. ASSUME NEW k \in DOMAIN p.acts
      PROVE  NewLeg(p.acts[k], Len(p.pos)) /\ Uncorrecting(p.acts[k])
  <2>1. CASE k <= Len(b.acts)
    <3>1. k \in DOMAIN b.acts /\ p.acts[k] = b.acts[k]
      BY <1>1, <1>3, <2>1 DEF Adds
    <3>2. NewLeg(b.acts[k], Len(b.pos)) /\ b.acts[k] \in Activities /\ Uncorrecting(b.acts[k])
      BY <1>1, <3>1 DEF BookTyped, NewLegs
    <3>3. Len(b.pos) <= Len(p.pos)
      BY DEF Adds
    <3>5. b.acts[k].ep \in Nat
      BY <3>2 DEF Activities
    <3> QED
      BY <1>7, <3>1, <3>2, <3>3, <3>5 DEF NewLeg, WellFormed
  <2>2. CASE k > Len(b.acts)
    <3>1. k - Len(b.acts) \in DOMAIN legs /\ p.acts[k] = legs[k - Len(b.acts)]
      BY <1>1, <1>3, <2>2 DEF Adds
    <3> QED
      BY <3>1 DEF Adds, NewLegs
  <2> QED
    BY <1>1, <1>3, <2>1, <2>2 DEF Plans
<1>4. \A i \in OpenIds(p.pos) : Positive(p.pos[i].qty)
  BY DEF Adds, PositiveRows, OpenIds
<1>5. NewLegs(p.acts, Len(p.pos))
  BY <1>1, <1>3 DEF NewLegs, Plans
<1>6. PositiveRows(p.pos) /\ p.open = OpenIds(p.pos)
  BY DEF Adds
<1> QED
  BY <1>1, <1>2, <1>3, <1>4, <1>5, <1>6 DEF BookTyped, PlanTyped

\* The legs of the book and those added to it sum up.
LEMMA AddsUp ==
  ASSUME NEW F \in [Activities -> Rats], NEW b, BookTyped(b), NEW p, NEW legs, Adds(p, b, legs),
         NEW x \in Rats
  PROVE  /\ Total(Along(F, legs)) \in Rats
         /\ (x ++ Total(Along(F, b.acts))) ++ Total(Along(F, legs)) = x ++ Total(Along(F, p.acts))
<1>1. legs \in Seq(Activities) /\ b.acts \in Seq(Activities) /\ p.acts = b.acts \o legs
  BY DEF Adds, BookTyped, PlanTyped, Plans, NewLegs
<1>2. /\ Total(Along(F, p.acts)) = Total(Along(F, b.acts)) ++ Total(Along(F, legs))
      /\ Total(Along(F, b.acts)) \in Rats /\ Total(Along(F, legs)) \in Rats
  BY <1>1, LegSums
<1> QED
  BY <1>2, AddAssociates

\* It stays balanced if it moves as much cash as the added legs say.
LEMMA AddsBalanced ==
  ASSUME TypeInv, NEW b, BookTyped(b), Balanced(b), NEW p, NEW legs, Adds(p, b, legs),
         p.cash = b.cash ++ Total(Along(cashOf, legs))
  PROVE  Balanced(p)
<1>1. cash \in Rats
  BY DEF TypeInv
<1> QED
  BY <1>1, Readings, AddsUp DEF Balanced

\* It stays accounted for if it changes what the book is worth by as much as they say.
LEMMA AddsAccounted ==
  ASSUME NEW b, BookTyped(b), Accounted(b), Equity(Book) \in Rats, NEW p, NEW legs, Adds(p, b, legs),
         Equity(p) = Equity(b) ++ Total(Along(gainOf, legs))
  PROVE  Accounted(p)
BY Readings, AddsUp DEF Accounted

\* A sequence of values, one for each row.
LEMMA AllRats ==
  ASSUME NEW v, NEW n \in Nat, DOMAIN v = 1..n, v = [i \in 1..n |-> v[i]], \A i \in 1..n : v[i] \in Rats
  PROVE  v \in Seq(Rats) /\ Len(v) = n
<1>1. v \in [1..n -> Rats]
  OBVIOUS
<1> QED
  BY <1>1

\* The cost of the open positions is a value.
LEMMA BasisTyped ==
  ASSUME NEW p \in Seq(Rows), NEW ids
  PROVE  BasisOf(p, ids) \in Rats
<1> DEFINE v == [i \in DOMAIN p |-> IF i \in ids THEN Basis(p[i]) ELSE Zero]
<1>1. \A i \in 1..Len(p) : p[i].qty \in Rats /\ p[i].avg \in Rats
  <2>1. \A i \in 1..Len(p) : p[i] \in Rows
    OBVIOUS
  <2> QED
    BY <2>1 DEF Rows
<1>2. \A i \in 1..Len(p) : Basis(p[i]) \in Rats
  BY <1>1, RatClosed DEF Basis
<1>3. v \in Seq(Rats)
  <2>1. \A i \in 1..Len(p) : v[i] \in Rats
    BY <1>2, ZeroIsRat
  <2>2. DOMAIN v = 1..Len(p) /\ v = [i \in 1..Len(p) |-> v[i]]
    OBVIOUS
  <2> QED
    BY <2>1, <2>2, AllRats
<1> QED
  BY <1>3, TotalIsRat DEF BasisOf

\* What an open row costs, and what a row that is not open does.
CostOf(r) == IF r.status = "open" THEN Basis(r) ELSE Zero

\* Putting a row exchanges the cost of the old row for that of the new one.
LEMMA BasisOfPut ==
  ASSUME NEW p \in Seq(Rows), NEW i \in 1..(Len(p) + 1), NEW r \in Rows
  PROVE  LET old == IF i \in DOMAIN p THEN CostOf(p[i]) ELSE Zero IN
         BasisOf(PutRow(p, i, r), OpenIds(PutRow(p, i, r))) = (BasisOf(p, OpenIds(p)) -- old) ++ CostOf(r)
<1> DEFINE w == PutRow(p, i, r)
           u == [k \in DOMAIN p |-> CostOf(p[k])]
           v == [k \in DOMAIN w |-> CostOf(w[k])]
<1>1. w \in Seq(Rows) /\ w[i] = r /\ DOMAIN w = DOMAIN p \cup {i} /\ \A k \in DOMAIN p : k # i => w[k] = p[k]
  BY PutRowTyped
<1> HIDE DEF w
<1>2. ASSUME NEW q \in Seq(Rows)
      PROVE  /\ BasisOf(q, OpenIds(q)) = Total([k \in DOMAIN q |-> CostOf(q[k])])
             /\ [k \in DOMAIN q |-> CostOf(q[k])] \in Seq(Rats)
             /\ \A k \in DOMAIN q : CostOf(q[k]) \in Rats
  <2> DEFINE c == [k \in DOMAIN q |-> CostOf(q[k])]
  <2>1. c = [k \in DOMAIN q |-> IF k \in OpenIds(q) THEN Basis(q[k]) ELSE Zero]
    BY DEF OpenIds, CostOf
  <2>2. \A k \in 1..Len(q) : q[k].qty \in Rats /\ q[k].avg \in Rats
    <3>1. \A k \in 1..Len(q) : q[k] \in Rows
      OBVIOUS
    <3> QED
      BY <3>1 DEF Rows
  <2>3. \A k \in 1..Len(q) : CostOf(q[k]) \in Rats
    BY <2>2, RatClosed, ZeroIsRat DEF Basis, CostOf
  <2>4. DOMAIN c = 1..Len(q) /\ c = [k \in 1..Len(q) |-> c[k]] /\ \A k \in 1..Len(q) : c[k] \in Rats
    BY <2>3
  <2>5. c \in Seq(Rats)
    BY <2>4, AllRats
  <2> QED
    BY <2>1, <2>3, <2>5 DEF BasisOf
<1>3. /\ BasisOf(w, OpenIds(w)) = Total(v) /\ v \in Seq(Rats) /\ CostOf(r) \in Rats
      /\ BasisOf(p, OpenIds(p)) = Total(u) /\ u \in Seq(Rats)
  BY <1>1, <1>2
<1>4. CASE i \in DOMAIN p
  <2>1. Len(v) = Len(u) /\ i \in 1..Len(u) /\ \A k \in 1..Len(u) : k # i => v[k] = u[k]
    BY <1>1, <1>4
  <2>2. v[i] = CostOf(r) /\ u[i] = CostOf(p[i])
    BY <1>1, <1>4
  <2> HIDE DEF u, v
  <2>3. Total(v) = (Total(u) -- u[i]) ++ v[i]
    BY <1>3, <2>1, TotalReplace
  <2> QED
    BY <1>3, <1>4, <2>2, <2>3 DEF w
<1>5. CASE i \notin DOMAIN p
  <2>1. i = Len(p) + 1 /\ Len(v) = Len(u) + 1 /\ Len(u) = Len(p) /\ \A k \in 1..Len(u) : v[k] = u[k]
    <3>1. i = Len(p) + 1 /\ DOMAIN w = 1..(Len(p) + 1) /\ DOMAIN p = 1..Len(p)
      BY <1>1, <1>5
    <3>2. DOMAIN u = 1..Len(p) /\ DOMAIN v = 1..(Len(p) + 1) /\ DOMAIN u = 1..Len(u) /\ DOMAIN v = 1..Len(v)
      BY <1>3, <3>1
    <3>3. Len(u) \in Nat /\ Len(v) \in Nat
      BY <1>3
    <3>4. Len(u) = Len(p) /\ Len(v) = Len(p) + 1
      BY <3>2, <3>3
    <3> QED
      BY <1>1, <3>1, <3>4
  <2>2. v[i] = CostOf(r)
    BY <1>1
  <2> HIDE DEF u, v
  <2>3. v = Append(u, CostOf(r))
    BY <1>3, <2>1, <2>2
  <2>4. Total(v) = Total(u) ++ CostOf(r) /\ Total(u) \in Rats
    BY <1>3, <2>3, TotalAppend, TotalIsRat
  <2>5. Total(u) -- Zero = Total(u)
    BY <2>4, AddZero
  <2> QED
    BY <1>3, <1>5, <2>4, <2>5 DEF w
<1> QED
  BY <1>4, <1>5

\* A quotient times its divisor.
LEMMA TimesOver ==
  ASSUME NEW x \in Rats, NEW y \in Rats, y # Zero
  PROVE  y ** (x // y) = x
<1>1. PICK d \in Nat \ {0}, a \in Int, b \in Int : Stands(x, a, d) /\ Stands(y, b, d)
  BY Common2
<1>2. b # 0
  <2>1. Stands(Zero, 0, d)
    BY ZeroIsRat
  <2> QED
    BY <1>1, <2>1, SameDenominatorEqual
<1>3. Stands(x // y, a * d, d * b)
  BY <1>1, <1>2, QuotientStands
<1>7. d * b \in Int \ {0} /\ a * d \in Int
  BY <1>2
<1> DEFINE e == d * b  f == a * d
<1>4. Stands(x // y, f, e) /\ e \in Int \ {0} /\ f \in Int
  BY <1>3, <1>7
<1> HIDE DEF e, f
<1>5. Stands(y ** (x // y), b * f, d * e)
  BY <1>1, <1>4, ProductStands
<1>6. (b * f) * d = a * (d * e)
  BY DEF e, f
<1> QED
  BY <1>1, <1>5, <1>6, StandsEqual

\* Moving summands about.
LEMMA MovesOver ==
  ASSUME NEW x \in Rats, NEW y \in Rats, NEW z \in Rats
  PROVE  /\ x ++ (y ++ z) = y ++ (x ++ z)
         /\ (x -- y) ++ (z ++ y) = z ++ x
         /\ x ++ (Zero -- y) = x -- y
         /\ x ++ (y -- z) = (x ++ y) -- z
         /\ (x ++ y) -- y = x
         /\ (x -- y) ++ y = x
         /\ (x -- y) -- z = x -- (y ++ z)
         /\ x -- (y -- z) = (x -- y) ++ z
         /\ x -- (y -- z) = x ++ (z -- y)
<1>1. PICK d \in Nat \ {0}, a \in Int, b \in Int, c \in Int :
        Stands(x, a, d) /\ Stands(y, b, d) /\ Stands(z, c, d)
  BY Common3
<1>2. Stands(Zero, 0, d)
  BY ZeroIsRat
<1>3. /\ Stands(y ++ z, b + c, d) /\ Stands(x ++ z, a + c, d) /\ Stands(x -- y, a - b, d) /\ Stands(z ++ y, c + b, d)
      /\ Stands(z ++ x, c + a, d) /\ Stands(Zero -- y, 0 - b, d) /\ Stands(y -- z, b - c, d) /\ Stands(x ++ y, a + b, d)
      /\ Stands(z -- y, c - b, d)
  BY <1>1, <1>2, SameDenominator
<1>4. /\ Stands(x ++ (y ++ z), a + (b + c), d) /\ Stands(y ++ (x ++ z), b + (a + c), d)
      /\ Stands((x -- y) ++ (z ++ y), (a - b) + (c + b), d) /\ Stands(x ++ (Zero -- y), a + (0 - b), d)
      /\ Stands(x ++ (y -- z), a + (b - c), d) /\ Stands((x ++ y) -- z, (a + b) - c, d)
      /\ Stands((x ++ y) -- y, (a + b) - b, d) /\ Stands((x -- y) ++ y, (a - b) + b, d)
      /\ Stands((x -- y) -- z, (a - b) - c, d) /\ Stands(x -- (y ++ z), a - (b + c), d)
      /\ Stands(x -- (y -- z), a - (b - c), d) /\ Stands((x -- y) ++ z, (a - b) + c, d)
      /\ Stands(x ++ (z -- y), a + (c - b), d)
  BY <1>1, <1>3, SameDenominator
<1>5. /\ a + (b + c) = b + (a + c) /\ (a - b) + (c + b) = c + a /\ a + (0 - b) = a - b
      /\ a + (b - c) = (a + b) - c /\ (a + b) - b = a /\ (a - b) + b = a /\ (a - b) - c = a - (b + c)
      /\ a - (b - c) = (a - b) + c /\ a - (b - c) = a + (c - b)
  OBVIOUS
<1> QED
  BY <1>1, <1>3, <1>4, <1>5, SameDenominatorEqual

\* A product with a difference or a sum.
LEMMA Distributes ==
  ASSUME NEW x \in Rats, NEW y \in Rats, NEW z \in Rats
  PROVE  (x -- y) ** z = (x ** z) -- (y ** z) /\ (x ++ y) ** z = (x ** z) ++ (y ** z)
<1>1. PICK d \in Nat \ {0}, a \in Int, b \in Int : Stands(x, a, d) /\ Stands(y, b, d)
  BY Common2
<1> DEFINE c == z[1]  e == z[2]
<1>2. Stands(z, c, e) /\ c \in Int /\ e \in Nat \ {0}
  BY RatStands
<1> HIDE DEF c, e
<1>3. /\ Stands(x ** z, a * c, d * e) /\ Stands(y ** z, b * c, d * e)
      /\ Stands(x -- y, a - b, d) /\ Stands(x ++ y, a + b, d)
  BY <1>1, <1>2, ProductStands, SameDenominator
<1>4. Stands((x -- y) ** z, (a - b) * c, d * e) /\ Stands((x ++ y) ** z, (a + b) * c, d * e)
  BY <1>2, <1>3, ProductStands
<1>5. Stands((x ** z) -- (y ** z), (a * c) - (b * c), d * e) /\ Stands((x ** z) ++ (y ** z), (a * c) + (b * c), d * e)
  BY <1>3, SameDenominator
<1>6. (a - b) * c = (a * c) - (b * c) /\ (a + b) * c = (a * c) + (b * c)
  BY <1>2
<1> QED
  BY <1>4, <1>5, <1>6, SameDenominatorEqual

\* A split multiplies the quantity and divides the average by one factor.
LEMMA SplitKeepsBasis ==
  ASSUME NEW q \in Rats, NEW a \in Rats, NEW r \in Rats, r # Zero
  PROVE  (q ** r) ** (a // r) = q ** a
<1> DEFINE u == q[1]  d == q[2]  v == a[1]  e == a[2]  w == r[1]  f == r[2]
<1>1. /\ Stands(q, u, d) /\ u \in Int /\ d \in Nat \ {0}
      /\ Stands(a, v, e) /\ v \in Int /\ e \in Nat \ {0}
      /\ Stands(r, w, f) /\ w \in Int /\ f \in Nat \ {0} /\ w # 0
  BY RatStands, NonzeroNumerator
<1> HIDE DEF u, d, v, e, w, f
<1>2. /\ Stands(q ** r, u * w, d * f) /\ Stands(a // r, v * f, e * w) /\ Stands(q ** a, u * v, d * e)
  BY <1>1, ProductStands, QuotientStands
<1>3. Stands((q ** r) ** (a // r), (u * w) * (v * f), (d * f) * (e * w))
  BY <1>2, ProductStands
<1>4. /\ (u * w) * (v * f) = (u * v) * (w * f) /\ (d * f) * (e * w) = (d * e) * (w * f) /\ w * f \in Int \ {0}
  BY <1>1
<1>5. Stands(q ** a, (u * v) * (w * f), (d * e) * (w * f))
  BY <1>2, <1>4, Rescale
<1> QED
  BY <1>3, <1>4, <1>5, SameDenominatorEqual

-----------------------------------------------------------------------------
(* Plans that put a row *)

\* What every plan but a correction keeps: the form of a book, and average costs
\* that are not negative.
Kept(p) == BookTyped(p) /\ (Costed(position) => Costed(p.pos))

\* What a handler reads: the clock, the cash, the prices and the open positions.
LEMMA Setting ==
  ASSUME TypeInv
  PROVE  /\ Now \in Nat /\ cash \in Rats /\ trusted.at \in Nat /\ trusted.at <= Now
         /\ \A s \in Symbols : Rat(price[s]) \in Rats /\ (Quoted(s) => Positive(Rat(price[s])))
                               /\ Zero \preceq Rat(price[s])
         /\ \A i \in OpenIds(position) : i \in 1..Len(position) /\ position[i] \in Rows
                                         /\ Positive(position[i].qty) /\ position[i].status = "open"
<1>1. MaxCommits \in Nat /\ Prices \subseteq Nat
  BY LedgerAssumption
<1>2. Now \in Nat /\ cash \in Rats /\ trusted.at \in Nat /\ trusted.at <= Now
  BY <1>1 DEF TypeInv, Now
<1>3. ASSUME NEW s \in Symbols
      PROVE  /\ Rat(price[s]) \in Rats /\ (Quoted(s) => Positive(Rat(price[s])))
             /\ Zero \preceq Rat(price[s])
  <2>1. price[s] \in Nat
    BY <1>1 DEF TypeInv
  <2>2. Rat(price[s]) \in Rats /\ Rat(price[s])[1] = price[s]
    BY <2>1, Wholes DEF Rat
  <2>3. Rat(price[s]) = Zero \/ Positive(Rat(price[s]))
    BY <2>1, <2>2 DEF Positive, Zero
  <2>4. Zero \preceq Zero
    <3>1. Stands(Zero, 0, 1) /\ 0 \in Int /\ 1 \in Nat \ {0}
      BY ZeroIsRat
    <3> QED
      BY <3>1, OverOneDenominator
  <2> QED
    BY <2>2, <2>3, <2>4, SignsOfRats, ZeroIsRat DEF Quoted, Positive
<1>4. ASSUME NEW i \in OpenIds(position)
      PROVE  /\ i \in 1..Len(position) /\ position[i] \in Rows
             /\ Positive(position[i].qty) /\ position[i].status = "open"
  BY DEF TypeInv, OpenIds, PositiveRows
<1> QED
  BY <1>2, <1>3, <1>4

\* The fields of a row, and the rows the plans make of it.
LEMMA RowChanges ==
  ASSUME NEW r \in Rows, NEW q \in Rats, NEW a \in Rats
  PROVE  /\ r.qty \in Rats /\ r.avg \in Rats /\ r.sym \in Symbols /\ Basis(r) \in Rats
         /\ [r EXCEPT !.qty = q, !.avg = a] \in Rows
         /\ [r EXCEPT !.qty = q] \in Rows
         /\ [r EXCEPT !.avg = a] \in Rows
         /\ [r EXCEPT !.status = "closed"] \in Rows
         /\ [r EXCEPT !.status = "deleted"] \in Rows
         /\ \A s \in Symbols : [r EXCEPT !.sym = s] \in Rows
<1>1. r.qty \in Rats /\ r.avg \in Rats /\ r.sym \in Symbols
  BY DEF Rows
<1> QED
  BY <1>1, RatClosed DEF Rows, Basis

\* The plan that does nothing.
LEMMA BookFacts ==
  ASSUME TypeInv
  PROVE  /\ Book \in Plans /\ Kept(Book) /\ Balanced(Book) /\ Accounted(Book) /\ Equity(Book) \in Rats
         /\ Book.pos = position /\ Book.open = OpenIds(position) /\ Book.cash = cash /\ Book.acts = <<>>
         /\ Book.ret = Zero /\ Book.inv = FALSE /\ Book.atCost = {}
<1>1. /\ Book.pos = position /\ Book.open = OpenIds(position) /\ Book.cash = cash /\ Book.acts = <<>>
      /\ Book.ret = Zero /\ Book.inv = FALSE /\ Book.atCost = {}
  BY DEF Book
<1>2. Book \in Plans
  <2>1. OpenIds(position) \in SUBSET Nat
    BY DEF TypeInv, OpenIds
  <2>2. position \in Seq(Rows) /\ cash \in Rats /\ <<>> \in Seq(Activities)
    BY DEF TypeInv
  <2> QED
    BY <2>1, <2>2, ZeroIsRat DEF Book, Plans
<1>3. Kept(Book)
  <2>1. Len(position) <= Len(Book.pos)
    BY <1>1 DEF TypeInv
  <2>2. \A k \in DOMAIN Book.acts : NewLeg(Book.acts[k], Len(Book.pos))
    BY <1>1
  <2>3. PositiveRows(Book.pos) /\ \A i \in OpenIds(Book.pos) : Positive(Book.pos[i].qty)
    BY <1>1 DEF TypeInv, PositiveRows, OpenIds
  <2> QED
    BY <1>1, <1>2, <2>1, <2>2, <2>3 DEF Kept, BookTyped, PlanTyped, NewLegs
<1>4. BasisOf(position, OpenIds(position)) \in Rats /\ cash \in Rats
  BY BasisTyped DEF TypeInv
<1>5. Equity(Book) \in Rats
  BY <1>1, <1>4, RatClosed DEF Equity
<1>6. Total(Along(cashOf, <<>>)) = Zero /\ Total(Along(gainOf, <<>>)) = Zero
  <2>1. <<>> \in Seq(Activities)
    OBVIOUS
  <2> QED
    BY <2>1, Readings, LegSums
<1> QED
  BY <1>1, <1>2, <1>3, <1>4, <1>5, <1>6, AddZero DEF Balanced, Accounted

\* A plan that puts one row and records what it did.
Puts(p, b, i, r, legs) ==
  /\ p \in Plans /\ i \in 1..(Len(b.pos) + 1) /\ r \in Rows
  /\ p.pos = PutRow(b.pos, i, r)
  /\ p.open = IF r.status = "open" THEN b.open \cup {i} ELSE b.open \ {i}
  /\ r.status = "open" => Positive(r.qty)
  /\ Costed(position) /\ Costed(b.pos) => Zero \preceq r.avg
  /\ NewLegs(legs, Len(p.pos)) /\ p.acts = b.acts \o legs

\* It leaves a book.
LEMMA PutsKeep ==
  ASSUME NEW b, Kept(b), NEW p, NEW i, NEW r, NEW legs, Puts(p, b, i, r, legs)
  PROVE  Kept(p) /\ Adds(p, b, legs)
<1> DEFINE v == b.pos  w == PutRow(v, i, r)
<1>1. v \in Seq(Rows) /\ PositiveRows(v) /\ b.open = OpenIds(v)
  BY DEF Kept, BookTyped, PlanTyped, Plans
<1>2. i \in 1..(Len(v) + 1) /\ r \in Rows /\ p.pos = w
  BY DEF Puts
<1>8. p.open = (IF r.status = "open" THEN b.open \cup {i} ELSE b.open \ {i}) /\ (r.status = "open" => Positive(r.qty))
  BY DEF Puts
<1> HIDE DEF v
<1>9. /\ Len(v) <= Len(w) /\ DOMAIN w = DOMAIN v \cup {i} /\ w[i] = r
      /\ \A j \in DOMAIN v : j # i => w[j] = v[j]
  BY <1>1, <1>2, PutRowTyped
<1>10. PositiveRows(w) /\ p.open = OpenIds(w)
  BY <1>1, <1>2, <1>8, PutRowOpen
<1>3. /\ Len(b.pos) <= Len(p.pos) /\ DOMAIN p.pos = DOMAIN b.pos \cup {i} /\ p.pos[i] = r
      /\ \A j \in DOMAIN b.pos : j # i => p.pos[j] = b.pos[j]
  BY <1>2, <1>9 DEF v
<1>4. PositiveRows(p.pos) /\ p.open = OpenIds(p.pos)
  BY <1>2, <1>10
<1>5. Adds(p, b, legs)
  BY <1>3, <1>4 DEF Adds, Puts
<1>6. BookTyped(p)
  BY <1>5, AddsToBook DEF Kept
<1>7. Costed(position) => Costed(p.pos)
  BY <1>3 DEF Costed, Kept, Puts
<1> QED
  BY <1>5, <1>6, <1>7 DEF Kept

\* It is accounted for if the row's change of cost, with the cash, is what its legs gained.
LEMMA PutsAccounted ==
  ASSUME TypeInv, NEW b, Kept(b), Accounted(b), NEW p, NEW i, NEW r, NEW legs, Puts(p, b, i, r, legs),
         LET old == IF i \in DOMAIN b.pos THEN CostOf(b.pos[i]) ELSE Zero IN
         p.cash ++ CostOf(r) = (b.cash ++ old) ++ Total(Along(gainOf, legs))
  PROVE  Accounted(p)
<1> DEFINE B == BasisOf(b.pos, b.open)
           o == IF i \in DOMAIN b.pos THEN CostOf(b.pos[i]) ELSE Zero
           n == CostOf(r)
           G == Total(Along(gainOf, legs))
           c == b.cash
<1>1. Adds(p, b, legs) /\ Kept(p)
  BY PutsKeep
<1>2. /\ b.pos \in Seq(Rows) /\ b.open = OpenIds(b.pos) /\ b.cash \in Rats
      /\ p.cash \in Rats /\ p.open = OpenIds(p.pos) /\ p.pos = PutRow(b.pos, i, r)
      /\ i \in 1..(Len(b.pos) + 1) /\ r \in Rows /\ legs \in Seq(Activities)
  BY <1>1 DEF Kept, BookTyped, PlanTyped, Plans, Puts, NewLegs
<1>3. BasisOf(p.pos, p.open) = (B -- o) ++ n
  BY <1>2, BasisOfPut
<1>4. B \in Rats
  BY <1>2, BasisTyped
<1>5. o \in Rats /\ n \in Rats
  <2>1. ASSUME NEW x \in Rows
        PROVE  CostOf(x) \in Rats
    <3>1. Basis(x) \in Rats
      BY ZeroIsRat, RowChanges
    <3> QED
      BY <3>1, ZeroIsRat DEF CostOf
  <2>2. i \in DOMAIN b.pos => b.pos[i] \in Rows
    BY <1>2
  <2> QED
    BY <1>2, <2>1, <2>2, ZeroIsRat
<1>6. G \in Rats
  BY <1>2, Readings, LegSums
<1>7. p.cash ++ n = (c ++ o) ++ G
  OBVIOUS
<1>8. Equity(p) = p.cash ++ ((B -- o) ++ n) /\ Equity(b) = c ++ B /\ c \in Rats
  BY <1>2, <1>3 DEF Equity
<1> HIDE DEF B, o, n, G, c
<1>9. B -- o \in Rats /\ c ++ o \in Rats
  BY <1>4, <1>5, <1>8, RatClosed
<1>10. p.cash ++ ((B -- o) ++ n) = (B -- o) ++ ((c ++ o) ++ G)
  BY <1>2, <1>5, <1>7, <1>9, MovesOver
<1>11. (B -- o) ++ ((c ++ o) ++ G) = ((B -- o) ++ (c ++ o)) ++ G
  BY <1>6, <1>9, AddAssociates
<1>12. (B -- o) ++ (c ++ o) = c ++ B
  BY <1>4, <1>5, <1>8, MovesOver
<1>13. Equity(p) = Equity(b) ++ G
  BY <1>8, <1>10, <1>11, <1>12
<1> QED
  BY <1>1, <1>13, BookFacts, AddsAccounted DEF G, Kept

\* The cash some legs move.
Cash(legs) == Total(Along(cashOf, legs))
\* What they gain.
Gain(legs) == Total(Along(gainOf, legs))

\* One leg.
LEMMA OneLeg ==
  ASSUME NEW a \in Activities, NEW n, NewLeg(a, n), Uncorrecting(a)
  PROVE  NewLegs(<<a>>, n) /\ Cash(<<a>>) = CashEffectOf(a) /\ Gain(<<a>>) = GainOf(a)
<1>1. NewLegs(<<a>>, n)
  BY DEF NewLegs
<1>2. cashOf[a] = CashEffectOf(a) /\ gainOf[a] = GainOf(a)
  BY DEF cashOf, gainOf
<1>3. <<>> \in Seq(Activities)
  OBVIOUS
<1> QED
  BY <1>1, <1>2, <1>3, Readings, LegSums DEF Cash, Gain

\* No legs, and the legs of two parts of a plan.
LEMMA MoreLegs ==
  ASSUME NEW l, NEW m, NEW n, NewLegs(l, n), NewLegs(m, n)
  PROVE  /\ NewLegs(l \o m, n) /\ NewLegs(<<>>, n) /\ Cash(<<>>) = Zero /\ Gain(<<>>) = Zero
         /\ Cash(l) \in Rats /\ Gain(l) \in Rats
         /\ Cash(l \o m) = Cash(l) ++ Cash(m) /\ Gain(l \o m) = Gain(l) ++ Gain(m)
<1>1. l \in Seq(Activities) /\ m \in Seq(Activities)
  BY DEF NewLegs
<1>2. NewLegs(l \o m, n)
  <2> DEFINE w == l \o m
  <2>1. w \in Seq(Activities) /\ Len(w) = Len(l) + Len(m)
    BY <1>1
  <2>2. \A k \in 1..Len(w) : w[k] = IF k <= Len(l) THEN l[k] ELSE m[k - Len(l)]
    BY <1>1
  <2> HIDE DEF w
  <2>3. ASSUME NEW k \in DOMAIN w
        PROVE  NewLeg(w[k], n) /\ Uncorrecting(w[k])
    <3>1. k \in 1..Len(w) /\ (k <= Len(l) => k \in DOMAIN l) /\ (~(k <= Len(l)) => k - Len(l) \in DOMAIN m)
      BY <1>1, <2>1, <2>3
    <3>2. w[k] = IF k <= Len(l) THEN l[k] ELSE m[k - Len(l)]
      BY <2>2, <3>1
    <3>3. \A j \in DOMAIN l : NewLeg(l[j], n) /\ Uncorrecting(l[j])
      BY DEF NewLegs
    <3>4. \A j \in DOMAIN m : NewLeg(m[j], n) /\ Uncorrecting(m[j])
      BY DEF NewLegs
    <3> QED
      BY <3>1, <3>2, <3>3, <3>4
  <2> QED
    BY <2>1, <2>3 DEF NewLegs, w
<1>3. NewLegs(<<>>, n)
  BY DEF NewLegs
<1> QED
  BY <1>1, <1>2, <1>3, Readings, LegSums DEF Cash, Gain

\* The leg of a deposit, a withdrawal or a fee.
LEMMA CashLeg ==
  ASSUME TypeInv, NEW type \in CashTypes, NEW amount \in Rats, NEW n \in Nat,
         NEW of \in {0} \cup {i \in DOMAIN ledger : ledger[i].sym = NoSymbol}
  PROVE  LET a == CashActivity(type, amount, of)
             e == IF type = "deposit" THEN amount ELSE Zero -- amount
         IN  NewLegs(<<a>>, n) /\ Cash(<<a>>) = e /\ Gain(<<a>>) = e
<1> DEFINE a == CashActivity(type, amount, of)
<1>1. of \in Nat
  BY DEF TypeInv
<1>2. Activity(type, NoSymbol, 0) \in Activities
  BY NewActivity, Setting DEF ActivityTypes, LooseTypes
<1>3. a \in Activities /\ a.type = type /\ a.gross = amount /\ a.sym = NoSymbol /\ a.ep = 0 /\ a.of = of /\ a.at = Now /\ a.created = Now
  BY <1>1, <1>2 DEF CashActivity, Activities, Activity
<1>4. NewLeg(a, n) /\ Uncorrecting(a)
  <2>1. WellFormed(a, n)
    BY <1>3 DEF WellFormed, CashTypes, LooseTypes
  <2>2. a.of # 0 => MayCorrect(a.of)
    BY <1>3 DEF MayCorrect
  <2> QED
    BY <1>3, <2>1, <2>2, Setting DEF NewLeg, Uncorrecting
<1>5. LET e == IF type = "deposit" THEN amount ELSE Zero -- amount
      IN  CashEffectOf(a) = e /\ GainOf(a) = e
  BY <1>3 DEF CashEffectOf, GainOf, CashTypes
<1> QED
  BY <1>3, <1>4, <1>5, OneLeg

\* The leg of a trade's fee, if there is one, moves nothing: the trade's own leg does.
LEMMA FeeLegs ==
  ASSUME TypeInv, NEW type \in {"buy_fee", "sell_fee"}, NEW s \in Symbols, NEW f \in Rats,
         NEW n \in Nat, NEW e \in 1..n
  PROVE  LET l == FeeLeg(type, s, e, f) IN
NewLegs(l, n) /\ Cash(l) = Zero /\ Gain(l) = Zero
<1> DEFINE a == [Activity(type, s, e) EXCEPT !.gross = f]
<1>1. type \in ActivityTypes /\ s \in Symbols \cup {NoSymbol} /\ e \in Nat /\ Now \in Nat
  BY Setting DEF ActivityTypes
<1>2. Activity(type, s, e) \in Activities
  BY <1>1, NewActivity
<1>3. a \in Activities /\ a.type = type /\ a.sym = s /\ a.ep = e /\ a.of = 0 /\ a.at = Now /\ a.created = Now
  BY <1>2 DEF Activities, Activity
<1>4. NewLeg(a, n) /\ Uncorrecting(a)
  <2>1. WellFormed(a, n)
    BY <1>3 DEF WellFormed, CashTypes, LooseTypes
  <2> QED
    BY <1>3, <2>1, Setting DEF NewLeg, Uncorrecting
<1>5. CashEffectOf(a) = Zero /\ GainOf(a) = Zero
  BY <1>3 DEF CashEffectOf, GainOf
<1>6. NewLegs(<<a>>, n) /\ Cash(<<a>>) = Zero /\ Gain(<<a>>) = Zero
  BY <1>3, <1>4, <1>5, OneLeg
<1>7. NewLegs(<<>>, n) /\ Cash(<<>>) = Zero /\ Gain(<<>>) = Zero
  BY <1>6, MoreLegs
<1> QED
  BY <1>6, <1>7 DEF FeeLeg

-----------------------------------------------------------------------------
(* Every plan the handlers make: types, cash and cost *)

\* What an ordinary plan is: it keeps the form of a book, is balanced and accounted for.
Whole(p) == Kept(p) /\ Balanced(p) /\ Accounted(p)

\* A plan that only records: its legs say as much of cash as of gain.
LEMMA RecordsWhole ==
  ASSUME TypeInv, NEW b, Whole(b), NEW p, NEW legs, p \in Plans, p.pos = b.pos, p.open = b.open,
         NewLegs(legs, Len(b.pos)), p.acts = b.acts \o legs, p.cash = b.cash ++ Cash(legs), Gain(legs) = Cash(legs)
  PROVE  Whole(p)
<1>1. Kept(b) /\ BookTyped(b) /\ Balanced(b) /\ Accounted(b)
  BY DEF Whole, Kept
<1>2. b.pos \in Seq(Rows) /\ b.cash \in Rats /\ b.open = OpenIds(b.pos) /\ PositiveRows(b.pos)
  BY <1>1 DEF BookTyped, PlanTyped, Plans
<1>3. Adds(p, b, legs)
  BY <1>2 DEF Adds
<1>4. BookTyped(p) /\ Kept(p)
  BY <1>1, <1>3, AddsToBook DEF Kept
<1>5. Balanced(p)
  BY <1>1, <1>3, AddsBalanced DEF Cash
<1>6. Cash(legs) \in Rats
  BY MoreLegs
<1>7. Equity(p) = Equity(b) ++ Gain(legs)
  <2> DEFINE c == b.cash  x == Cash(legs)  B == BasisOf(b.pos, b.open)
  <2>1. c \in Rats /\ x \in Rats /\ B \in Rats
    BY <1>2, <1>6, BasisTyped
  <2>2. Equity(p) = (c ++ x) ++ B /\ Equity(b) = c ++ B
    BY DEF Equity
  <2> HIDE DEF c, x, B
  <2>3. (c ++ x) ++ B = c ++ (x ++ B) /\ c ++ (x ++ B) = x ++ (c ++ B)
    BY <2>1, AddAssociates, MovesOver
  <2>4. c ++ B \in Rats
    BY <2>1, RatClosed
  <2> QED
    BY <2>1, <2>2, <2>3, <2>4, AddCommutes DEF x
<1> QED
  BY <1>1, <1>3, <1>4, <1>5, <1>7, BookFacts, AddsAccounted DEF Whole, Gain

\* A plan that puts one row, moves the cash its legs say and gains what they say.
LEMMA PutsWhole ==
  ASSUME TypeInv, NEW b, Whole(b), NEW p, NEW i, NEW r, NEW legs, Puts(p, b, i, r, legs),
         p.cash = b.cash ++ Cash(legs),
         LET old == IF i \in DOMAIN b.pos THEN CostOf(b.pos[i]) ELSE Zero IN
         p.cash ++ CostOf(r) = (b.cash ++ old) ++ Gain(legs)
  PROVE  Whole(p)
<1>1. Kept(b) /\ BookTyped(b) /\ Balanced(b) /\ Accounted(b)
  BY DEF Whole, Kept
<1>2. Kept(p) /\ Adds(p, b, legs)
  BY <1>1, PutsKeep
<1>3. Balanced(p)
  BY <1>1, <1>2, AddsBalanced DEF Cash
<1>4. Accounted(p)
  BY <1>1, PutsAccounted DEF Gain
<1> QED
  BY <1>2, <1>3, <1>4 DEF Whole

\* The plan that does nothing is whole.
LEMMA BookWhole ==
  ASSUME TypeInv
  PROVE  Whole(Book)
BY BookFacts DEF Whole

\* Deposits, withdrawals and their corrections.
LEMMA CashFlowPlan ==
  ASSUME TypeInv, NEW type \in {"deposit", "withdrawal"}, NEW amount \in Rats,
         NEW of \in {0} \cup {i \in DOMAIN ledger : ledger[i].sym = NoSymbol}
  PROVE  Whole(planCashFlow(type, amount, of)) /\ planCashFlow(type, amount, of).atCost = {}
<1> DEFINE p == planCashFlow(type, amount, of)
           legs == <<CashActivity(type, amount, of)>>
           e == IF type = "deposit" THEN amount ELSE Zero -- amount
<1>1. NewLegs(legs, Len(position)) /\ Cash(legs) = e /\ Gain(legs) = e
  <2>1. type \in CashTypes /\ Len(position) \in Nat
    BY DEF CashTypes, TypeInv
  <2> QED
    BY <2>1, CashLeg
<1>2. cash \in Rats /\ cash ++ amount \in Rats /\ cash -- amount \in Rats
  BY Setting, RatClosed
<1>3. p \in Plans /\ p.pos = Book.pos /\ p.open = Book.open /\ p.acts = Book.acts \o legs /\ p.atCost = {}
  <2>1. legs \in Seq(Activities)
    BY <1>1 DEF NewLegs
  <2>2. Book \in Plans /\ Book.acts = <<>> /\ Book.atCost = {}
    BY BookFacts
  <2> DEFINE c == IF type = "deposit" THEN cash ++ amount ELSE cash -- amount
  <2>3. p = [Book EXCEPT !.cash = c, !.acts = legs] /\ c \in Rats
    BY <1>2 DEF planCashFlow
  <2> HIDE DEF p, c, legs
  <2>4. p \in Plans /\ p.pos = Book.pos /\ p.open = Book.open /\ p.acts = legs /\ p.atCost = {}
    BY <2>1, <2>2, <2>3 DEF Plans
  <2> QED
    BY <2>1, <2>2, <2>4
<1>4. p.cash = Book.cash ++ Cash(legs)
  <2>1. p.cash = IF type = "deposit" THEN cash ++ amount ELSE cash -- amount
    BY DEF planCashFlow, Book
  <2>2. cash ++ (Zero -- amount) = cash -- amount
    BY <1>2, MovesOver
  <2> QED
    BY <1>1, <2>1, <2>2, BookFacts
<1> HIDE DEF p, legs
<1>5. NewLegs(legs, Len(Book.pos)) /\ Gain(legs) = Cash(legs)
  BY <1>1, BookFacts
<1> QED
  BY <1>3, <1>4, <1>5, BookWhole, RecordsWhole DEF p

\* Management fees.
LEMMA FeePlan ==
  ASSUME TypeInv, NEW amount \in Rats
  PROVE  Whole(planFee(amount)) /\ planFee(amount).atCost = {}
<1> DEFINE p == planFee(amount)
           legs == <<CashActivity("management_fee", amount, 0)>>
<1>1. NewLegs(legs, Len(position)) /\ Cash(legs) = Zero -- amount /\ Gain(legs) = Zero -- amount
  <2>1. "management_fee" \in CashTypes /\ Len(position) \in Nat
    BY DEF CashTypes, TypeInv
  <2> QED
    BY <2>1, CashLeg
<1>2. cash \in Rats /\ cash -- amount \in Rats
  BY Setting, RatClosed
<1>3. p \in Plans /\ p.pos = Book.pos /\ p.open = Book.open /\ p.acts = Book.acts \o legs /\ p.atCost = {}
  <2>1. legs \in Seq(Activities)
    BY <1>1 DEF NewLegs
  <2>2. Book \in Plans /\ Book.acts = <<>> /\ Book.atCost = {}
    BY BookFacts
  <2> DEFINE a == Activity("management_fee", NoSymbol, 0)
  <2>5. a \in Activities /\ a.of = 0
    BY NewActivity, Setting DEF ActivityTypes, LooseTypes, CashTypes
  <2> HIDE DEF a
  <2>6. [a EXCEPT !.gross = amount, !.of = 0] = [a EXCEPT !.gross = amount]
    BY <2>5 DEF Activities
  <2>7. legs = <<[a EXCEPT !.gross = amount]>>
    BY <2>6 DEF CashActivity, a
  <2> DEFINE c == cash -- amount
  <2>3. p = [Book EXCEPT !.cash = c, !.effect = Return, !.acts = legs] /\ c \in Rats
    BY <1>2, <2>7 DEF planFee, a
  <2> HIDE DEF p, c, legs
  <2>4. p \in Plans /\ p.pos = Book.pos /\ p.open = Book.open /\ p.acts = legs /\ p.atCost = {}
    BY <2>1, <2>2, <2>3 DEF Plans
  <2> QED
    BY <2>1, <2>2, <2>4
<1>4. p.cash = Book.cash ++ Cash(legs)
  <2>1. p.cash = cash -- amount
    BY DEF planFee, Book
  <2>2. cash ++ (Zero -- amount) = cash -- amount
    BY <1>2, MovesOver
  <2> QED
    BY <1>1, <2>1, <2>2, BookFacts
<1> HIDE DEF p, legs
<1>5. NewLegs(legs, Len(Book.pos)) /\ Gain(legs) = Cash(legs)
  BY <1>1, BookFacts
<1> QED
  BY <1>3, <1>4, <1>5, BookWhole, RecordsWhole DEF p

\* The smaller and the larger of two values.
LEMMA MinMax ==
  ASSUME NEW x \in Rats, NEW y \in Rats
  PROVE  /\ MinRat(x, y) = IF x \preceq y THEN x ELSE y
         /\ MinRat(x, y) \in Rats /\ MinRat(x, y) \preceq x /\ MinRat(x, y) \preceq y
         /\ MaxRat(x, y) = IF x \preceq y THEN y ELSE x
<1>1. <<x, y>> \in Operands
  BY DEF Rats, Operands
<1>2. MinRat(x, y) = IF x \preceq y THEN x ELSE y
  BY <1>1 DEF MinRat, min
<1>3. PICK d \in Nat \ {0}, a \in Int, b \in Int : Stands(x, a, d) /\ Stands(y, b, d)
  BY Common2
<1>4. (x \preceq y <=> a <= b) /\ (y \preceq x <=> b <= a) /\ (x \preceq x <=> a <= a) /\ (y \preceq y <=> b <= b)
  BY <1>3, OverOneDenominator
<1>5. MaxRat(x, y) = IF x \preceq y THEN (x ++ y) -- x ELSE (x ++ y) -- y
  BY <1>2 DEF MaxRat, MinRat
<1>6. (x ++ y) -- x = y /\ (x ++ y) -- y = x
  BY AddCommutes, MovesOver
<1> QED
  BY <1>2, <1>4, <1>5, <1>6

\* Money that came in only to be spent.
LEMMA Spending ==
  ASSUME NEW c \in Rats, NEW f \in Rats, NEW t \in Rats, NEW o \in Rats
  PROVE  /\ (c ++ f) -- t = c ++ (((Zero -- t) ++ f) ++ Zero)
         /\ ((c ++ f) -- t) ++ (o ++ t) = (c ++ o) ++ ((Zero ++ f) ++ Zero)
<1>1. PICK d \in Nat \ {0}, a \in Int, b \in Int, e \in Int, g \in Int :
        Stands(c, a, d) /\ Stands(f, b, d) /\ Stands(t, e, d) /\ Stands(o, g, d)
  BY Common4
<1>2. Stands(Zero, 0, d)
  BY ZeroIsRat
<1>3. /\ Stands(c ++ f, a + b, d) /\ Stands(Zero -- t, 0 - e, d) /\ Stands(o ++ t, g + e, d)
      /\ Stands(c ++ o, a + g, d) /\ Stands(Zero ++ f, 0 + b, d)
  BY <1>1, <1>2, SameDenominator
<1>4. Stands((c ++ f) -- t, (a + b) - e, d) /\ Stands((Zero -- t) ++ f, (0 - e) + b, d) /\ Stands((Zero ++ f) ++ Zero, (0 + b) + 0, d)
  BY <1>1, <1>2, <1>3, SameDenominator
<1>5. /\ Stands(((Zero -- t) ++ f) ++ Zero, ((0 - e) + b) + 0, d)
      /\ Stands(((c ++ f) -- t) ++ (o ++ t), ((a + b) - e) + (g + e), d)
      /\ Stands((c ++ o) ++ ((Zero ++ f) ++ Zero), (a + g) + ((0 + b) + 0), d)
  BY <1>1, <1>2, <1>3, <1>4, SameDenominator
<1>6. Stands(c ++ (((Zero -- t) ++ f) ++ Zero), a + (((0 - e) + b) + 0), d)
  BY <1>1, <1>5, SameDenominator
<1>7. (a + b) - e = a + (((0 - e) + b) + 0) /\ ((a + b) - e) + (g + e) = (a + g) + ((0 + b) + 0)
  OBVIOUS
<1> QED
  BY <1>4, <1>5, <1>6, <1>7, SameDenominatorEqual

\* A row that takes a quantity in at a cost: a new one, or one already open.
Taken(b, s, q, cost) ==
  LET held == findOpenBySymbol(b, s)
      id   == IF held = {} THEN Len(b.pos) + 1 ELSE The(held)
  IN  [id |-> id,
       row |-> IF held = {} THEN Row(s, q, cost // q)
               ELSE [b.pos[id] EXCEPT !.qty = @ ++ q, !.avg = (Basis(b.pos[id]) ++ cost) // (b.pos[id].qty ++ q)]]

\* Taking in a quantity raises the cost of the row by what was paid, and averages stay
\* nonnegative.
LEMMA TakenFacts ==
  ASSUME TypeInv, NEW b, Kept(b), NEW s \in Symbols, NEW q \in Rats, NEW cost \in Rats, Positive(q), Zero \preceq cost
  PROVE  LET i == Taken(b, s, q, cost).id
             r == Taken(b, s, q, cost).row
             o == IF i \in DOMAIN b.pos THEN CostOf(b.pos[i]) ELSE Zero
         IN  /\ i \in 1..(Len(b.pos) + 1) /\ r \in Rows /\ r.status = "open" /\ Positive(r.qty) /\ r.sym = s
             /\ Costed(position) /\ Costed(b.pos) => Zero \preceq r.avg
             /\ o \in Rats /\ CostOf(r) = o ++ cost
<1> DEFINE held == findOpenBySymbol(b, s)
           i == Taken(b, s, q, cost).id
           r == Taken(b, s, q, cost).row
           v == b.pos
<1>1. v \in Seq(Rows) /\ b.open = OpenIds(v) /\ PositiveRows(v)
  BY DEF Kept, BookTyped, PlanTyped, Plans
<1>2. q # Zero /\ Zero \in Rats
  BY SignsOfRats, ZeroIsRat
<1>3. CASE held = {}
  <2>1. i = Len(v) + 1 /\ r = Row(s, q, cost // q)
    BY <1>3 DEF Taken
  <2>2. cost // q \in Rats /\ Zero \preceq (cost // q)
    BY <1>2, RatClosed, SignsOfRats
  <2>3. i \in 1..(Len(v) + 1) /\ i \notin DOMAIN v
    BY <1>1, <2>1
  <2>4. r \in Rows /\ r.status = "open" /\ r.qty = q /\ r.avg = cost // q /\ r.sym = s
    BY <2>1, <2>2, Setting DEF Row, Rows
  <2>5. CostOf(r) = cost
    BY <1>2, <2>4, TimesOver DEF CostOf, Basis
  <2>6. Zero ++ cost = cost
    BY AddZero
  <2> QED
    BY <1>2, <2>2, <2>3, <2>4, <2>5, <2>6
<1>4. CASE held # {}
  <2>1. i = The(held) /\ r = [v[i] EXCEPT !.qty = @ ++ q, !.avg = (Basis(v[i]) ++ cost) // (v[i].qty ++ q)]
    BY <1>4 DEF Taken
  <2>2. i \in 1..Len(v) /\ v[i] \in Rows /\ v[i].sym = s /\ v[i].status = "open"
    BY <1>1, <1>4, <2>1, HeldFacts
  <2> DEFINE x == v[i].qty ++ q  c == Basis(v[i]) ++ cost
  <2> HIDE DEF v, i
  <2>3. v[i].qty \in Rats /\ Positive(v[i].qty) /\ v[i].avg \in Rats /\ Basis(v[i]) \in Rats
    <3>1. v[i].qty \in Rats /\ v[i].avg \in Rats /\ Basis(v[i]) \in Rats
      BY <2>2, RowChanges
    <3>2. i \in DOMAIN v
      BY <1>1, <2>2
    <3> QED
      BY <1>1, <2>2, <3>1, <3>2 DEF PositiveRows
  <2>4. x \in Rats /\ Positive(x) /\ x # Zero /\ c \in Rats
    <3>1. x \in Rats /\ c \in Rats /\ Positive(x)
      BY <2>3, RatClosed, SignsOfRats
    <3> QED
      BY <3>1, SignsOfRats
  <2> HIDE DEF x, c
  <2>5. c // x \in Rats
    BY <2>4, RatClosed
  <2>6. r = [v[i] EXCEPT !.qty = x, !.avg = c // x]
    BY <2>1 DEF x, c
  <2>7. r \in Rows /\ r.qty = x /\ r.avg = c // x /\ r.status = "open" /\ r.sym = s
    BY <2>2, <2>4, <2>5, <2>6 DEF Rows
  <2>8. CostOf(r) = c
    BY <2>4, <2>7, TimesOver DEF CostOf, Basis
  <2>9. CostOf(v[i]) = Basis(v[i])
    BY <2>2 DEF CostOf
  <2>10. ASSUME Costed(v)
         PROVE  Zero \preceq r.avg
    <3>1. Zero \preceq v[i].avg
      BY <2>2, <2>10 DEF Costed
    <3>2. Zero \preceq v[i].qty
      BY <2>3, SignsOfRats, <1>2
    <3>3. Zero \preceq Basis(v[i])
      BY <2>3, <3>1, <3>2, SignsOfRats DEF Basis
    <3>4. Zero \preceq c
      BY <2>3, <3>3, SignsOfRats DEF c
    <3> QED
      BY <2>4, <2>7, <3>4, SignsOfRats
  <2>11. i \in 1..(Len(v) + 1) /\ i \in DOMAIN v
    BY <1>1, <2>2
  <2> QED
    BY <2>3, <2>4, <2>7, <2>8, <2>9, <2>10, <2>11 DEF i, v, c
<1> QED
  BY <1>3, <1>4

\* A leg made by a plan that is no correction.
LEMMA PlainLeg ==
  ASSUME TypeInv, NEW a \in Activities, NEW n \in Nat, a.of = 0, a.created = Now, a.at \in 1..Now,
         ~Backdating => a.at = Now, WellFormed(a, n)
  PROVE  /\ NewLeg(a, n) /\ Uncorrecting(a)
         /\ NewLegs(<<a>>, n) /\ Cash(<<a>>) = CashEffectOf(a) /\ Gain(<<a>>) = GainOf(a)
<1>1. NewLeg(a, n) /\ Uncorrecting(a)
  <2>1. a.at <= Now /\ Now >= trusted.at
    BY Setting
  <2> QED
    BY <2>1 DEF NewLeg, Uncorrecting
<1> QED
  BY <1>1, OneLeg

\* Every type of a leg that names an episode.
EpisodeTypes == ActivityTypes \ CashTypes

\* The leg a plan makes for an episode, before it fills in the amounts.
LEMMA EpisodeLeg ==
  ASSUME TypeInv, NEW type \in EpisodeTypes, NEW s \in Symbols, NEW n \in Nat, NEW e \in 1..n
  PROVE  LET a == Activity(type, s, e) IN
         /\ a \in Activities /\ a.type = type /\ a.sym = s /\ a.ep = e /\ a.of = 0 /\ a.at = Now /\ a.created = Now
         /\ a.gross = Zero /\ a.fee = Zero /\ a.realized = Zero /\ a.basis = Zero
         /\ (a.type # "sell" => WellFormed(a, n)) /\ Now \in 1..Now
<1>1. type \in ActivityTypes /\ s \in Symbols \cup {NoSymbol} /\ e \in Nat /\ Now \in Nat
  BY Setting DEF EpisodeTypes
<1>2. Activity(type, s, e) \in Activities
  BY <1>1, NewActivity
<1>3. Now \in 1..Now
  BY <1>1 DEF Now, TypeInv
<1> QED
  BY <1>2, <1>3 DEF Activity, WellFormed, EpisodeTypes

\* What a plan over the book is, when it puts one row.
PutPlan(p, i, r, legs, c) ==
  /\ p.pos = PutRow(position, i, r) /\ p.cash = c /\ p.acts = legs
  /\ p.open = IF r.status = "open" THEN OpenIds(position) \cup {i} ELSE OpenIds(position) \ {i}

\* Such a plan puts one row over the book.
LEMMA PutPlanFits ==
  ASSUME TypeInv, NEW i \in 1..(Len(position) + 1), NEW r \in Rows, NEW legs, NEW c \in Rats, NEW p,
         PutPlan(p, i, r, legs, c), r.status = "open" => Positive(r.qty), Costed(position) => Zero \preceq r.avg,
         p = [pos |-> p.pos, open |-> p.open, cash |-> p.cash, acts |-> p.acts, effect |-> p.effect,
              ret |-> p.ret, inv |-> p.inv, atCost |-> p.atCost],
         p.effect \in {Neutral, Return}, p.ret \in Rats, p.inv \in BOOLEAN, p.atCost \in SUBSET Nat,
         NewLegs(legs, Len(PutRow(position, i, r)))
  PROVE  Puts(p, Book, i, r, legs)
<1>1. Book.pos = position /\ Book.open = OpenIds(position) /\ Book.acts = <<>>
  BY BookFacts
<1>2. position \in Seq(Rows)
  BY DEF TypeInv
<1>3. PutRow(position, i, r) \in Seq(Rows)
  BY <1>2, PutRowTyped
<1>4. p.open \in SUBSET Nat
  BY <1>2 DEF PutPlan, OpenIds
<1>5. legs \in Seq(Activities)
  BY DEF NewLegs
<1>6. p \in Plans
  BY <1>3, <1>4, <1>5 DEF PutPlan, Plans
<1> QED
  BY <1>1, <1>5, <1>6 DEF PutPlan, Puts

\* A purchase is whole: the auto-deposit, the trade and its fee together.
LEMMA BuyPlan ==
  ASSUME TypeInv, NEW s \in Symbols, NEW q \in Rats, NEW p \in Rats, NEW f \in Rats,
         Positive(q), Positive(p), Zero \preceq f
  PROVE  Whole(planBuy(s, q, p, f)) /\ planBuy(s, q, p, f).atCost = {}
<1> DEFINE gross == q ** p
           total == gross ++ f
           funding == MaxRat(total -- cash, Zero)
           i == Taken(Book, s, q, total).id
           r == Taken(Book, s, q, total).row
           n == Len(PutRow(position, i, r))
           buy == [Activity("buy", s, i) EXCEPT !.qty = q, !.gross = gross, !.fee = f, !.net = total]
           fundLeg == IF Positive(funding) THEN <<CashActivity("deposit", funding, 0)>> ELSE <<>>
           feeLeg == FeeLeg("buy_fee", s, i, f)
           legs == (<<buy>> \o fundLeg) \o feeLeg
           c == (cash ++ funding) -- total
           plan == planBuy(s, q, p, f)
           o == IF i \in DOMAIN Book.pos THEN CostOf(Book.pos[i]) ELSE Zero
<1>1. /\ plan = [Book EXCEPT !.pos = PutRow(position, i, r), !.open = @ \cup {i}, !.cash = c, !.acts = legs,
                             !.ret = Zero -- f]
  BY BookFacts DEF planBuy, Taken
<1>2. gross \in Rats /\ total \in Rats /\ Positive(gross) /\ Zero \preceq total /\ Zero -- f \in Rats /\ Zero \in Rats
  <2>1. gross \in Rats /\ Positive(gross) /\ Zero \in Rats
    BY RatClosed, SignsOfRats, ZeroIsRat
  <2>2. total \in Rats /\ Positive(total) /\ Zero -- f \in Rats
    BY <2>1, RatClosed, SignsOfRats
  <2> QED
    BY <2>1, <2>2, SignsOfRats
<1> HIDE DEF gross, plan
<1>3. cash \in Rats /\ total -- cash \in Rats /\ funding \in Rats
  <2>1. cash \in Rats /\ total -- cash \in Rats
    BY <1>2, Setting, RatClosed
  <2> QED
    BY <1>2, <2>1, MinMax
<1> HIDE DEF total
<1>4. c \in Rats
  BY <1>2, <1>3, RatClosed
<1>5. /\ i \in 1..(Len(position) + 1) /\ r \in Rows /\ r.status = "open" /\ Positive(r.qty)
      /\ Costed(position) => Zero \preceq r.avg
      /\ o \in Rats /\ CostOf(r) = o ++ total
  BY <1>2, BookFacts, TakenFacts
<1> HIDE DEF i, r, o
<1>6. position \in Seq(Rows) /\ n \in Nat /\ i \in 1..n
  <2>1. position \in Seq(Rows)
    BY DEF TypeInv
  <2>2. PutRow(position, i, r) \in Seq(Rows) /\ i <= Len(PutRow(position, i, r))
    BY <1>5, <2>1, PutRowTyped
  <2>3. n \in Nat
    BY <2>2
  <2> QED
    BY <1>5, <2>1, <2>2, <2>3
<1> HIDE DEF n
<1>7. NewLegs(<<buy>>, n) /\ Cash(<<buy>>) = Zero -- total /\ Gain(<<buy>>) = Zero
  <2>1. "buy" \in EpisodeTypes
    BY DEF EpisodeTypes, ActivityTypes, CashTypes
  <2> DEFINE a == Activity("buy", s, i)
  <2>2. a \in Activities /\ a.type = "buy" /\ a.of = 0 /\ a.at = Now /\ a.created = Now /\ WellFormed(a, n) /\ Now \in 1..Now
    BY <1>6, <2>1, EpisodeLeg
  <2> HIDE DEF a
  <2>3. /\ buy \in Activities /\ buy.type = "buy" /\ buy.of = 0 /\ buy.at = Now /\ buy.created = Now
        /\ buy.gross = gross /\ buy.fee = f /\ buy.ep = a.ep /\ buy.sym = a.sym
    BY <1>2, <2>2 DEF Activities, a
  <2> HIDE DEF buy
  <2>4. WellFormed(buy, n)
    BY <2>2, <2>3 DEF WellFormed
  <2>5. CashEffectOf(buy) = Zero -- total /\ GainOf(buy) = Zero
    BY <2>3 DEF CashEffectOf, GainOf, total
  <2> QED
    BY <1>6, <2>2, <2>3, <2>4, <2>5, PlainLeg
<1>8. NewLegs(fundLeg, n) /\ Cash(fundLeg) = funding /\ Gain(fundLeg) = funding
  <2>1. CASE Positive(funding)
    <3>1. "deposit" \in CashTypes
      BY DEF CashTypes
    <3> QED
      BY <1>3, <1>6, <2>1, <3>1, CashLeg
  <2>2. CASE ~Positive(funding)
    <3>1. Zero \preceq funding
      BY <1>2, <1>3, MinMax
    <3>2. funding = Zero
      BY <1>2, <1>3, <2>2, <3>1, SignsOfRats
    <3> QED
      BY <1>7, <2>2, <3>2, MoreLegs
  <2> QED
    BY <2>1, <2>2
<1>9. NewLegs(feeLeg, n) /\ Cash(feeLeg) = Zero /\ Gain(feeLeg) = Zero
  BY <1>6, FeeLegs
<1> HIDE DEF buy, fundLeg, feeLeg, funding
<1>10. NewLegs(<<buy>> \o fundLeg, n) /\ Cash(<<buy>> \o fundLeg) = (Zero -- total) ++ funding
       /\ Gain(<<buy>> \o fundLeg) = Zero ++ funding
  BY <1>7, <1>8, MoreLegs
<1> DEFINE most == <<buy>> \o fundLeg
<1> HIDE DEF most
<1>11. NewLegs(legs, n) /\ Cash(legs) = ((Zero -- total) ++ funding) ++ Zero /\ Gain(legs) = (Zero ++ funding) ++ Zero
  BY <1>9, <1>10, MoreLegs DEF most
<1> HIDE DEF legs
<1>12. c = cash ++ Cash(legs) /\ c ++ CostOf(r) = (cash ++ o) ++ Gain(legs)
  <2>1. /\ (cash ++ funding) -- total = cash ++ (((Zero -- total) ++ funding) ++ Zero)
        /\ ((cash ++ funding) -- total) ++ (o ++ total) = (cash ++ o) ++ ((Zero ++ funding) ++ Zero)
    BY <1>2, <1>3, <1>5, Spending
  <2> QED
    BY <1>5, <1>11, <2>1
<1> HIDE DEF c
<1>13. /\ PutPlan(plan, i, r, legs, c) /\ plan.effect \in {Neutral, Return} /\ plan.ret \in Rats /\ plan.inv \in BOOLEAN
       /\ plan.atCost = {} /\ plan.acts = legs
       /\ plan = [pos |-> plan.pos, open |-> plan.open, cash |-> plan.cash, acts |-> plan.acts, effect |-> plan.effect,
                  ret |-> plan.ret, inv |-> plan.inv, atCost |-> plan.atCost]
  BY <1>1, <1>2, <1>5 DEF Book, PutPlan
<1>14. Puts(plan, Book, i, r, legs)
  BY <1>4, <1>5, <1>11, <1>13, PutPlanFits DEF n
<1>15. plan.cash = c /\ Book.cash = cash
  BY <1>13, BookFacts DEF PutPlan
<1>16. Whole(plan)
  BY <1>12, <1>14, <1>15, BookWhole, PutsWhole DEF o
<1> QED
  BY <1>13, <1>16 DEF plan

\* A sale exchanges cost for proceeds, and the difference is what it realizes.
LEMMA Selling ==
  ASSUME NEW c \in Rats, NEW t \in Rats, NEW a \in Rats, NEW o \in Rats
  PROVE  /\ c ++ t = c ++ (t ++ Zero)
         /\ (c ++ t) ++ (o -- a) = (c ++ o) ++ ((t -- a) ++ Zero)
<1>1. PICK d \in Nat \ {0}, u \in Int, v \in Int, w \in Int, x \in Int :
        Stands(c, u, d) /\ Stands(t, v, d) /\ Stands(a, w, d) /\ Stands(o, x, d)
  BY Common4
<1>2. Stands(Zero, 0, d)
  BY ZeroIsRat
<1>3. /\ Stands(c ++ t, u + v, d) /\ Stands(o -- a, x - w, d) /\ Stands(c ++ o, u + x, d) /\ Stands(t -- a, v - w, d)
  BY <1>1, <1>2, SameDenominator
<1>4. Stands((c ++ t) ++ (o -- a), (u + v) + (x - w), d) /\ Stands((t -- a) ++ Zero, (v - w) + 0, d)
  BY <1>2, <1>3, SameDenominator
<1>5. Stands((c ++ o) ++ ((t -- a) ++ Zero), (u + x) + ((v - w) + 0), d)
  BY <1>3, <1>4, SameDenominator
<1>6. (u + v) + (x - w) = (u + x) + ((v - w) + 0)
  OBVIOUS
<1> QED
  BY <1>4, <1>5, <1>6, SameDenominatorEqual, AddZero

\* What is left of a row after a part of it is gone, at an unchanged average.
LEMMA Remainder ==
  ASSUME NEW r, r \in Rows, r.status = "open", NEW q \in Rats, q \preceq r.qty,
         NEW w, w \in Rows,
         w = IF r.qty -- q = Zero THEN [r EXCEPT !.status = "closed"] ELSE [r EXCEPT !.qty = r.qty -- q]
  PROVE  /\ CostOf(w) = CostOf(r) -- (q ** r.avg) /\ CostOf(r) \in Rats /\ q ** r.avg \in Rats
         /\ w.avg = r.avg /\ (w.status = "open" <=> r.qty -- q # Zero)
         /\ w.status = "open" => Positive(w.qty)
<1>1. r.qty \in Rats /\ r.avg \in Rats /\ Basis(r) \in Rats
  BY RowChanges
<1> DEFINE left == r.qty -- q
<1>2. left \in Rats /\ q ** r.avg \in Rats /\ CostOf(r) = Basis(r)
  BY <1>1, RatClosed DEF CostOf
<1>3. (r.qty = q <=> left = Zero) /\ (left # Zero => Positive(left))
  <2>1. r.qty = q => left = Zero
    BY <1>1, AddZero
  <2>2. r.qty # q => Positive(left)
    BY <1>1, SignsOfRats
  <2>3. Positive(left) => left # Zero
    BY <1>2, SignsOfRats
  <2> QED
    BY <2>1, <2>2, <2>3
<1>4. CASE left = Zero
  <2>1. w.status = "closed" /\ w.avg = r.avg
    BY <1>4 DEF Rows
  <2>2. Basis(r) -- (q ** r.avg) = Zero
    BY <1>1, <1>3, <1>4, AddZero DEF Basis
  <2> QED
    BY <1>1, <1>2, <1>4, <2>1, <2>2 DEF CostOf
<1>5. CASE left # Zero
  <2>1. w.status = "open" /\ w.avg = r.avg /\ w.qty = left
    BY <1>5 DEF Rows
  <2>2. left ** r.avg = (r.qty ** r.avg) -- (q ** r.avg)
    BY <1>1, Distributes
  <2> QED
    BY <1>1, <1>2, <1>3, <1>5, <2>1, <2>2 DEF CostOf, Basis
<1> QED
  BY <1>4, <1>5

\* The naturals, under a name the provers do not take apart: of a date and a row
\* SaleLeg only needs that they are numbers.
Numbers == Nat

\* The leg of a sale, a correction included.
LEMMA SaleLeg ==
  ASSUME TypeInv, NEW i \in DOMAIN position, NEW q \in Rats, NEW p \in Rats, NEW f \in Rats,
         NEW at \in Numbers, NEW of \in Numbers
  PROVE  LET a == SaleActivity(i, q, p, f, at, of) IN
         /\ a \in Activities /\ a.type = "sell" /\ a.sym = position[i].sym /\ a.ep = i /\ a.at = at /\ a.created = Now
         /\ a.of = of /\ a.net = (q ** p) -- f /\ a.net \in Rats /\ a.gross = q ** p /\ a.fee = f
         /\ a.realized = ((q ** p) -- f) -- (q ** position[i].avg)
         /\ CashEffectOf(a) = (q ** p) -- f
<1>0. at \in Nat /\ of \in Nat
  BY DEF Numbers
<1>1. "sell" \in EpisodeTypes /\ i \in 1..Len(position) /\ Len(position) \in Nat
  BY DEF EpisodeTypes, ActivityTypes, CashTypes, TypeInv
<1>2. position[i] \in Rows
  BY DEF TypeInv
<1>3. position[i].sym \in Symbols /\ position[i].avg \in Rats
  BY <1>2, ZeroIsRat, RowChanges
<1> DEFINE s == position[i].sym  v == position[i].avg  a == Activity("sell", s, i)
           w == SaleActivity(i, q, p, f, at, of)
<1>4. a \in Activities /\ a.type = "sell" /\ a.sym = s /\ a.ep = i /\ a.created = Now
  BY <1>1, <1>3, EpisodeLeg
<1>5. q ** p \in Rats /\ (q ** p) -- f \in Rats /\ q ** v \in Rats /\ ((q ** p) -- f) -- (q ** v) \in Rats
  BY <1>3, RatClosed
<1>6. w = [a EXCEPT !.qty = q, !.gross = q ** p, !.fee = f, !.net = (q ** p) -- f, !.basis = q ** v,
             !.realized = ((q ** p) -- f) -- (q ** v), !.at = at, !.of = of]
  BY DEF SaleActivity, NetProceeds
<1> HIDE DEF a, s, v, w
<1>7. /\ w \in Activities /\ w.type = "sell" /\ w.sym = s /\ w.ep = i /\ w.at = at /\ w.created = Now
      /\ w.of = of /\ w.net = (q ** p) -- f /\ w.gross = q ** p /\ w.fee = f
      /\ w.realized = ((q ** p) -- f) -- (q ** v)
  BY <1>0, <1>4, <1>5, <1>6 DEF Activities
<1>8. CashEffectOf(w) = (q ** p) -- f
  BY <1>7 DEF CashEffectOf
<1> QED
  BY <1>5, <1>7, <1>8 DEF s, v, w

\* A sale, of a part or of everything, is whole.
LEMMA SellPlan ==
  ASSUME TypeInv, NEW i \in OpenIds(position), NEW q \in Rats, NEW p \in Rats, NEW f \in Rats, q \preceq position[i].qty
  PROVE  Whole(planSell(i, q, p, f)) /\ planSell(i, q, p, f).atCost = {}
<1> DEFINE v == position[i]
           left == v.qty -- q
           sale == SaleActivity(i, q, p, f, Now, 0)
           r == IF left = Zero THEN [v EXCEPT !.status = "closed"] ELSE [v EXCEPT !.qty = left]
           n == Len(PutRow(position, i, r))
           feeLeg == FeeLeg("sell_fee", v.sym, i, f)
           legs == <<sale>> \o feeLeg
           c == cash ++ sale.net
           plan == planSell(i, q, p, f)
           o == IF i \in DOMAIN Book.pos THEN CostOf(Book.pos[i]) ELSE Zero
           t == (q ** p) -- f
           g == q ** v.avg
<1>1. plan = [Book EXCEPT !.pos = PutRow(position, i, r), !.open = IF left = Zero THEN @ \ {i} ELSE @, !.cash = c,
                          !.acts = legs, !.effect = SaleEffect(i, p, f)]
  BY DEF planSell
<1> HIDE DEF plan
<1>2. i \in 1..Len(position) /\ v \in Rows /\ v.status = "open" /\ position \in Seq(Rows) /\ v.sym \in Symbols
  BY Setting, ZeroIsRat, RowChanges DEF TypeInv
<1>3. Now \in Nat /\ 0 \in Nat /\ cash \in Rats
  BY Setting
<1>4. /\ sale \in Activities /\ sale.type = "sell" /\ sale.sym = v.sym /\ sale.ep = i /\ sale.at = Now /\ sale.created = Now
      /\ sale.of = 0 /\ sale.net = t /\ t \in Rats /\ sale.gross = q ** p /\ sale.fee = f /\ sale.realized = t -- g
      /\ CashEffectOf(sale) = t
  <2> DEFINE z == 0  y == Now  a == SaleActivity(i, q, p, f, y, z)
  <2>1. y \in Numbers /\ z \in Numbers /\ i \in DOMAIN position
    BY <1>2, <1>3 DEF Numbers
  <2> HIDE DEF z, y
  <2>2. /\ a \in Activities /\ a.type = "sell" /\ a.sym = position[i].sym /\ a.ep = i /\ a.at = y /\ a.created = Now
        /\ a.of = z /\ a.net = (q ** p) -- f /\ a.net \in Rats /\ a.gross = q ** p /\ a.fee = f
        /\ a.realized = ((q ** p) -- f) -- (q ** position[i].avg)
        /\ CashEffectOf(a) = (q ** p) -- f
    BY <1>2, <2>1, SaleLeg
  <2> QED
    BY <2>2 DEF z, y
<1> HIDE DEF sale
<1>5. r \in Rows
  <2>1. v.qty \in Rats
    BY <1>2, ZeroIsRat, RowChanges
  <2>2. left \in Rats
    BY <2>1, RatClosed
  <2> QED
    BY <1>2, <2>2, RowChanges
<1>6. /\ CostOf(r) = CostOf(v) -- g /\ CostOf(v) \in Rats /\ g \in Rats
      /\ r.avg = v.avg /\ (r.status = "open" <=> left # Zero) /\ (r.status = "open" => Positive(r.qty))
  <2> HIDE DEF v
  <2>1. r = IF v.qty -- q = Zero THEN [v EXCEPT !.status = "closed"] ELSE [v EXCEPT !.qty = v.qty -- q]
    OBVIOUS
  <2>2. q \preceq v.qty
    BY DEF v
  <2> HIDE DEF r
  <2>3. /\ CostOf(r) = CostOf(v) -- (q ** v.avg) /\ CostOf(v) \in Rats /\ q ** v.avg \in Rats
        /\ r.avg = v.avg /\ (r.status = "open" <=> v.qty -- q # Zero) /\ (r.status = "open" => Positive(r.qty))
    BY <1>2, <1>5, <2>1, <2>2, Remainder
  <2> QED
    BY <2>3
<1> HIDE DEF r, left
<1>7. n \in Nat /\ i \in 1..n /\ i \in 1..(Len(position) + 1)
  <2>1. i \in 1..(Len(position) + 1)
    BY <1>2
  <2>2. PutRow(position, i, r) \in Seq(Rows) /\ i <= Len(PutRow(position, i, r))
    BY <1>2, <1>5, <2>1, PutRowTyped
  <2>3. n \in Nat
    BY <2>2
  <2> QED
    BY <1>2, <2>1, <2>2, <2>3
<1> HIDE DEF n
<1>8. NewLegs(<<sale>>, n) /\ Cash(<<sale>>) = t /\ Gain(<<sale>>) = t -- g
  <2>1. WellFormed(sale, n)
    BY <1>2, <1>4, <1>7 DEF WellFormed, CashTypes, LooseTypes
  <2>2. GainOf(sale) = t -- g
    BY <1>4 DEF GainOf
  <2>3. Now \in 1..Now
    BY <1>3 DEF Now, TypeInv
  <2> QED
    BY <1>4, <1>7, <2>1, <2>2, <2>3, PlainLeg
<1>9. NewLegs(feeLeg, n) /\ Cash(feeLeg) = Zero /\ Gain(feeLeg) = Zero
  BY <1>2, <1>7, FeeLegs
<1> HIDE DEF feeLeg
<1>10. NewLegs(legs, n) /\ Cash(legs) = t ++ Zero /\ Gain(legs) = (t -- g) ++ Zero
  BY <1>8, <1>9, MoreLegs
<1> HIDE DEF legs
<1>11. o = CostOf(v) /\ c = cash ++ t
  BY <1>2, <1>4, BookFacts
<1> HIDE DEF t, g, o
<1>12. c \in Rats /\ c = cash ++ Cash(legs) /\ c ++ CostOf(r) = (cash ++ o) ++ Gain(legs)
  BY <1>3, <1>4, <1>6, <1>10, <1>11, Selling, RatClosed
<1> HIDE DEF c
<1>13. i \in OpenIds(position) /\ Costed(position) => Zero \preceq r.avg
  BY <1>2, <1>6 DEF Costed
<1>14. /\ PutPlan(plan, i, r, legs, c) /\ plan.effect \in {Neutral, Return} /\ plan.ret \in Rats /\ plan.inv \in BOOLEAN
       /\ plan.atCost = {}
       /\ plan = [pos |-> plan.pos, open |-> plan.open, cash |-> plan.cash, acts |-> plan.acts, effect |-> plan.effect,
                  ret |-> plan.ret, inv |-> plan.inv, atCost |-> plan.atCost]
  BY <1>1, <1>6, ZeroIsRat DEF Book, PutPlan, SaleEffect
<1>15. Puts(plan, Book, i, r, legs)
  BY <1>5, <1>6, <1>7, <1>10, <1>12, <1>13, <1>14, PutPlanFits DEF n
<1>16. plan.cash = c /\ Book.cash = cash
  BY <1>14, BookFacts DEF PutPlan
<1>17. Whole(plan)
  BY <1>12, <1>15, <1>16, BookWhole, PutsWhole DEF o
<1> QED
  BY <1>14, <1>17 DEF plan

\* The fields of a plan that bears no type by itself.
Fields(p) ==
  /\ p = [pos |-> p.pos, open |-> p.open, cash |-> p.cash, acts |-> p.acts, effect |-> p.effect,
          ret |-> p.ret, inv |-> p.inv, atCost |-> p.atCost]
  /\ p.effect \in {Neutral, Return} /\ p.ret \in Rats /\ p.inv \in BOOLEAN

\* A plan that changes one open row and records one leg.
LEMMA OneRowPlan ==
  ASSUME TypeInv, NEW i \in OpenIds(position), NEW r \in Rows, NEW a, NEW p,
         PutPlan(p, i, r, <<a>>, cash), Fields(p), p.atCost \in SUBSET Nat,
         r.status = "open" => Positive(r.qty), Costed(position) => Zero \preceq r.avg,
         a \in Activities, a.of = 0, a.created = Now, a.at \in 1..Now, ~Backdating => a.at = Now, WellFormed(a, Len(position)),
         CashEffectOf(a) = Zero, cash ++ CostOf(r) = (cash ++ CostOf(position[i])) ++ GainOf(a)
  PROVE  Whole(p)
<1>1. i \in 1..Len(position) /\ position \in Seq(Rows) /\ cash \in Rats /\ i \in DOMAIN position
  BY Setting DEF TypeInv
<1> DEFINE n == Len(PutRow(position, i, r))  legs == <<a>>
<1>2. n \in Nat /\ n = Len(position) /\ i \in 1..(Len(position) + 1)
  <2>1. i \in 1..(Len(position) + 1)
    BY <1>1
  <2>2. PutRow(position, i, r) \in Seq(Rows) /\ DOMAIN PutRow(position, i, r) = DOMAIN position \cup {i}
    BY <1>1, <2>1, PutRowTyped
  <2>3. DOMAIN PutRow(position, i, r) = DOMAIN position
    BY <1>1, <2>2
  <2>4. DOMAIN position = 1..Len(position) /\ DOMAIN PutRow(position, i, r) = 1..n /\ n \in Nat /\ Len(position) \in Nat
    BY <1>1, <2>2
  <2> QED
    BY <2>1, <2>3, <2>4
<1>3. NewLegs(legs, n) /\ Cash(legs) = Zero /\ Gain(legs) = GainOf(a)
  BY <1>2, PlainLeg
<1> HIDE DEF n, legs
<1>4. Puts(p, Book, i, r, legs)
  BY <1>1, <1>2, <1>3, PutPlanFits DEF n, Fields, legs
<1>5. p.cash = cash /\ Book.cash = cash /\ Book.pos = position
  BY BookFacts DEF PutPlan
<1>6. cash = cash ++ Cash(legs)
  BY <1>1, <1>3, AddZero
<1>7. LET old == IF i \in DOMAIN Book.pos THEN CostOf(Book.pos[i]) ELSE Zero IN
      p.cash ++ CostOf(r) = (Book.cash ++ old) ++ Gain(legs)
  BY <1>1, <1>3, <1>5
<1> QED
  BY <1>4, <1>5, <1>6, <1>7, BookWhole, PutsWhole

\* A write-off is whole, and is valued at cost.
LEMMA WriteOffPlan ==
  ASSUME TypeInv, NEW i \in OpenIds(position), ~Quoted(position[i].sym)
  PROVE  Whole(planWriteOff(i)) /\ planWriteOff(i).atCost = {i}
<1> DEFINE v == position[i]  s == v.sym  B == Basis(v)  e == Activity("write_off", s, i)
           a == [e EXCEPT !.qty = v.qty, !.basis = B, !.realized = Zero -- B]
           r == [v EXCEPT !.status = "closed"]
           p == planWriteOff(i)
<1>1. i \in 1..Len(position) /\ v \in Rows /\ v.status = "open" /\ Len(position) \in Nat /\ cash \in Rats /\ i \in DOMAIN position
  BY Setting DEF TypeInv
<1>2. v.qty \in Rats /\ v.avg \in Rats /\ s \in Symbols /\ B \in Rats /\ Zero -- B \in Rats /\ r \in Rows
  BY <1>1, ZeroIsRat, RowChanges, RatClosed
<1>3. "write_off" \in EpisodeTypes
  BY DEF EpisodeTypes, ActivityTypes, CashTypes
<1>4. e \in Activities /\ e.type = "write_off" /\ e.sym = s /\ e.ep = i /\ e.of = 0 /\ e.at = Now /\ e.created = Now /\ Now \in 1..Now
      /\ WellFormed(e, Len(position))
  BY <1>1, <1>2, <1>3, EpisodeLeg
<1>5. p = [Book EXCEPT !.pos = PutRow(position, i, r), !.open = @ \ {i}, !.atCost = {i}, !.effect = Return, !.acts = <<a>>]
  BY DEF planWriteOff
<1>6. CostOf(v) = B /\ r.avg = v.avg /\ r.status = "closed"
  BY <1>1 DEF CostOf, Rows
<1> HIDE DEF p, B, e, s, v, r
<1>7. /\ a \in Activities /\ a.of = 0 /\ a.created = Now /\ a.at = Now /\ a.type = "write_off" /\ a.realized = Zero -- B
      /\ a.ep = e.ep /\ a.sym = e.sym
  BY <1>2, <1>4 DEF Activities
<1>8. WellFormed(a, Len(position)) /\ CashEffectOf(a) = Zero /\ GainOf(a) = Zero -- B
  BY <1>4, <1>7 DEF WellFormed, CashEffectOf, GainOf
<1> HIDE DEF a
<1>9. PutPlan(p, i, r, <<a>>, cash) /\ Fields(p) /\ p.atCost = {i}
  BY <1>5, <1>6, ZeroIsRat DEF Book, PutPlan, Fields
<1>10. cash ++ CostOf(r) = (cash ++ CostOf(v)) ++ GainOf(a)
  <2>1. CostOf(r) = Zero
    BY <1>6 DEF CostOf
  <2>2. (cash ++ B) ++ (Zero -- B) = (cash ++ B) -- B /\ (cash ++ B) -- B = cash
    BY <1>1, <1>2, RatClosed, MovesOver
  <2> QED
    BY <1>1, <1>6, <1>8, <2>1, <2>2, AddZero
<1>11. Costed(position) => Zero \preceq r.avg
  BY <1>1, <1>6 DEF Costed, v
<1>12. {i} \in SUBSET Nat
  BY <1>1
<1>13. ~(r.status = "open") /\ a.at \in 1..Now
  BY <1>4, <1>6, <1>7
<1>14. Whole(p)
  BY <1>2, <1>7, <1>8, <1>9, <1>10, <1>11, <1>12, <1>13, OneRowPlan DEF v
<1> QED
  BY <1>9, <1>14 DEF p

\* A split is whole.
LEMMA SplitPlan ==
  ASSUME TypeInv, NEW i \in OpenIds(position), NEW ratio \in Ratios, NEW at \in Dates
  PROVE  Whole(planSplit(i, ratio, at)) /\ planSplit(i, ratio, at).atCost = {}
<1> DEFINE v == position[i]  s == v.sym  e == Activity("split", s, i)  q == v.qty ** ratio  c == v.avg // ratio
           a == [e EXCEPT !.qty = q, !.ratio = ratio, !.at = at]
           r == [v EXCEPT !.qty = q, !.avg = c]
           p == planSplit(i, ratio, at)
<1>1. i \in 1..Len(position) /\ v \in Rows /\ v.status = "open" /\ Len(position) \in Nat /\ cash \in Rats /\ i \in DOMAIN position
      /\ Positive(v.qty)
  BY Setting DEF TypeInv
<1>2. ratio \in Rats /\ Positive(ratio) /\ ratio # Zero
  BY LedgerAssumption, SignsOfRats, RatStands
<1>3. v.qty \in Rats /\ v.avg \in Rats /\ s \in Symbols
  BY <1>1, ZeroIsRat, RowChanges
<1>4. q \in Rats /\ c \in Rats /\ Positive(q) /\ q ** c = v.qty ** v.avg /\ (Zero \preceq v.avg => Zero \preceq c)
  BY <1>1, <1>2, <1>3, RatClosed, SignsOfRats, SplitKeepsBasis
<1>5. at \in Nat /\ at \in 1..Now /\ (~Backdating => at = Now)
  BY Setting, LedgerAssumption DEF Dates, Now, TypeInv
<1>6. "split" \in EpisodeTypes
  BY DEF EpisodeTypes, ActivityTypes, CashTypes
<1>7. e \in Activities /\ e.type = "split" /\ e.sym = s /\ e.ep = i /\ e.of = 0 /\ e.created = Now
      /\ WellFormed(e, Len(position))
  BY <1>1, <1>3, <1>6, EpisodeLeg
<1>8. p = [Book EXCEPT !.pos = PutRow(position, i, r), !.acts = <<a>>, !.inv = TRUE]
  BY DEF planSplit
<1> HIDE DEF p, e, s, v, q, c
<1>9. r \in Rows /\ r.qty = q /\ r.avg = c /\ r.status = "open" /\ CostOf(r) = CostOf(v)
  BY <1>1, <1>3, <1>4 DEF Rows, CostOf, Basis
<1> HIDE DEF r
<1>10. /\ a \in Activities /\ a.of = 0 /\ a.created = Now /\ a.at = at /\ a.type = "split"
       /\ a.ep = e.ep /\ a.sym = e.sym
  BY <1>2, <1>4, <1>5, <1>7 DEF Activities
<1>11. WellFormed(a, Len(position)) /\ CashEffectOf(a) = Zero /\ GainOf(a) = Zero
  BY <1>7, <1>10 DEF WellFormed, CashEffectOf, GainOf
<1> HIDE DEF a
<1>12. OpenIds(position) = OpenIds(position) \cup {i}
  OBVIOUS
<1>13. PutPlan(p, i, r, <<a>>, cash) /\ Fields(p) /\ p.atCost = {}
  BY <1>8, <1>9, <1>12, ZeroIsRat DEF Book, PutPlan, Fields
<1>14. cash ++ CostOf(r) = (cash ++ CostOf(v)) ++ GainOf(a)
  <2>1. CostOf(v) \in Rats
    BY <1>1, <1>3, RatClosed DEF CostOf, Basis
  <2>2. cash ++ CostOf(v) \in Rats
    BY <1>1, <2>1, RatClosed
  <2> QED
    BY <1>9, <1>11, <2>2, AddZero
<1>15. Costed(position) => Zero \preceq r.avg
  BY <1>1, <1>4, <1>9 DEF Costed, v
<1>16. Positive(r.qty) /\ a.at \in 1..Now /\ (~Backdating => a.at = Now)
  BY <1>4, <1>5, <1>9, <1>10
<1>17. Whole(p)
  BY <1>9, <1>10, <1>11, <1>13, <1>14, <1>15, <1>16, OneRowPlan DEF v
<1> QED
  BY <1>13, <1>17 DEF p

\* A symbol change is whole.
LEMMA SymbolChangePlan ==
  ASSUME TypeInv, NEW i \in OpenIds(position), NEW s \in Symbols
  PROVE  Whole(planSymbolChange(i, s)) /\ planSymbolChange(i, s).atCost = {}
<1> DEFINE v == position[i]  a == Activity("symbol_change", s, i)
           r == [v EXCEPT !.sym = s]
           p == planSymbolChange(i, s)
<1>1. i \in 1..Len(position) /\ v \in Rows /\ v.status = "open" /\ Len(position) \in Nat /\ cash \in Rats /\ i \in DOMAIN position
      /\ Positive(v.qty)
  BY Setting DEF TypeInv
<1>2. "symbol_change" \in EpisodeTypes
  BY DEF EpisodeTypes, ActivityTypes, CashTypes
<1>3. a \in Activities /\ a.type = "symbol_change" /\ a.of = 0 /\ a.created = Now /\ a.at = Now /\ Now \in 1..Now
      /\ WellFormed(a, Len(position))
  BY <1>1, <1>2, EpisodeLeg
<1>4. p = [Book EXCEPT !.pos = PutRow(position, i, r), !.acts = <<a>>, !.inv = TRUE]
  BY DEF planSymbolChange
<1> HIDE DEF p, v, a
<1>5. r \in Rows /\ r.qty = v.qty /\ r.avg = v.avg /\ r.status = "open" /\ CostOf(r) = CostOf(v)
  BY <1>1 DEF Rows, CostOf, Basis
<1> HIDE DEF r
<1>6. CashEffectOf(a) = Zero /\ GainOf(a) = Zero
  BY <1>3 DEF CashEffectOf, GainOf
<1>7. OpenIds(position) = OpenIds(position) \cup {i}
  OBVIOUS
<1>8. PutPlan(p, i, r, <<a>>, cash) /\ Fields(p) /\ p.atCost = {}
  BY <1>4, <1>5, <1>7, ZeroIsRat DEF Book, PutPlan, Fields
<1>9. cash ++ CostOf(r) = (cash ++ CostOf(v)) ++ GainOf(a)
  <2>1. CostOf(v) \in Rats
    BY <1>1, ZeroIsRat, RowChanges DEF CostOf
  <2>2. cash ++ CostOf(v) \in Rats
    BY <1>1, <2>1, RatClosed
  <2> QED
    BY <1>5, <1>6, <2>2, AddZero
<1>10. Costed(position) => Zero \preceq r.avg
  BY <1>1, <1>5 DEF Costed, v
<1>11. Positive(r.qty)
  BY <1>1, <1>5
<1>12. Whole(p)
  BY <1>3, <1>5, <1>6, <1>8, <1>9, <1>10, <1>11, OneRowPlan DEF v
<1> QED
  BY <1>8, <1>12 DEF p

\* Dividing by a quotient.
LEMMA OverOver ==
  ASSUME NEW x \in Rats, NEW y \in Rats, x # Zero, y # Zero
  PROVE  x // y \in Rats /\ x // (x // y) = y /\ (x // y) ** y = x
<1> DEFINE n == x[1]  d == x[2]  m == y[1]  e == y[2]
<1>1. /\ Stands(x, n, d) /\ n \in Int /\ d \in Nat \ {0} /\ n # 0
      /\ Stands(y, m, e) /\ m \in Int /\ e \in Nat \ {0} /\ m # 0
  BY RatStands, NonzeroNumerator
<1> HIDE DEF n, d, m, e
<1>2. Stands(x // y, n * e, d * m)
  BY <1>1, QuotientStands
<1>3. n * e # 0 /\ n * e \in Int /\ d * m \in Int \ {0}
  BY <1>1
<1> DEFINE u == n * e  v == d * m
<1>4. Stands(x // y, u, v) /\ u \in Int \ {0} /\ v \in Int \ {0}
  BY <1>2, <1>3
<1> HIDE DEF u, v
<1>5. Stands(x // (x // y), n * v, d * u) /\ Stands((x // y) ** y, u * m, v * e)
  BY <1>1, <1>4, QuotientStands, ProductStands
<1>6. (n * v) * e = m * (d * u) /\ (u * m) * d = n * (v * e)
  <2>1. (n * (d * m)) * e = m * (d * (n * e)) /\ ((n * e) * m) * d = n * ((d * m) * e)
    BY <1>1
  <2> QED
    BY <2>1 DEF u, v
<1>7. x // (x // y) = y /\ (x // y) ** y = x
  BY <1>1, <1>5, <1>6, StandsEqual
<1> QED
  BY <1>1, <1>7, RatClosed

\* One more row, or one changed, over the book reached so far.
Over(b, i, r, c, legs) ==
  [b EXCEPT !.pos = PutRow(b.pos, i, r), !.open = @ \cup {i}, !.cash = c, !.acts = b.acts \o legs]

\* It is whole if the cash and the cost changed as its legs say.
LEMMA RowOver ==
  ASSUME TypeInv, NEW b, Whole(b), NEW i \in 1..(Len(b.pos) + 1), NEW r \in Rows, r.status = "open", Positive(r.qty),
         Costed(position) /\ Costed(b.pos) => Zero \preceq r.avg, NEW c \in Rats,
         NEW legs, NewLegs(legs, Len(PutRow(b.pos, i, r))), c = b.cash ++ Cash(legs),
         NEW o, o = IF i \in DOMAIN b.pos THEN CostOf(b.pos[i]) ELSE Zero,
         c ++ CostOf(r) = (b.cash ++ o) ++ Gain(legs)
  PROVE  LET p == Over(b, i, r, c, legs) IN
         Whole(p) /\ p.atCost = b.atCost /\ p.ret = b.ret /\ p.inv = b.inv
<1> DEFINE p == Over(b, i, r, c, legs)  w == PutRow(b.pos, i, r)  a == b.acts \o legs
<1>1. b \in Plans /\ b.pos \in Seq(Rows) /\ b.acts \in Seq(Activities) /\ b.open \in SUBSET Nat
  BY DEF Whole, Kept, BookTyped, PlanTyped, Plans
<1>2. w \in Seq(Rows)
  BY <1>1, PutRowTyped
<1>3. a \in Seq(Activities) /\ b.open \cup {i} \in SUBSET Nat
  BY <1>1 DEF NewLegs
<1>4. p = [b EXCEPT !.pos = w, !.open = b.open \cup {i}, !.cash = c, !.acts = a]
  BY <1>1 DEF Over
<1> HIDE DEF w, a, p
<1>5. /\ p \in Plans /\ p.pos = w /\ p.open = b.open \cup {i} /\ p.cash = c /\ p.acts = a
      /\ p.atCost = b.atCost /\ p.ret = b.ret /\ p.inv = b.inv
  BY <1>1, <1>2, <1>3, <1>4 DEF Plans
<1>6. Puts(p, b, i, r, legs)
  BY <1>5 DEF Puts, w, a
<1>7. Whole(p)
  BY <1>5, <1>6, PutsWhole
<1> QED
  BY <1>5, <1>7 DEF p

\* A row that was put is there.
LEMMA PutGrows ==
  ASSUME NEW p \in Seq(Rows), NEW i \in 1..(Len(p) + 1), NEW r \in Rows
  PROVE  LET n == Len(PutRow(p, i, r)) IN n \in Nat /\ i \in 1..n
<1>1. PutRow(p, i, r) \in Seq(Rows) /\ i <= Len(PutRow(p, i, r))
  BY PutRowTyped
<1>2. Len(PutRow(p, i, r)) \in Nat /\ i \in Nat /\ i >= 1
  BY <1>1
<1> QED
  BY <1>1, <1>2

\* A leg of an episode, with a date of its own.
LEMMA DatedLeg ==
  ASSUME TypeInv, NEW a \in Activities, NEW n \in Nat, a.type \in EpisodeTypes \ {"sell"}, a.sym \in Symbols,
         a.ep \in 1..n, a.of = 0, a.created = Now, a.at \in Dates
  PROVE  NewLegs(<<a>>, n) /\ Cash(<<a>>) = CashEffectOf(a) /\ Gain(<<a>>) = GainOf(a)
<1>1. a.at \in 1..Now /\ (~Backdating => a.at = Now)
  BY LedgerAssumption DEF Dates, Now, TypeInv
<1>2. WellFormed(a, n)
  BY DEF WellFormed, EpisodeTypes
<1> QED
  BY <1>1, <1>2, PlainLeg

\* The parts of a whole plan.
LEMMA BookParts ==
  ASSUME NEW b, Whole(b)
  PROVE  /\ b \in Plans /\ b.pos \in Seq(Rows) /\ b.open = OpenIds(b.pos) /\ PositiveRows(b.pos) /\ b.cash \in Rats
         /\ b.acts \in Seq(Activities) /\ b.open \in SUBSET Nat /\ Len(b.pos) \in Nat /\ Kept(b)
BY DEF Whole, Kept, BookTyped, PlanTyped, Plans

\* A cash dividend over a whole plan.
LEMMA CreditComponent ==
  ASSUME TypeInv, NEW b, Whole(b), NEW c, c.sym \in Symbols, c.amount \in Amounts, NEW at \in Dates
  PROVE  LET p == creditIncome(b, c, at) IN
         Whole(p) /\ p.atCost = b.atCost /\ p.ret = b.ret /\ p.inv = b.inv
<1> DEFINE held == findOpenBySymbol(b, c.sym)
           ep == IF held = {} THEN 0 ELSE The(held)
           e == Activity("cash_dividend", c.sym, ep)
           net == Rat(c.amount)
           a == [e EXCEPT !.gross = net, !.at = at]
           p == creditIncome(b, c, at)
           n == Len(b.pos)
<1>1. /\ b \in Plans /\ b.pos \in Seq(Rows) /\ b.open = OpenIds(b.pos) /\ b.cash \in Rats
      /\ b.acts \in Seq(Activities) /\ n \in Nat
  BY BookParts
<1>2. net \in Rats
  <2>1. \A m \in Amounts : m \in Int
    BY LedgerAssumption
  <2> QED
    BY <2>1, Wholes
<1>3. ep \in Nat /\ ep <= n
  <2>1. CASE held = {}
    BY <1>1, <2>1
  <2>2. CASE held # {}
    <3>1. The(held) \in 1..Len(b.pos)
      BY <1>1, <2>2, HeldFacts
    <3> QED
      BY <1>1, <2>2, <3>1
  <2> QED
    BY <2>1, <2>2
<1> HIDE DEF ep
<1>4. at \in Nat /\ at \in 1..Now /\ (~Backdating => at = Now) /\ Now \in Nat
  BY Setting, LedgerAssumption DEF Dates, Now, TypeInv
<1>5. "cash_dividend" \in ActivityTypes
  BY DEF ActivityTypes, LooseTypes
<1>6. e \in Activities /\ e.type = "cash_dividend" /\ e.sym = c.sym /\ e.ep = ep /\ e.of = 0 /\ e.created = Now
  BY <1>3, <1>4, <1>5, NewActivity
<1>7. p = [b EXCEPT !.cash = b.cash ++ net, !.acts = Append(b.acts, a)]
  BY <1>1 DEF creditIncome, ep
<1> HIDE DEF p, e, net
<1>8. a \in Activities /\ a.type = "cash_dividend" /\ a.sym = c.sym /\ a.ep = ep /\ a.of = 0 /\ a.created = Now /\ a.at = at /\ a.gross = net
  BY <1>2, <1>4, <1>6 DEF Activities
<1> HIDE DEF a
<1>9. WellFormed(a, n)
  BY <1>3, <1>8 DEF WellFormed, LooseTypes, CashTypes
<1>10. CashEffectOf(a) = net /\ GainOf(a) = net
  BY <1>8 DEF CashEffectOf, GainOf
<1> DEFINE legs == <<a>>
<1>11. NewLegs(legs, n) /\ Cash(legs) = net /\ Gain(legs) = net
  BY <1>1, <1>4, <1>8, <1>9, <1>10, PlainLeg
<1>12. Append(b.acts, a) = b.acts \o legs /\ b.acts \o legs \in Seq(Activities)
  BY <1>1, <1>8
<1> HIDE DEF legs
<1> DEFINE l == b.acts \o legs  x == b.cash ++ net
<1>13. l \in Seq(Activities) /\ x \in Rats /\ p = [b EXCEPT !.cash = x, !.acts = l]
  BY <1>1, <1>2, <1>7, <1>12, RatClosed
<1> HIDE DEF l, x
<1>14. p \in Plans /\ p.pos = b.pos /\ p.open = b.open /\ p.cash = x /\ p.acts = l
       /\ p.atCost = b.atCost /\ p.ret = b.ret /\ p.inv = b.inv
  BY <1>1, <1>13 DEF Plans
<1>15. Whole(p)
  BY <1>11, <1>14, RecordsWhole DEF l, x, n
<1> QED
  BY <1>14, <1>15 DEF p

\* A return of capital over a whole plan: what exceeds the basis is gain.
LEMMA ReturnComponent ==
  ASSUME TypeInv, NEW b, Whole(b), NEW c, c.sym \in Symbols, c.amount \in Amounts, NEW at \in Dates,
         findOpenBySymbol(b, c.sym) # {}
  PROVE  LET p == planReturnOfCapital(b, c, at) IN
         Whole(p) /\ p.atCost = b.atCost /\ p.ret = b.ret /\ p.inv = b.inv
<1> DEFINE i == The(findOpenBySymbol(b, c.sym))
           v == b.pos[i]
           net == Rat(c.amount)
           B == Basis(v)
           cut == MinRat(net, B)
           avg == (B -- cut) // v.qty
           r == [v EXCEPT !.avg = avg]
           a == [Activity("return_of_capital", c.sym, i) EXCEPT !.gross = net, !.basis = cut, !.at = at]
           p == planReturnOfCapital(b, c, at)
           n == Len(PutRow(b.pos, i, r))
           legs == <<a>>
           o == IF i \in DOMAIN b.pos THEN CostOf(b.pos[i]) ELSE Zero
           x == b.cash ++ net
<1>1. /\ b \in Plans /\ b.pos \in Seq(Rows) /\ b.open = OpenIds(b.pos) /\ b.cash \in Rats /\ PositiveRows(b.pos)
      /\ b.acts \in Seq(Activities) /\ Len(b.pos) \in Nat
  BY BookParts
<1>2. net \in Rats
  <2>1. \A m \in Amounts : m \in Int
    BY LedgerAssumption
  <2> QED
    BY <2>1, Wholes
<1>3. i \in b.open /\ i \in 1..Len(b.pos) /\ v \in Rows /\ v.sym = c.sym /\ v.status = "open"
  BY <1>1, HeldFacts
<1>4. p = [b EXCEPT !.pos = PutRow(b.pos, i, r), !.cash = x, !.acts = Append(b.acts, a)]
  BY <1>1 DEF planReturnOfCapital, BasisReduction
<1>5. o = CostOf(v)
  BY <1>1, <1>3
<1>6. i \in 1..(Len(b.pos) + 1)
  BY <1>1, <1>3
<1>18. Positive(v.qty)
  BY <1>1, <1>3 DEF PositiveRows
<1> HIDE DEF i, v, p
<1>7. v.qty \in Rats /\ v.avg \in Rats /\ B \in Rats /\ v.qty # Zero
  <2>1. v.qty \in Rats /\ v.avg \in Rats /\ B \in Rats
    BY <1>3, <1>2, RowChanges
  <2> QED
    BY <1>18, <2>1, SignsOfRats
<1> HIDE DEF B
<1>8. cut \in Rats /\ cut \preceq B /\ B -- cut \in Rats /\ Zero \preceq (B -- cut)
  BY <1>2, <1>7, MinMax, RatClosed, SignsOfRats
<1> HIDE DEF cut
<1>9. avg \in Rats /\ v.qty ** avg = B -- cut /\ Zero \preceq avg
  BY <1>7, <1>8, <1>18, RatClosed, TimesOver, SignsOfRats
<1> HIDE DEF avg
<1>10. r \in Rows /\ r.status = "open" /\ r.qty = v.qty /\ r.avg = avg /\ CostOf(r) = B -- cut
  BY <1>3, <1>7, <1>9 DEF Rows, CostOf, Basis
<1>11. CostOf(v) = B
  BY <1>3 DEF CostOf, B
<1> HIDE DEF r
<1>12. n \in Nat /\ i \in 1..n
  BY <1>1, <1>6, <1>10, PutGrows
<1> HIDE DEF n
<1>13. NewLegs(legs, n) /\ Cash(legs) = net /\ Gain(legs) = net -- cut /\ a \in Activities
  <2> DEFINE e == Activity("return_of_capital", c.sym, i)
  <2>1. "return_of_capital" \in EpisodeTypes \ {"sell"} /\ at \in Nat
    BY Setting, LedgerAssumption DEF EpisodeTypes, ActivityTypes, CashTypes, Dates
  <2>2. e \in Activities /\ e.type = "return_of_capital" /\ e.sym = c.sym /\ e.ep = i /\ e.of = 0 /\ e.created = Now
    BY <1>12, <2>1, EpisodeLeg
  <2> HIDE DEF e, net
  <2>3. /\ a \in Activities /\ a.type = e.type /\ a.sym = e.sym /\ a.ep = e.ep /\ a.of = 0 /\ a.created = Now
        /\ a.at = at /\ a.gross = net /\ a.basis = cut
    BY <1>2, <1>8, <2>1, <2>2 DEF Activities, e
  <2> HIDE DEF a
  <2>4. CashEffectOf(a) = net /\ GainOf(a) = net -- cut
    BY <2>2, <2>3 DEF CashEffectOf, GainOf
  <2>5. a.sym \in Symbols /\ a.ep \in 1..n /\ a.type \in EpisodeTypes \ {"sell"} /\ a.at \in Dates
    BY <1>12, <2>1, <2>2, <2>3
  <2> QED
    BY <1>12, <2>3, <2>4, <2>5, DatedLeg
<1> HIDE DEF a
<1>14. p = Over(b, i, r, x, legs)
  <2>1. Append(b.acts, a) = b.acts \o legs
    BY <1>1, <1>13
  <2>2. b.open = b.open \cup {i}
    BY <1>3
  <2> QED
    BY <1>1, <1>4, <2>1, <2>2 DEF Over, Plans
<1> HIDE DEF legs, o, net
<1>15. x \in Rats /\ x ++ CostOf(r) = (b.cash ++ o) ++ Gain(legs) /\ x = b.cash ++ Cash(legs)
  <2> DEFINE y == b.cash
  <2>1. net -- cut \in Rats /\ y \in Rats /\ y ++ net \in Rats
    BY <1>1, <1>2, <1>8, RatClosed
  <2>2. CostOf(r) = B -- cut /\ o = B /\ Gain(legs) = net -- cut /\ Cash(legs) = net
    BY <1>5, <1>10, <1>11, <1>13
  <2> HIDE DEF y
  <2>3. (y ++ net) ++ (B -- cut) = (y ++ B) ++ ((net -- cut) ++ Zero)
    BY <1>2, <1>7, <1>8, <2>1, Selling
  <2>4. (net -- cut) ++ Zero = net -- cut
    BY <2>1, AddZero
  <2> QED
    BY <2>1, <2>2, <2>3, <2>4 DEF y
<1> HIDE DEF x
<1>16. Positive(r.qty) /\ (Costed(position) /\ Costed(b.pos) => Zero \preceq r.avg)
  BY <1>9, <1>10, <1>18
<1>17. Whole(p) /\ p.atCost = b.atCost /\ p.ret = b.ret /\ p.inv = b.inv
  BY <1>6, <1>10, <1>13, <1>14, <1>15, <1>16, RowOver DEF o, n
<1> QED
  BY <1>17 DEF p

\* A stock dividend over a whole plan: more of the same for the same cost.
LEMMA StockComponent ==
  ASSUME TypeInv, NEW b, Whole(b), NEW c, c.sym \in Symbols, c.ratio \in Ratios, NEW at \in Dates,
         NEW boxed \in BOOLEAN, findOpenBySymbol(b, c.sym) # {}
  PROVE  LET p == planStockDividend(b, c, at, boxed) IN
         Whole(p) /\ p.atCost = b.atCost /\ p.ret = b.ret /\ p.inv = b.inv
<1> DEFINE i == The(findOpenBySymbol(b, c.sym))
           v == b.pos[i]
           k == c.ratio
           q == v.qty ** k
           avg == v.avg // k
           r == [v EXCEPT !.qty = q, !.avg = avg]
           a == [Activity("stock_dividend", c.sym, i) EXCEPT !.ratio = k, !.boxed = boxed, !.at = at]
           p == planStockDividend(b, c, at, boxed)
           n == Len(PutRow(b.pos, i, r))
           legs == <<a>>
           o == IF i \in DOMAIN b.pos THEN CostOf(b.pos[i]) ELSE Zero
           x == b.cash
<1>1. /\ b \in Plans /\ b.pos \in Seq(Rows) /\ b.open = OpenIds(b.pos) /\ x \in Rats /\ PositiveRows(b.pos)
      /\ b.acts \in Seq(Activities) /\ Len(b.pos) \in Nat
  BY BookParts
<1>2. k \in Rats /\ Positive(k) /\ k # Zero
  <2>1. \A m \in Ratios : IsRat(m) /\ Positive(m)
    BY LedgerAssumption
  <2> QED
    BY <2>1, SignsOfRats, RatStands
<1>3. i \in b.open /\ i \in 1..Len(b.pos) /\ v \in Rows /\ v.sym = c.sym /\ v.status = "open"
  BY <1>1, HeldFacts
<1>4. p = [b EXCEPT !.pos = PutRow(b.pos, i, r), !.acts = Append(b.acts, a)]
  BY <1>1 DEF planStockDividend
<1>5. o = CostOf(v)
  BY <1>1, <1>3
<1>6. i \in 1..(Len(b.pos) + 1)
  BY <1>1, <1>3
<1>18. Positive(v.qty)
  BY <1>1, <1>3 DEF PositiveRows
<1>19. (Costed(b.pos) => Zero \preceq v.avg)
  BY <1>1, <1>3 DEF Costed
<1> HIDE DEF i, v, p, k
<1>7. v.qty \in Rats /\ v.avg \in Rats
  BY <1>3, <1>2, RowChanges
<1>8. q \in Rats /\ Positive(q) /\ avg \in Rats /\ q ** avg = v.qty ** v.avg /\ (Zero \preceq v.avg => Zero \preceq avg)
  BY <1>2, <1>7, <1>18, RatClosed, SignsOfRats, SplitKeepsBasis
<1> HIDE DEF q, avg
<1>10. r \in Rows /\ r.status = "open" /\ r.qty = q /\ r.avg = avg /\ CostOf(r) = CostOf(v)
  BY <1>3, <1>7, <1>8 DEF Rows, CostOf, Basis
<1> HIDE DEF r
<1>12. n \in Nat /\ i \in 1..n
  BY <1>1, <1>6, <1>10, PutGrows
<1> HIDE DEF n
<1>13. NewLegs(legs, n) /\ Cash(legs) = Zero /\ Gain(legs) = Zero /\ a \in Activities
  <2> DEFINE e == Activity("stock_dividend", c.sym, i)
  <2>1. "stock_dividend" \in EpisodeTypes \ {"sell"} /\ at \in Nat
    BY Setting, LedgerAssumption DEF EpisodeTypes, ActivityTypes, CashTypes, Dates
  <2>2. e \in Activities /\ e.type = "stock_dividend" /\ e.sym = c.sym /\ e.ep = i /\ e.of = 0 /\ e.created = Now
    BY <1>12, <2>1, EpisodeLeg
  <2> HIDE DEF e
  <2>3. /\ a \in Activities /\ a.type = e.type /\ a.sym = e.sym /\ a.ep = e.ep /\ a.of = 0 /\ a.created = Now
        /\ a.at = at
    BY <1>2, <2>1, <2>2 DEF Activities, e
  <2> HIDE DEF a
  <2>4. CashEffectOf(a) = Zero /\ GainOf(a) = Zero
    BY <2>2, <2>3 DEF CashEffectOf, GainOf
  <2>5. a.sym \in Symbols /\ a.ep \in 1..n /\ a.type \in EpisodeTypes \ {"sell"} /\ a.at \in Dates
    BY <1>12, <2>1, <2>2, <2>3
  <2> QED
    BY <1>12, <2>3, <2>4, <2>5, DatedLeg
<1> HIDE DEF a
<1>14. p = Over(b, i, r, x, legs)
  <2>1. Append(b.acts, a) = b.acts \o legs
    BY <1>1, <1>13
  <2>2. b.open = b.open \cup {i}
    BY <1>3
  <2> QED
    BY <1>1, <1>4, <2>1, <2>2 DEF Over, Plans
<1> HIDE DEF legs, o
<1>15. x ++ CostOf(r) = (b.cash ++ o) ++ Gain(legs) /\ x = b.cash ++ Cash(legs)
  <2>1. CostOf(v) \in Rats
    BY <1>3, <1>7, RatClosed, ZeroIsRat DEF CostOf, Basis
  <2>2. x ++ CostOf(v) \in Rats
    BY <1>1, <2>1, RatClosed
  <2> QED
    BY <1>1, <1>5, <1>10, <1>13, <2>2, AddZero
<1> HIDE DEF x
<1>16. Positive(r.qty) /\ (Costed(position) /\ Costed(b.pos) => Zero \preceq r.avg)
  BY <1>8, <1>10, <1>19
<1>17. Whole(p) /\ p.atCost = b.atCost /\ p.ret = b.ret /\ p.inv = b.inv
  BY <1>1, <1>6, <1>10, <1>13, <1>14, <1>15, <1>16, RowOver DEF o, n
<1> QED
  BY <1>17 DEF p

\* Two legs.
LEMMA PairOfLegs ==
  ASSUME NEW S, NEW x \in S, NEW y \in S
  PROVE  <<x>> \o <<y>> = <<x, y>>
<1> DEFINE p == <<x>> \o <<y>>  q == <<x, y>>
<1>1. <<x>> \in Seq(S) /\ <<y>> \in Seq(S) /\ q \in Seq(S) /\ p \in Seq(S)
  OBVIOUS
<1>2. Len(p) = 2 /\ p[1] = x /\ p[2] = y /\ Len(q) = 2 /\ q[1] = x /\ q[2] = y
  BY <1>1
<1> HIDE DEF p, q
<1>3. p \in Seq(S) /\ q \in Seq(S) /\ Len(p) = Len(q) /\ \A i \in 1..Len(p) : p[i] = q[i]
  BY <1>1, <1>2
<1>4. p = q
  BY <1>3
<1> QED
  BY <1>4 DEF p, q

\* A reinvested dividend over a whole plan: the income is spent at once.
LEMMA ReinvestComponent ==
  ASSUME TypeInv, NEW b, Whole(b), NEW c, c.sym \in Symbols, c.amount \in Amounts, NEW at \in Dates, Quoted(c.sym)
  PROVE  LET p == planReinvestedDividend(b, c, at) IN
         Whole(p) /\ p.atCost = b.atCost /\ p.ret = b.ret /\ p.inv = b.inv
<1> DEFINE s == c.sym
           net == Rat(c.amount)
           y == Rat(price[s])
           q == net // y
           i == Taken(b, s, q, net).id
           r == Taken(b, s, q, net).row
           div == [Activity("reinvested_dividend", s, i) EXCEPT !.gross = net, !.at = at]
           buy == [Activity("buy", s, i) EXCEPT !.qty = q, !.gross = net]
           p == planReinvestedDividend(b, c, at)
           n == Len(PutRow(b.pos, i, r))
           legs == <<div, buy>>
           o == IF i \in DOMAIN b.pos THEN CostOf(b.pos[i]) ELSE Zero
           x == b.cash
<1>1. /\ b \in Plans /\ b.pos \in Seq(Rows) /\ b.open = OpenIds(b.pos) /\ x \in Rats /\ PositiveRows(b.pos)
      /\ b.acts \in Seq(Activities) /\ Len(b.pos) \in Nat /\ Kept(b)
  BY BookParts
<1>2. net \in Rats /\ Positive(net) /\ net # Zero
  <2>1. Amounts \subseteq Nat \ {0}
    BY LedgerAssumption
  <2> DEFINE m == c.amount
  <2>3. m \in Nat \ {0}
    BY <2>1
  <2> HIDE DEF m
  <2>4. m \in Int /\ m > 0
    BY <2>3
  <2>2. net \in Rats /\ Positive(net)
    BY <2>4, Wholes DEF Rat, Positive, m
  <2> QED
    BY <2>2, SignsOfRats
<1>3. y \in Rats /\ Positive(y) /\ y # Zero
  <2>1. y \in Rats /\ Positive(y)
    BY Setting
  <2> QED
    BY <2>1, SignsOfRats
<1>4. q \in Rats /\ Positive(q) /\ net // q = y /\ Zero \preceq net
  BY <1>2, <1>3, OverOver, SignsOfRats
<1>5. p = [b EXCEPT !.pos = PutRow(b.pos, i, r), !.open = b.open \cup {i}, !.acts = b.acts \o legs]
  BY <1>1, <1>4 DEF planReinvestedDividend, Taken
<1> HIDE DEF p, net, y, q
<1>6. /\ i \in 1..(Len(b.pos) + 1) /\ r \in Rows /\ r.status = "open" /\ Positive(r.qty)
      /\ Costed(position) /\ Costed(b.pos) => Zero \preceq r.avg
      /\ o \in Rats /\ CostOf(r) = o ++ net
  BY <1>1, <1>2, <1>4, TakenFacts
<1> HIDE DEF i, r, o
<1>7. n \in Nat /\ i \in 1..n
  BY <1>1, <1>6, PutGrows
<1> HIDE DEF n
<1>8. NewLegs(<<div>>, n) /\ Cash(<<div>>) = net /\ Gain(<<div>>) = net /\ div \in Activities
  <2> DEFINE e == Activity("reinvested_dividend", s, i)
  <2>1. "reinvested_dividend" \in EpisodeTypes \ {"sell"} /\ at \in Nat
    BY Setting, LedgerAssumption DEF EpisodeTypes, ActivityTypes, CashTypes, Dates
  <2>2. e \in Activities /\ e.type = "reinvested_dividend" /\ e.sym = s /\ e.ep = i /\ e.of = 0 /\ e.created = Now
    BY <1>7, <2>1, EpisodeLeg
  <2> HIDE DEF e
  <2>3. /\ div \in Activities /\ div.type = e.type /\ div.sym = e.sym /\ div.ep = e.ep /\ div.of = 0 /\ div.created = Now
        /\ div.at = at /\ div.gross = net
    BY <1>2, <2>1, <2>2 DEF Activities, e
  <2> HIDE DEF div
  <2>4. CashEffectOf(div) = net /\ GainOf(div) = net
    BY <2>2, <2>3 DEF CashEffectOf, GainOf
  <2>5. div.sym \in Symbols /\ div.ep \in 1..n /\ div.type \in EpisodeTypes \ {"sell"} /\ div.at \in Dates
    BY <1>7, <2>1, <2>2, <2>3
  <2> QED
    BY <1>7, <2>3, <2>4, <2>5, DatedLeg
<1>9. NewLegs(<<buy>>, n) /\ Cash(<<buy>>) = Zero -- (net ++ Zero) /\ Gain(<<buy>>) = Zero /\ buy \in Activities
  <2> DEFINE e == Activity("buy", s, i)
  <2>1. "buy" \in EpisodeTypes \ {"sell"} /\ Now \in Dates
    BY Setting, LedgerAssumption DEF EpisodeTypes, ActivityTypes, CashTypes, Dates, Now, TypeInv
  <2>2. e \in Activities /\ e.type = "buy" /\ e.sym = s /\ e.ep = i /\ e.of = 0 /\ e.created = Now /\ e.at = Now /\ e.fee = Zero
    BY <1>7, <2>1, EpisodeLeg
  <2> HIDE DEF e
  <2>3. /\ buy \in Activities /\ buy.type = e.type /\ buy.sym = e.sym /\ buy.ep = e.ep /\ buy.of = 0 /\ buy.created = Now
        /\ buy.at = Now /\ buy.gross = net /\ buy.fee = Zero
    BY <1>2, <1>4, <2>1, <2>2 DEF Activities, e
  <2> HIDE DEF buy
  <2>4. CashEffectOf(buy) = Zero -- (net ++ Zero) /\ GainOf(buy) = Zero
    BY <2>2, <2>3 DEF CashEffectOf, GainOf
  <2>5. buy.sym \in Symbols /\ buy.ep \in 1..n /\ buy.type \in EpisodeTypes \ {"sell"} /\ buy.at \in Dates
    BY <1>7, <2>1, <2>2, <2>3
  <2> QED
    BY <1>7, <2>3, <2>4, <2>5, DatedLeg
<1> HIDE DEF div, buy
<1>10. <<div>> \o <<buy>> = legs
  BY <1>8, <1>9, PairOfLegs
<1>11. NewLegs(legs, n) /\ Cash(legs) = net ++ (Zero -- (net ++ Zero)) /\ Gain(legs) = net ++ Zero
  BY <1>8, <1>9, <1>10, MoreLegs
<1>12. p = Over(b, i, r, x, legs)
  BY <1>1, <1>5 DEF Over, Plans
<1> HIDE DEF legs
<1>13. x = b.cash ++ Cash(legs) /\ x ++ CostOf(r) = (b.cash ++ o) ++ Gain(legs)
  <2>1. net ++ Zero = net /\ net ++ (Zero -- net) = net -- net /\ net -- net = Zero /\ x ++ Zero = x
    BY <1>1, <1>2, ZeroIsRat, AddZero, MovesOver
  <2>2. x ++ (o ++ net) = (x ++ o) ++ net
    BY <1>1, <1>2, <1>6, AddAssociates
  <2> QED
    BY <1>6, <1>11, <2>1, <2>2
<1> HIDE DEF x
<1>14. Whole(p) /\ p.atCost = b.atCost /\ p.ret = b.ret /\ p.inv = b.inv
  BY <1>1, <1>6, <1>11, <1>12, <1>13, RowOver DEF o, n
<1> QED
  BY <1>14 DEF p

\* What a component of a distribution is made of.
LEMMA ComponentFacts ==
  ASSUME NEW c \in Component
  PROVE  /\ c.sym \in Symbols /\ c.sub \in {"cash", "reinvest", "roc", "stock"}
         /\ c.sub # "stock" => c.amount \in Amounts
         /\ c.sub = "stock" => c.ratio \in Ratios
BY DEF Component

\* Whatever a component does to a book, what it leaves is a book again.
LEMMA AnyComponent ==
  ASSUME TypeInv, NEW b, Whole(b), NEW c \in Component, ComponentApplies(b, c), NEW at \in Dates, NEW boxed \in BOOLEAN
  PROVE  LET p == applyComponent(b, c, at, boxed) IN
         Whole(p) /\ p.atCost = b.atCost /\ p.ret = b.ret /\ p.inv = b.inv
<1> DEFINE p == applyComponent(b, c, at, boxed)
           Good == Whole(p) /\ p.atCost = b.atCost /\ p.ret = b.ret /\ p.inv = b.inv
<1>0. /\ c.sym \in Symbols /\ c.sub \in {"cash", "reinvest", "roc", "stock"}
      /\ c.sub # "stock" => c.amount \in Amounts
      /\ c.sub = "stock" => c.ratio \in Ratios
  BY ComponentFacts
<1>1. CASE c.sub = "cash"
  <2>1. p = creditIncome(b, c, at)
    BY <1>1 DEF applyComponent
  <2> QED
    BY <1>0, <1>1, <2>1, CreditComponent
<1>2. CASE c.sub = "reinvest"
  <2>1. p = planReinvestedDividend(b, c, at)
    BY <1>2 DEF applyComponent
  <2>2. Quoted(c.sym)
    BY <1>2 DEF ComponentApplies
  <2> QED
    BY <1>0, <1>2, <2>1, <2>2, ReinvestComponent
<1>3. CASE c.sub = "roc"
  <2>1. p = planReturnOfCapital(b, c, at)
    BY <1>3 DEF applyComponent
  <2>2. findOpenBySymbol(b, c.sym) # {}
    BY <1>3 DEF ComponentApplies
  <2> QED
    BY <1>0, <1>3, <2>1, <2>2, ReturnComponent
<1>4. CASE c.sub = "stock"
  <2>1. p = planStockDividend(b, c, at, boxed)
    BY <1>4 DEF applyComponent
  <2>2. findOpenBySymbol(b, c.sym) # {}
    BY <1>4 DEF ComponentApplies
  <2> QED
    BY <1>0, <1>4, <2>1, <2>2, StockComponent
<1> QED
  BY <1>0, <1>1, <1>2, <1>3, <1>4

\* How a plan is judged does not change what it writes.
LEMMA Judged ==
  ASSUME NEW p, Whole(p), NEW e \in {Neutral, Return}
  PROVE  LET r == [p EXCEPT !.effect = e] IN
         Whole(r) /\ r.atCost = p.atCost /\ r.ret = p.ret /\ r.inv = p.inv /\ r.effect = e
<1> DEFINE r == [p EXCEPT !.effect = e]
<1>1. p \in Plans
  BY BookParts
<1>2. /\ r \in Plans /\ r.pos = p.pos /\ r.open = p.open /\ r.cash = p.cash /\ r.acts = p.acts
      /\ r.atCost = p.atCost /\ r.ret = p.ret /\ r.inv = p.inv /\ r.effect = e
  BY <1>1 DEF Plans
<1> HIDE DEF r
<1>3. Whole(r)
  BY <1>2 DEF Whole, Kept, BookTyped, PlanTyped, Balanced, Accounted, Equity
<1> QED
  BY <1>2, <1>3 DEF r

\* A distribution with one component.
LEMMA IncomePlan ==
  ASSUME TypeInv, NEW c \in Component, ComponentApplies(Book, c), NEW at \in Dates
  PROVE  LET p == planIncome(c, at) IN
         Whole(p) /\ p.atCost = {} /\ p.ret = Zero /\ ~p.inv /\ p.effect = componentEffect(c)
<1> DEFINE b == applyComponent(Book, c, at, FALSE)
<1>1. Whole(b) /\ b.atCost = {} /\ b.ret = Zero /\ b.inv = FALSE
  BY BookWhole, BookFacts, AnyComponent
<1>2. componentEffect(c) \in {Neutral, Return}
  BY DEF componentEffect
<1>3. planIncome(c, at) = [b EXCEPT !.effect = componentEffect(c)]
  BY DEF planIncome
<1> HIDE DEF b
<1> QED
  BY <1>1, <1>2, <1>3, Judged

\* A distribution with two components, the second over what the first left.
LEMMA IncomeEventPlan ==
  ASSUME TypeInv, NEW c1 \in Component, NEW c2 \in Component, NEW at \in Dates,
         ComponentApplies(Book, c1), ComponentApplies(applyComponent(Book, c1, at, TRUE), c2)
  PROVE  LET p == planIncomeEvent(c1, c2, at) IN
         Whole(p) /\ p.atCost = {} /\ p.ret = Zero /\ ~p.inv
<1> DEFINE b == applyComponent(Book, c1, at, TRUE)
           d == applyComponent(b, c2, at, TRUE)
           e == IF Return \in {componentEffect(c1), componentEffect(c2)} THEN Return ELSE Neutral
<1>1. Whole(b) /\ b.atCost = {} /\ b.ret = Zero /\ b.inv = FALSE
  BY BookWhole, BookFacts, AnyComponent
<1>2. ComponentApplies(b, c2) /\ planIncomeEvent(c1, c2, at) = [d EXCEPT !.effect = e]
  BY DEF planIncomeEvent
<1> HIDE DEF b
<1>3. Whole(d) /\ d.atCost = {} /\ d.ret = Zero /\ d.inv = FALSE
  BY <1>1, <1>2, AnyComponent
<1> HIDE DEF d
<1> QED
  BY <1>2, <1>3, Judged

\* A plan that moves no cash and records nothing.
LEMMA ReshapePlan ==
  ASSUME TypeInv, NEW i \in 1..(Len(position) + 1), NEW r \in Rows, NEW p,
         PutPlan(p, i, r, <<>>, cash), Fields(p), p.atCost \in SUBSET Nat,
         r.status = "open" => Positive(r.qty), Costed(position) => Zero \preceq r.avg
  PROVE  Kept(p) /\ Balanced(p)
<1>1. cash \in Rats /\ position \in Seq(Rows)
  BY DEF TypeInv
<1> DEFINE n == Len(PutRow(position, i, r))  legs == <<>>
<1>2. NewLegs(legs, n)
  <2>1. legs \in Seq(Activities) /\ DOMAIN legs = {}
    OBVIOUS
  <2> QED
    BY <2>1 DEF NewLegs
<1>3. Cash(legs) = Zero
  BY <1>2, MoreLegs
<1>4. PutPlan(p, i, r, legs, cash)
  OBVIOUS
<1> HIDE DEF legs, n
<1>5. Puts(p, Book, i, r, legs)
  BY <1>1, <1>2, <1>4, PutPlanFits DEF n, Fields
<1>6. Kept(p)
  BY <1>5, BookFacts, PutsKeep
<1>7. p.cash = cash /\ p.acts = legs
  BY <1>4 DEF PutPlan
<1> QED
  BY <1>1, <1>3, <1>6, <1>7, AddZero DEF Balanced, Cash

\* A position added by hand.
LEMMA AddPlan ==
  ASSUME TypeInv, NEW s \in Symbols, NEW q \in Rats, Positive(q)
  PROVE  LET p == planAdd(s, q) IN Kept(p) /\ Balanced(p) /\ p.atCost = {} /\ p.ret = Zero /\ ~p.inv
<1> DEFINE i == Len(position) + 1
           r == Row(s, q, Rat(price[s]))
           p == planAdd(s, q)
<1>1. position \in Seq(Rows) /\ Len(position) \in Nat /\ i \in 1..(Len(position) + 1)
  BY DEF TypeInv
<1>2. Rat(price[s]) \in Rats /\ Zero \preceq Rat(price[s]) /\ Now \in Nat
  BY Setting
<1>3. r \in Rows /\ r.status = "open" /\ r.qty = q /\ r.avg = Rat(price[s])
  BY <1>2 DEF Row, Rows
<1>4. PutRow(position, i, r) = Append(position, r)
  BY <1>1 DEF PutRow
<1>5. p = [Book EXCEPT !.pos = PutRow(position, i, r), !.open = @ \cup {i}]
  BY <1>4 DEF planAdd
<1> HIDE DEF p, r, i
<1>6. PutPlan(p, i, r, <<>>, cash) /\ Fields(p) /\ p.atCost = {} /\ p.ret = Zero /\ ~p.inv
  BY <1>3, <1>5, ZeroIsRat DEF Book, PutPlan, Fields
<1>7. Kept(p) /\ Balanced(p)
  BY <1>1, <1>2, <1>3, <1>6, ReshapePlan
<1> QED
  BY <1>6, <1>7 DEF p

\* A quantity changed by hand.
LEMMA ResizePlan ==
  ASSUME TypeInv, NEW i \in OpenIds(position), NEW q \in Rats, Positive(q)
  PROVE  LET p == planResize(i, q) IN Kept(p) /\ Balanced(p) /\ p.atCost = {} /\ p.ret = Zero /\ ~p.inv
<1> DEFINE v == position[i]
           r == [v EXCEPT !.qty = q]
           p == planResize(i, q)
<1>1. i \in 1..Len(position) /\ v \in Rows /\ v.status = "open" /\ Len(position) \in Nat /\ i \in DOMAIN position
  BY Setting DEF TypeInv
<1>2. i \in 1..(Len(position) + 1)
  BY <1>1
<1>3. r \in Rows /\ r.status = "open" /\ r.qty = q /\ r.avg = v.avg
  BY <1>1 DEF Rows
<1>4. p = [Book EXCEPT !.pos = PutRow(position, i, r)]
  BY DEF planResize
<1>5. Costed(position) => Zero \preceq r.avg
  BY <1>1, <1>3 DEF Costed
<1> HIDE DEF p, r
<1>6. PutPlan(p, i, r, <<>>, cash) /\ Fields(p) /\ p.atCost = {} /\ p.ret = Zero /\ ~p.inv
  BY <1>3, <1>4, ZeroIsRat DEF Book, PutPlan, Fields
<1>7. Kept(p) /\ Balanced(p)
  BY <1>2, <1>3, <1>5, <1>6, ReshapePlan
<1> QED
  BY <1>6, <1>7 DEF p

\* A position deleted by hand.
LEMMA DeletePlan ==
  ASSUME TypeInv, NEW i \in OpenIds(position)
  PROVE  LET p == planDelete(i) IN Kept(p) /\ Balanced(p) /\ p.atCost = {} /\ p.ret = Zero /\ ~p.inv
<1> DEFINE v == position[i]
           r == [v EXCEPT !.status = "deleted"]
           p == planDelete(i)
<1>1. i \in 1..Len(position) /\ v \in Rows /\ v.status = "open" /\ Len(position) \in Nat /\ i \in DOMAIN position
  BY Setting DEF TypeInv
<1>2. i \in 1..(Len(position) + 1)
  BY <1>1
<1>3. r \in Rows /\ r.status = "deleted" /\ r.avg = v.avg
  BY <1>1 DEF Rows
<1>4. p = [Book EXCEPT !.pos = PutRow(position, i, r), !.open = @ \ {i}]
  BY DEF planDelete
<1>5. Costed(position) => Zero \preceq r.avg
  BY <1>1, <1>3 DEF Costed
<1> HIDE DEF p, r
<1>6. PutPlan(p, i, r, <<>>, cash) /\ Fields(p) /\ p.atCost = {} /\ p.ret = Zero /\ ~p.inv
  BY <1>3, <1>4, ZeroIsRat DEF Book, PutPlan, Fields
<1>7. Kept(p) /\ Balanced(p)
  BY <1>2, <1>3, <1>5, <1>6, ReshapePlan
<1> QED
  BY <1>6, <1>7 DEF p

-----------------------------------------------------------------------------
(* Valuations and reallocations *)

\* A sum of values none of which is negative is not, and is positive when one is.
LEMMA TotalSigns ==
  ASSUME NEW v \in Seq(Rats), \A k \in 1..Len(v) : Zero \preceq v[k]
  PROVE  Zero \preceq Total(v) /\ (\A k \in 1..Len(v) : Positive(v[k]) => Positive(Total(v)))
<1> DEFINE Bad == {k \in Nat : k <= Len(v) /\ ~(/\ Zero \preceq Sums(v)[k]
                                               /\ \A j \in 1..k : Positive(v[j]) => Positive(Sums(v)[k]))}
<1>1. Len(v) \in Nat
  OBVIOUS
<1>2. Zero \preceq Zero
  <2>1. Stands(Zero, 0, 1) /\ 0 \in Int /\ 1 \in Nat \ {0}
    BY ZeroIsRat
  <2> QED
    BY <2>1, OverOneDenominator
<1>3. Bad = {}
  <2> SUFFICES ASSUME Bad # {}
               PROVE  FALSE
    OBVIOUS
  <2>1. Bad \in SUBSET Nat
    OBVIOUS
  <2>2. PICK k \in Bad : \A j \in Bad : k <= j
    <3> HIDE DEF Bad
    <3> QED
      BY <2>1, LeastNatural
  <2>3. k \in Nat /\ k <= Len(v)
    OBVIOUS
  <2>4. k # 0
    <3>1. Sums(v)[0] = Zero /\ \A j \in 1..0 : FALSE
      BY SumsAre
    <3> QED
      BY <1>2, <3>1
  <2>5. k - 1 \in Nat /\ k - 1 \notin Bad /\ k - 1 <= Len(v) /\ k \in 1..Len(v)
    <3> HIDE DEF Bad
    <3> QED
      BY <1>1, <2>2, <2>3, <2>4
  <2> DEFINE x == Sums(v)[k - 1]  y == v[k]  z == Sums(v)[k]
  <2>6. Zero \preceq x /\ \A j \in 1..(k - 1) : Positive(v[j]) => Positive(x)
    BY <2>5
  <2>7. x \in Rats /\ y \in Rats /\ z = x ++ y /\ Zero \preceq y
    BY <1>1, <2>5, SumsAre, SumsAgree
  <2> HIDE DEF x, y, z
  <2>11. x ++ y = y ++ x
    BY <2>7, AddCommutes
  <2>8. Zero \preceq z /\ (Positive(x) => Positive(z)) /\ (Positive(y) => Positive(z))
    BY <2>6, <2>7, <2>11, SignsOfRats
  <2>9. \A j \in 1..k : j \in 1..(k - 1) \/ j = k
    BY <2>3, <2>4
  <2>10. \A j \in 1..k : Positive(v[j]) => Positive(z)
    BY <2>6, <2>8, <2>9 DEF y
  <2> QED
    BY <2>8, <2>10 DEF z
<1>4. Len(v) \notin Bad
  BY <1>3
<1> HIDE DEF Bad
<1>5. Zero \preceq Sums(v)[Len(v)] /\ \A j \in 1..Len(v) : Positive(v[j]) => Positive(Sums(v)[Len(v)])
  BY <1>1, <1>4 DEF Bad
<1> QED
  BY <1>5, SumsAre

\* A row's worth in a valuation.
Worth(p, i, ids, atCost) ==
  IF i \notin ids THEN Zero ELSE IF i \in atCost THEN Basis(p[i]) ELSE MarketValue(p[i])

\* A valuation is a value, and with quotes for all it looks at it is not negative.
LEMMA ValueFacts ==
  ASSUME TypeInv, NEW p \in Seq(Rows), NEW ids, NEW atCost
  PROVE  /\ ValueOpen(p, ids, atCost) \in Rats
         /\ (\A i \in ids : i \in DOMAIN p /\ i \notin atCost /\ Quoted(p[i].sym) /\ Positive(p[i].qty)) =>
              /\ Zero \preceq ValueOpen(p, ids, atCost)
              /\ ids # {} => Positive(ValueOpen(p, ids, atCost))
<1> DEFINE v == [i \in DOMAIN p |-> Worth(p, i, ids, atCost)]
<1>1. ASSUME NEW i \in 1..Len(p)
      PROVE  /\ Worth(p, i, ids, atCost) \in Rats
             /\ i \in ids /\ i \notin atCost /\ Quoted(p[i].sym) /\ Positive(p[i].qty) => Positive(Worth(p, i, ids, atCost))
             /\ i \notin ids => Worth(p, i, ids, atCost) = Zero
  <2> DEFINE r == p[i]  y == Rat(price[r.sym])
  <2>1. r \in Rows
    OBVIOUS
  <2>2. r.qty \in Rats /\ r.sym \in Symbols /\ Basis(r) \in Rats
    BY <2>1, ZeroIsRat, RowChanges
  <2>3. y \in Rats /\ (Quoted(r.sym) => Positive(y))
    BY <2>2, Setting
  <2>4. MarketValue(r) = r.qty ** y
    BY DEF MarketValue
  <2> HIDE DEF y, r
  <2>5. MarketValue(r) \in Rats /\ (Positive(r.qty) /\ Positive(y) => Positive(MarketValue(r)))
    BY <2>2, <2>3, <2>4, RatClosed, SignsOfRats
  <2> QED
    BY <2>2, <2>3, <2>5, ZeroIsRat DEF Worth, r
<1>2. v \in Seq(Rats) /\ Len(v) = Len(p)
  <2>1. DOMAIN v = 1..Len(p) /\ v = [i \in 1..Len(p) |-> v[i]] /\ Len(p) \in Nat
    OBVIOUS
  <2>2. \A i \in 1..Len(p) : v[i] \in Rats
    BY <1>1
  <2> HIDE DEF v
  <2> QED
    BY <2>1, <2>2, AllRats
<1>3. ValueOpen(p, ids, atCost) = Total(v)
  BY DEF ValueOpen, Worth
<1>4. \A i \in 1..Len(p) : v[i] = Worth(p, i, ids, atCost)
  OBVIOUS
<1> HIDE DEF v
<1>5. ASSUME \A i \in ids : i \in DOMAIN p /\ i \notin atCost /\ Quoted(p[i].sym) /\ Positive(p[i].qty)
      PROVE  Zero \preceq Total(v) /\ (ids # {} => Positive(Total(v)))
  <2>1. \A i \in 1..Len(p) : Positive(v[i]) \/ v[i] = Zero
    BY <1>1, <1>4, <1>5
  <2>2. Zero \preceq Zero
    <3>1. Stands(Zero, 0, 1) /\ 0 \in Int /\ 1 \in Nat \ {0}
      BY ZeroIsRat
    <3> QED
      BY <3>1, OverOneDenominator
  <2>3. \A i \in 1..Len(v) : Zero \preceq v[i]
    <3>1. \A i \in 1..Len(v) : v[i] \in Rats
      BY <1>2
    <3> QED
      BY <1>2, <2>1, <2>2, <3>1, SignsOfRats, ZeroIsRat
  <2>4. Zero \preceq Total(v) /\ (\A k \in 1..Len(v) : Positive(v[k]) => Positive(Total(v)))
    BY <1>2, <2>3, TotalSigns
  <2>5. \A i \in ids : i \in 1..Len(v) /\ Positive(v[i])
    BY <1>1, <1>2, <1>4, <1>5
  <2> QED
    BY <2>4, <2>5
<1> QED
  BY <1>2, <1>3, <1>5, TotalIsRat

\* A finite set written as a sequence.
LEMMA SetToSeqFacts ==
  ASSUME NEW S, IsFiniteSet(S)
  PROVE  LET q == SetToSeq(S) IN q \in Seq(S) /\ DOMAIN q = 1..Len(q) /\ Len(q) \in Nat
<1> DEFINE n == Cardinality(S)
<1>1. n \in Nat /\ ExistsBijection(1..n, S)
  BY FS_CardinalityType
<1> HIDE DEF n
<1>2. PICK f \in [1..n -> S] : IsInjective(f)
  BY <1>1 DEF ExistsBijection, Bijection, Injection, IsInjective
<1>3. SetToSeq(S) \in [1..n -> S]
  BY <1>2 DEF SetToSeq, n
<1> DEFINE q == SetToSeq(S)
<1> HIDE DEF q
<1>4. q \in [1..n -> S]
  BY <1>3 DEF q
<1>5. q \in Seq(S)
  BY <1>1, <1>4
<1> QED
  BY <1>5 DEF q

\* Reallocating the book: new rows for every target, and what is left stays cash.
LEMMA ReplacePlan ==
  ASSUME TypeInv, NEW target \in Allocations, Zero \preceq cash, BookQuoted, Positive(BookValue),
         \A s \in Symbols : Positive(target[s]) => Quoted(s)
  PROVE  LET p == planReplace(target) IN Kept(p) /\ p.atCost = {} /\ p.ret = Zero /\ ~p.inv
<1> DEFINE v == BookValue
           S == {s \in Symbols : Positive(target[s])}
           q == SetToSeq(S)
           gone == [i \in DOMAIN position |->
                      IF i \in OpenIds(position) THEN [position[i] EXCEPT !.status = "deleted"] ELSE position[i]]
           row(s) == Row(s, (v ** target[s]) // Rat(price[s]), Rat(price[s]))
           new == [k \in DOMAIN q |-> row(q[k])]
           pos == gone \o new
           w == Total([k \in DOMAIN q |-> target[q[k]]])
           c == v ** (One -- w)
           ids == (Len(position) + 1)..(Len(position) + Len(q))
           p == planReplace(target)
<1>1. position \in Seq(Rows) /\ cash \in Rats /\ Len(position) \in Nat
  BY DEF TypeInv
<1>2. v \in Rats
  <2>1. ValueOpen(position, OpenIds(position), {}) \in Rats
    BY <1>1, ValueFacts
  <2> QED
    BY <1>1, <2>1, RatClosed DEF BookValue, ValueTracked
<1>3. \A s \in Symbols : target[s] \in Rats
  BY LedgerAssumption, RatStands
<1>4. q \in Seq(S) /\ DOMAIN q = 1..Len(q) /\ Len(q) \in Nat
  <2>1. S \in SUBSET Symbols /\ IsFiniteSet(Symbols)
    BY LedgerAssumption
  <2>2. IsFiniteSet(S)
    <3> HIDE DEF S
    <3> QED
      BY <2>1, FS_Subset
  <2> HIDE DEF S
  <2> QED
    BY <2>2, SetToSeqFacts
<1>5. p = [Book EXCEPT !.pos = pos, !.open = ids, !.cash = c]
  BY DEF planReplace
<1>6. \A k \in 1..Len(q) : q[k] \in Symbols /\ Positive(target[q[k]])
  <2> HIDE DEF q
  <2> QED
    BY <1>4
<1> HIDE DEF q, v
<1>7. c \in Rats
  <2> DEFINE t == [k \in DOMAIN q |-> target[q[k]]]
  <2>1. DOMAIN t = 1..Len(q) /\ t = [k \in 1..Len(q) |-> t[k]] /\ \A k \in 1..Len(q) : t[k] \in Rats
    BY <1>3, <1>4, <1>6
  <2>2. t \in Seq(Rats)
    <3> HIDE DEF t
    <3> QED
      BY <1>4, <2>1, AllRats
  <2> HIDE DEF t
  <2>3. Total(t) \in Rats /\ One \in Rats
    BY <2>2, TotalIsRat, Wholes DEF One
  <2>4. v ** (One -- Total(t)) \in Rats
    BY <1>2, <2>3, RatClosed
  <2> QED
    BY <2>4 DEF t
<1>8. \A k \in 1..Len(q) : row(q[k]) \in Rows /\ row(q[k]).status = "open" /\ Positive(row(q[k]).qty)
                           /\ Zero \preceq row(q[k]).avg
  <2> SUFFICES ASSUME NEW k \in 1..Len(q)
               PROVE  /\ row(q[k]) \in Rows /\ row(q[k]).status = "open" /\ Positive(row(q[k]).qty)
                      /\ Zero \preceq row(q[k]).avg
    OBVIOUS
  <2> DEFINE s == q[k]  y == Rat(price[s])  t == target[s]  z == (v ** t) // y
  <2>1. s \in Symbols /\ Positive(t) /\ t \in Rats
    BY <1>3, <1>6
  <2>2. y \in Rats /\ Positive(y) /\ Zero \preceq y /\ Now \in Nat
    BY <1>6, <2>1, Setting
  <2>3. row(s) = Row(s, z, y) /\ Positive(v)
    BY DEF v
  <2> HIDE DEF row, s, y, t
  <2>4. z \in Rats /\ Positive(z)
    BY <1>2, <2>1, <2>2, <2>3, RatClosed, SignsOfRats
  <2> HIDE DEF z
  <2>5. row(s) \in Rows /\ row(s).status = "open" /\ row(s).qty = z /\ row(s).avg = y
    BY <2>1, <2>2, <2>3, <2>4 DEF Row, Rows
  <2> QED
    BY <2>2, <2>4, <2>5 DEF s
<1>9. gone \in Seq(Rows) /\ Len(gone) = Len(position)
      /\ \A i \in 1..Len(position) : gone[i].status # "open" /\ gone[i].avg = position[i].avg
  <2>1. \A i \in 1..Len(position) : gone[i] \in Rows /\ gone[i].status # "open" /\ gone[i].avg = position[i].avg
    <3> SUFFICES ASSUME NEW i \in 1..Len(position)
                 PROVE  gone[i] \in Rows /\ gone[i].status # "open" /\ gone[i].avg = position[i].avg
      OBVIOUS
    <3> DEFINE r == position[i]  u == [r EXCEPT !.status = "deleted"]
    <3>1. r \in Rows
      BY <1>1
    <3>2. i \in OpenIds(position) <=> r.status = "open"
      BY <1>1 DEF OpenIds
    <3>3. gone[i] = IF i \in OpenIds(position) THEN u ELSE r
      BY <1>1
    <3> HIDE DEF r, gone
    <3>4. u \in Rows /\ u.status = "deleted" /\ u.avg = r.avg
      BY <3>1 DEF Rows
    <3> QED
      BY <3>1, <3>2, <3>3, <3>4 DEF r
  <2>2. DOMAIN gone = 1..Len(position) /\ gone = [i \in 1..Len(position) |-> gone[i]]
    BY <1>1
  <2> HIDE DEF gone
  <2>3. gone \in [1..Len(position) -> Rows]
    BY <2>1, <2>2
  <2> QED
    BY <1>1, <2>1, <2>3
<1>10. new \in Seq(Rows) /\ Len(new) = Len(q) /\ \A k \in 1..Len(q) : new[k] = row(q[k])
  <2>1. \A k \in 1..Len(q) : new[k] \in Rows /\ new[k] = row(q[k])
    BY <1>4, <1>8
  <2>2. DOMAIN new = 1..Len(q) /\ new = [k \in 1..Len(q) |-> new[k]]
    BY <1>4
  <2> HIDE DEF new, row
  <2>3. new \in [1..Len(q) -> Rows]
    BY <2>1, <2>2
  <2> QED
    BY <1>4, <2>1, <2>3
<1> HIDE DEF gone, new
<1>11. /\ pos \in Seq(Rows) /\ Len(pos) = Len(position) + Len(q)
       /\ \A i \in 1..Len(pos) : \/ i <= Len(position) /\ pos[i] = gone[i]
                                 \/ \E k \in 1..Len(q) : i = Len(position) + k /\ pos[i] = new[k]
  <2>0. gone \in Seq(Rows) /\ new \in Seq(Rows) /\ Len(gone) = Len(position) /\ Len(new) = Len(q)
    BY <1>9, <1>10
  <2>4. gone \o new \in Seq(Rows) /\ Len(gone \o new) = Len(gone) + Len(new)
    BY <2>0
  <2>1. pos \in Seq(Rows) /\ Len(pos) = Len(position) + Len(q)
    BY <2>0, <2>4
  <2>2. ASSUME NEW i \in 1..Len(pos), ~(i <= Len(position))
        PROVE  \E k \in 1..Len(q) : i = Len(position) + k /\ pos[i] = new[k]
    <3>1. i - Len(position) \in 1..Len(q) /\ i = Len(position) + (i - Len(position))
      BY <1>1, <1>4, <2>1, <2>2
    <3>2. pos[i] = new[i - Len(position)]
      BY <1>1, <1>4, <1>9, <1>10, <2>1, <2>2
    <3> QED
      BY <3>1, <3>2
  <2>3. ASSUME NEW i \in 1..Len(pos), i <= Len(position)
        PROVE  pos[i] = gone[i]
    BY <1>1, <1>9, <1>10, <2>1, <2>3
  <2> QED
    BY <2>1, <2>2, <2>3
<1> HIDE DEF pos, row, c
<1>12. \A i \in 1..Len(pos) : /\ pos[i].status = "open" <=> i \in ids
                              /\ pos[i].status = "open" => Positive(pos[i].qty)
                              /\ Costed(position) => Zero \preceq pos[i].avg
  <2> SUFFICES ASSUME NEW i \in 1..Len(pos)
               PROVE  /\ pos[i].status = "open" <=> i \in ids
                      /\ pos[i].status = "open" => Positive(pos[i].qty)
                      /\ Costed(position) => Zero \preceq pos[i].avg
    OBVIOUS
  <2>1. CASE i <= Len(position) /\ pos[i] = gone[i]
    <3>1. i \in 1..Len(position) /\ i \notin ids /\ i \in DOMAIN position
      BY <1>1, <1>4, <2>1
    <3> QED
      BY <1>9, <2>1, <3>1 DEF Costed
  <2>2. CASE \E k \in 1..Len(q) : i = Len(position) + k /\ pos[i] = new[k]
    <3>1. PICK k \in 1..Len(q) : i = Len(position) + k /\ pos[i] = new[k]
      BY <2>2
    <3>2. i \in ids
      BY <1>1, <1>4, <3>1
    <3> QED
      BY <1>8, <1>10, <3>1, <3>2
  <2> QED
    BY <1>11, <2>1, <2>2
<1>13. ids = OpenIds(pos) /\ PositiveRows(pos) /\ (Costed(position) => Costed(pos)) /\ ids \in SUBSET Nat
  <2>1. DOMAIN pos = 1..Len(pos) /\ ids \subseteq 1..Len(pos)
    BY <1>1, <1>4, <1>11
  <2>2. ids \in SUBSET Nat
    BY <1>1, <1>4
  <2> HIDE DEF ids
  <2>3. ids = OpenIds(pos)
    BY <1>12, <2>1 DEF OpenIds
  <2>4. PositiveRows(pos)
    BY <1>12, <2>1 DEF PositiveRows
  <2>5. Costed(position) => Costed(pos)
    BY <1>12, <2>1 DEF Costed
  <2> QED
    BY <2>2, <2>3, <2>4, <2>5
<1> HIDE DEF p, ids
<1>14. /\ p \in Plans /\ p.pos = pos /\ p.open = ids /\ p.acts = <<>> /\ p.atCost = {} /\ p.ret = Zero /\ ~p.inv
  BY <1>5, <1>7, <1>11, <1>13, BookFacts DEF Plans
<1>15. NewLegs(p.acts, Len(p.pos))
  <2>1. <<>> \in Seq(Activities) /\ DOMAIN <<>> = {}
    OBVIOUS
  <2> QED
    BY <1>14, <2>1 DEF NewLegs
<1>16. PlanTyped(p)
  <2>1. Len(position) <= Len(p.pos)
    BY <1>1, <1>4, <1>11, <1>14
  <2>2. \A i \in OpenIds(p.pos) : Positive(p.pos[i].qty)
    BY <1>13, <1>14 DEF PositiveRows, OpenIds
  <2>3. \A k \in DOMAIN p.acts : FALSE
    BY <1>14
  <2> QED
    BY <1>14, <2>1, <2>2, <2>3 DEF PlanTyped
<1>17. Kept(p)
  BY <1>13, <1>14, <1>15, <1>16 DEF Kept, BookTyped
<1> QED
  BY <1>14, <1>17 DEF p

-----------------------------------------------------------------------------
(* Corrections of trades *)

\* What the repository gives back of an activity: in PostgreSQL without its fee
\* and net amount.
LEMMA ReadBackFacts ==
  ASSUME TypeInv, NEW i \in DOMAIN ledger
  PROVE  LET o == ReadBack(i)  a == ledger[i] IN
         /\ a \in Activities /\ o \in Activities /\ o.type = a.type /\ o.sym = a.sym /\ o.ep = a.ep /\ o.qty = a.qty
         /\ o.gross = a.gross /\ o.at = a.at /\ o.created = a.created /\ o.of = a.of
         /\ o.fee \in Rats /\ o.net \in Rats /\ o.gross \in Rats /\ o.qty \in Rats
         /\ Store = "memory" => o = a
         /\ i \in Nat /\ i >= 1 /\ a.at \in Nat /\ a.at <= a.created /\ a.created < Now /\ a.created \in Nat
         /\ a.type \notin LooseTypes => a.ep \in DOMAIN position /\ a.ep \in 1..Len(position)
         /\ a.ep \in Nat
<1> DEFINE a == ledger[i]  o == ReadBack(i)
<1>1. a \in Activities /\ WellFormed(a, Len(position)) /\ a.at <= a.created /\ a.created < Now
  BY DEF TypeInv, Now
<1>2. i \in Nat /\ i >= 1 /\ Len(position) \in Nat /\ DOMAIN position = 1..Len(position)
  BY DEF TypeInv
<1>3. o = IF Store = "postgres" THEN [a EXCEPT !.fee = Zero, !.net = Zero] ELSE a
  BY DEF ReadBack
<1> HIDE DEF a, o
<1>4. a.ep \in Nat /\ a.at \in Nat /\ a.created \in Nat
  BY <1>1 DEF Activities
<1>5. a.type \notin LooseTypes => a.ep \in DOMAIN position /\ a.ep \in 1..Len(position)
  BY <1>1, <1>2, <1>4 DEF WellFormed
<1>6. /\ o \in Activities /\ o.type = a.type /\ o.sym = a.sym /\ o.ep = a.ep /\ o.qty = a.qty
      /\ o.gross = a.gross /\ o.at = a.at /\ o.created = a.created /\ o.of = a.of
  BY <1>1, <1>3, ZeroIsRat DEF Activities
<1>7. o.fee \in Rats /\ o.net \in Rats /\ o.gross \in Rats /\ o.qty \in Rats
  BY <1>6 DEF Activities
<1>8. Store = "memory" => o = a
  BY <1>3
<1> QED
  BY <1>1, <1>2, <1>4, <1>5, <1>6, <1>7, <1>8 DEF a, o

\* The correction of a trade: one leg in the place of the one it corrects.
Corrects(p, i) ==
  LET a == p.acts[1] IN
  /\ p.acts = <<a>> /\ a \in Activities
  /\ a.of = i /\ a.type = ledger[i].type /\ a.ep = ledger[i].ep /\ a.at = ledger[i].at /\ a.created = Now
  /\ Store = "memory" => p.cash = (cash -- CashEffectOf(ledger[i])) ++ CashEffectOf(a)

\* Exchanging one trade's cash for another's.
LEMMA CorrectedSums ==
  ASSUME NEW c \in Rats, NEW t \in Rats, NEW s \in Rats
  PROVE  /\ c -- (t -- s) = (c -- (Zero -- s)) ++ (Zero -- t)
         /\ c ++ (t -- s) = (c -- s) ++ t
<1>1. PICK d \in Nat \ {0}, u \in Int, v \in Int, w \in Int :
        Stands(c, u, d) /\ Stands(t, v, d) /\ Stands(s, w, d)
  BY Common3
<1>2. Stands(Zero, 0, d)
  BY ZeroIsRat
<1>3. Stands(t -- s, v - w, d) /\ Stands(Zero -- s, 0 - w, d) /\ Stands(Zero -- t, 0 - v, d) /\ Stands(c -- s, u - w, d)
  BY <1>1, <1>2, SameDenominator
<1>4. /\ Stands(c -- (t -- s), u - (v - w), d) /\ Stands(c ++ (t -- s), u + (v - w), d)
      /\ Stands(c -- (Zero -- s), u - (0 - w), d) /\ Stands((c -- s) ++ t, (u - w) + v, d)
  BY <1>1, <1>3, SameDenominator
<1>5. Stands((c -- (Zero -- s)) ++ (Zero -- t), (u - (0 - w)) + (0 - v), d)
  BY <1>3, <1>4, SameDenominator
<1>6. u - (v - w) = (u - (0 - w)) + (0 - v) /\ u + (v - w) = (u - w) + v
  OBVIOUS
<1> QED
  BY <1>4, <1>5, <1>6, SameDenominatorEqual

\* What a corrected purchase takes from the cash it adds to the basis.
LEMMA CorrectedEquity ==
  ASSUME NEW c \in Rats, NEW B \in Rats, NEW b \in Rats, NEW s \in Rats, NEW t \in Rats
  PROVE  (c -- (t -- s)) ++ ((B -- b) ++ ((b -- s) ++ t)) = c ++ B
<1> DEFINE x == t -- s
<1>1. x \in Rats
  BY RatClosed
<1>2. (b -- s) ++ t = b ++ x
  BY CorrectedSums
<1> HIDE DEF x
<1>3. PICK d \in Nat \ {0}, u \in Int, v \in Int, w \in Int, y \in Int :
        Stands(c, u, d) /\ Stands(B, v, d) /\ Stands(b, w, d) /\ Stands(x, y, d)
  BY <1>1, Common4
<1>4. Stands(c -- x, u - y, d) /\ Stands(B -- b, v - w, d) /\ Stands(b ++ x, w + y, d) /\ Stands(c ++ B, u + v, d)
  BY <1>3, SameDenominator
<1>5. Stands((B -- b) ++ (b ++ x), (v - w) + (w + y), d)
  BY <1>4, SameDenominator
<1>6. Stands((c -- x) ++ ((B -- b) ++ (b ++ x)), (u - y) + ((v - w) + (w + y)), d)
  BY <1>4, <1>5, SameDenominator
<1>7. (u - y) + ((v - w) + (w + y)) = u + v
  OBVIOUS
<1>8. (c -- x) ++ ((B -- b) ++ (b ++ x)) = c ++ B
  BY <1>4, <1>6, <1>7, SameDenominatorEqual
<1> QED
  BY <1>2, <1>8 DEF x

\* The correction of a trade is a plan.
LEMMA CorrectionTyped ==
  ASSUME TypeInv, NEW i \in DOMAIN ledger, ledger[i].type \in {"buy", "sell"}, trusted.at <= ledger[i].at,
         NEW r \in Rows, NEW a \in Activities, NEW p \in Plans,
         p.pos = PutRow(position, ledger[i].ep, r), p.acts = <<a>>, ~p.inv,
         OpenIds(position) \ {ledger[i].ep} \subseteq p.open,
         r.status = "open" => Positive(r.qty) \/ ledger[i].ep \in p.open,
         a.type = ledger[i].type, a.sym \in Symbols, a.ep = ledger[i].ep, a.at = ledger[i].at, a.created = Now, a.of = i,
         a.type = "sell" => a.net = a.gross -- a.fee
  PROVE  PlanTyped(p)
<1> DEFINE e == ledger[i].ep
<1>1. e \in DOMAIN position /\ e \in 1..Len(position) /\ e \in Nat /\ Len(position) \in Nat /\ position \in Seq(Rows)
      /\ i \in Nat /\ i >= 1 /\ a.at <= Now /\ trusted.at <= a.at /\ e \in 1..(Len(position) + 1)
  <2>1. ledger[i].type \notin LooseTypes
    BY DEF LooseTypes, CashTypes
  <2>2. position \in Seq(Rows) /\ Len(position) \in Nat
    BY DEF TypeInv
  <2>3. /\ e \in DOMAIN position /\ e \in 1..Len(position) /\ i \in Nat /\ i >= 1
        /\ ledger[i].at <= ledger[i].created /\ ledger[i].created < Now /\ ledger[i].at \in Nat /\ ledger[i].created \in Nat
        /\ Now \in Nat
    BY <2>1, ReadBackFacts, Setting
  <2>4. a.at <= Now
    BY <2>3
  <2> QED
    BY <2>2, <2>3, <2>4
<1> HIDE DEF e
<1>2. /\ p.pos \in Seq(Rows) /\ Len(position) <= Len(p.pos) /\ e <= Len(p.pos) /\ p.pos[e] = r
      /\ DOMAIN p.pos = DOMAIN position \cup {e} /\ \A j \in DOMAIN position : j # e => p.pos[j] = position[j]
  <2> DEFINE w == PutRow(position, e, r)
  <2>1. p.pos = w
    BY DEF e
  <2>2. /\ w \in Seq(Rows) /\ Len(position) <= Len(w) /\ e <= Len(w) /\ w[e] = r
        /\ DOMAIN w = DOMAIN position \cup {e} /\ \A j \in DOMAIN position : j # e => w[j] = position[j]
    BY <1>1, PutRowTyped
  <2> HIDE DEF w
  <2> QED
    BY <2>1, <2>2
<1>3. \A j \in OpenIds(p.pos) : Positive(p.pos[j].qty) \/ (~p.inv /\ j \in p.open)
  <2> SUFFICES ASSUME NEW j \in OpenIds(p.pos)
               PROVE  Positive(p.pos[j].qty) \/ j \in p.open
    OBVIOUS
  <2>1. CASE j = e
    BY <1>2, <2>1 DEF OpenIds, e
  <2>2. CASE j # e
    BY <1>2, <2>2 DEF OpenIds, e
  <2> QED
    BY <2>1, <2>2
<1>4. NewLeg(a, Len(p.pos))
  <2>1. WellFormed(a, Len(p.pos))
    <3>1. a.ep <= Len(p.pos) /\ a.ep > 0 /\ a.type \notin CashTypes /\ a.sym \in Symbols
      BY <1>1, <1>2 DEF CashTypes, e
    <3> QED
      BY <3>1 DEF WellFormed
  <2>2. MayCorrect(i)
    BY DEF MayCorrect
  <2> QED
    BY <1>1, <2>1, <2>2 DEF NewLeg
<1>5. \A k \in DOMAIN p.acts : p.acts[k] = a
  OBVIOUS
<1> QED
  BY <1>2, <1>3, <1>4, <1>5 DEF PlanTyped

\* The correction of a purchase: nothing opens or closes, and in an open episode it is
\* accounted for.
LEMMA CorrectBuyPlan ==
  ASSUME TypeInv, NEW i \in DOMAIN ledger, ReadBack(i).type = "buy", validateCorrection(i),
         NEW q \in Rats, NEW x \in Rats, NEW f \in Rats,
         (position[ledger[i].ep].qty -- ledger[i].qty) ++ q # Zero
  PROVE  LET p == planCorrectBuy(i, q, x, f) IN
         /\ PlanTyped(p) /\ Corrects(p, i) /\ ~p.inv /\ p.atCost = {}
         /\ p.open = OpenIds(position) /\ p.open = OpenIds(p.pos)
         /\ position[ledger[i].ep].status = "open" => Accounted(p)
         /\ \A j \in DOMAIN p.pos : j \in DOMAIN position /\ p.pos[j].status = position[j].status
<1> DEFINE o == ReadBack(i)
           e == o.ep
           v == position[e]
           s == o.gross ++ o.fee
           t == (q ** x) ++ f
           n == (v.qty -- o.qty) ++ q
           b == (((Basis(v) -- o.gross) -- o.fee) ++ (q ** x)) ++ f
           w == b // n
           r == [v EXCEPT !.qty = n, !.avg = w]
           z == v.sym
           d == Activity("buy", z, e)
           a == [d EXCEPT !.qty = q, !.gross = q ** x, !.fee = f, !.net = t, !.at = o.at, !.of = i]
           c == cash -- (t -- s)
           p == planCorrectBuy(i, q, x, f)
<1>1. /\ o \in Activities /\ o.type = "buy" /\ ledger[i].type = "buy" /\ o.qty = ledger[i].qty /\ o.at = ledger[i].at
      /\ o.fee \in Rats /\ o.gross \in Rats /\ o.qty \in Rats /\ e = ledger[i].ep /\ o.at \in Nat /\ i \in Nat
      /\ (Store = "memory" => o = ledger[i])
  BY ReadBackFacts DEF Activities
<1>2. e \in DOMAIN position /\ e \in 1..Len(position) /\ position \in Seq(Rows) /\ Len(position) \in Nat /\ cash \in Rats
      /\ Now \in Nat /\ e \in Nat /\ e \in 1..(Len(position) + 1)
  <2>1. ledger[i].type \notin LooseTypes
    BY <1>1 DEF LooseTypes, CashTypes
  <2>2. position \in Seq(Rows) /\ Len(position) \in Nat /\ cash \in Rats /\ Now \in Nat
    BY Setting DEF TypeInv
  <2>3. e \in DOMAIN position /\ e \in 1..Len(position) /\ e \in Nat
    BY <1>1, <2>1, ReadBackFacts
  <2> QED
    BY <2>2, <2>3
<1>3. p = [Book EXCEPT !.pos = PutRow(position, e, r), !.cash = c, !.acts = <<a>>, !.ret = o.fee -- f]
  BY DEF planCorrectBuy
<1>4. v \in Rows /\ trusted.at <= ledger[i].at
  BY <1>2 DEF validateCorrection, TypeInv
<1> HIDE DEF p, o
<1>5. v.qty \in Rats /\ v.avg \in Rats /\ z \in Symbols /\ Basis(v) \in Rats
  BY <1>4, ZeroIsRat, RowChanges
<1>6. n \in Rats /\ n # Zero
  <2>1. v.qty -- o.qty \in Rats
    BY <1>1, <1>5, RatClosed
  <2> QED
    BY <1>1, <2>1, RatClosed
<1>7. s \in Rats /\ t \in Rats /\ c \in Rats /\ o.fee -- f \in Rats /\ q ** x \in Rats
  <2>1. s \in Rats /\ q ** x \in Rats /\ o.fee -- f \in Rats
    BY <1>1, RatClosed
  <2> HIDE DEF s
  <2>2. t \in Rats
    BY <2>1, RatClosed
  <2> HIDE DEF t
  <2>3. t -- s \in Rats
    BY <2>1, <2>2, RatClosed
  <2> QED
    BY <1>2, <2>1, <2>2, <2>3, RatClosed
<1>8. b = (Basis(v) -- s) ++ t /\ b \in Rats
  <2> DEFINE B == Basis(v)  g == o.gross  h == o.fee  y == q ** x
  <2>1. B \in Rats /\ g \in Rats /\ h \in Rats /\ y \in Rats
    BY <1>1, <1>5, <1>7
  <2> HIDE DEF B, g, h, y
  <2>2. (B -- g) -- h = B -- (g ++ h)
    BY <2>1, MovesOver
  <2>3. B -- (g ++ h) \in Rats /\ g ++ h \in Rats
    BY <2>1, RatClosed
  <2>4. ((B -- (g ++ h)) ++ y) ++ f = (B -- (g ++ h)) ++ (y ++ f) /\ y ++ f \in Rats
    BY <2>1, <2>3, AddAssociates, RatClosed
  <2>5. (B -- (g ++ h)) ++ (y ++ f) \in Rats
    BY <2>3, <2>4, RatClosed
  <2> QED
    BY <2>2, <2>4, <2>5 DEF B, g, h, y
<1>9. w \in Rats /\ n ** w = b
  <2> HIDE DEF n, b
  <2> QED
    BY <1>6, <1>8, RatClosed, TimesOver
<1> HIDE DEF n, b, w
<1>10. r \in Rows /\ r.status = v.status /\ Basis(r) = b
  BY <1>4, <1>6, <1>9 DEF Rows, Basis
<1>11. d \in Activities /\ d.type = "buy" /\ d.sym = z /\ d.ep = e /\ d.created = Now
  <2>1. "buy" \in EpisodeTypes
    BY DEF EpisodeTypes, ActivityTypes, CashTypes
  <2> HIDE DEF z, e
  <2> QED
    BY <1>2, <1>5, <2>1, EpisodeLeg
<1> HIDE DEF d, t, s, z, c
<1>12. /\ a \in Activities /\ a.type = "buy" /\ a.sym = z /\ a.ep = e /\ a.created = Now /\ a.at = o.at /\ a.of = i
       /\ a.gross = q ** x /\ a.fee = f
  BY <1>1, <1>7, <1>11 DEF Activities
<1>13. CashEffectOf(a) = Zero -- t
  BY <1>12 DEF CashEffectOf, t
<1> HIDE DEF a, r
<1> DEFINE pos == PutRow(position, e, r)
<1>14. /\ pos \in Seq(Rows) /\ DOMAIN pos = DOMAIN position \cup {e} /\ pos[e] = r
       /\ \A j \in DOMAIN position : j # e => pos[j] = position[j]
  <2> HIDE DEF e
  <2> QED
    BY <1>2, <1>10, PutRowTyped
<1> HIDE DEF pos
<1>15. /\ p \in Plans /\ p.pos = pos /\ p.open = OpenIds(position) /\ p.cash = c /\ p.acts = <<a>> /\ ~p.inv /\ p.atCost = {}
  <2>1. <<a>> \in Seq(Activities)
    BY <1>12
  <2>2. p = [Book EXCEPT !.pos = pos, !.cash = c, !.acts = <<a>>, !.ret = o.fee -- f]
    BY <1>3 DEF pos
  <2> QED
    BY <1>7, <1>14, <2>1, <2>2, BookFacts DEF Plans
<1>16. \A j \in DOMAIN p.pos : j \in DOMAIN position /\ p.pos[j].status = position[j].status
  BY <1>2, <1>10, <1>14, <1>15
<1>17. p.open = OpenIds(p.pos)
  <2>1. DOMAIN p.pos = DOMAIN position
    BY <1>2, <1>14, <1>15
  <2> QED
    BY <1>15, <1>16, <2>1 DEF OpenIds
<1>18. Corrects(p, i)
  <2>1. p.acts[1] = a
    BY <1>15
  <2>2. Store = "memory" => c = (cash -- CashEffectOf(ledger[i])) ++ CashEffectOf(a)
    <3>1. CashEffectOf(o) = Zero -- s
      BY <1>1 DEF CashEffectOf, s
    <3>2. c = (cash -- (Zero -- s)) ++ (Zero -- t)
      BY <1>2, <1>7, CorrectedSums DEF c
    <3> QED
      BY <1>1, <1>13, <3>1, <3>2
  <2> QED
    BY <1>1, <1>12, <1>15, <2>1, <2>2 DEF Corrects
<1>19. PlanTyped(p)
  <2>1. r.status = "open" => e \in p.open
    BY <1>2, <1>10, <1>15 DEF OpenIds
  <2>2. OpenIds(position) \ {e} \subseteq p.open
    BY <1>15
  <2> HIDE DEF v
  <2>3. p.pos = PutRow(position, ledger[i].ep, r)
    BY <1>1, <1>15 DEF pos
  <2> QED
    BY <1>1, <1>4, <1>5, <1>10, <1>12, <1>15, <2>1, <2>2, <2>3, CorrectionTyped
<1>20. ASSUME v.status = "open"
       PROVE  Accounted(p)
  <2> DEFINE B == BasisOf(position, OpenIds(position))  y == Basis(v)
  <2>1. B \in Rats /\ y \in Rats
    BY <1>2, <1>5, BasisTyped
  <2>2. BasisOf(pos, OpenIds(pos)) = (B -- y) ++ b
    <3>1. CostOf(position[e]) = y /\ CostOf(r) = b
      BY <1>10, <1>20 DEF CostOf
    <3> HIDE DEF v, e
    <3> QED
      BY <1>2, <1>10, <3>1, BasisOfPut DEF pos
  <2>3. Equity(p) = c ++ ((B -- y) ++ b) /\ Equity(Book) = cash ++ B
    BY <1>15, <1>17, <2>2, BookFacts DEF Equity
  <2>4. b = (y -- s) ++ t
    BY <1>8
  <2> HIDE DEF B, y
  <2>5. Equity(p) = Equity(Book)
    BY <1>2, <1>7, <2>1, <2>3, <2>4, CorrectedEquity DEF c
  <2>6. Total(Along(gainOf, p.acts)) = Zero
    <3>1. GainOf(a) = Zero
      BY <1>12 DEF GainOf
    <3>2. gainOf[a] = Zero
      BY <1>12, <3>1 DEF gainOf
    <3>3. <<>> \in Seq(Activities)
      OBVIOUS
    <3>4. Total(Along(gainOf, <<a>>)) = gainOf[a]
      BY <1>12, <3>3, Readings, LegSums
    <3> QED
      BY <1>15, <3>2, <3>4
  <2> QED
    BY <2>5, <2>6, BookFacts, AddZero DEF Accounted
<1> QED
  BY <1>1, <1>15, <1>16, <1>17, <1>18, <1>19, <1>20 DEF p

\* The correction of a sale: it may reopen the episode it had closed.
LEMMA CorrectSellPlan ==
  ASSUME TypeInv, NEW i \in DOMAIN ledger, ReadBack(i).type = "sell", validateCorrection(i),
         NEW q \in Rats, NEW x \in Rats, NEW f \in Rats, q \preceq HeldBeforeSale(ReadBack(i))
  PROVE  LET p == planCorrectSell(i, q, x, f) IN
         /\ PlanTyped(p) /\ Corrects(p, i) /\ ~p.inv /\ p.atCost = {} /\ p.ret = Zero
         /\ PositiveRows(p.pos) /\ (Costed(position) => Costed(p.pos))
         /\ \A j \in DOMAIN p.pos : j \in DOMAIN position /\ (j # ledger[i].ep => p.pos[j] = position[j])
         /\ ledger[i].ep \in DOMAIN p.pos
         /\ \/ p.open = OpenIds(p.pos)
            \/ position[ledger[i].ep].status # "open" /\ p.pos[ledger[i].ep].status = "open"
<1> DEFINE o == ReadBack(i)
           e == o.ep
           v == position[e]
           h == HeldBeforeSale(o)
           left == h -- q
           t == (q ** x) -- f
           a == SaleActivity(e, q, x, f, o.at, i)
           r == IF left = Zero THEN [v EXCEPT !.status = "closed"] ELSE [v EXCEPT !.status = "open", !.qty = left]
           c == cash ++ (a.net -- o.net)
           pos == PutRow(position, e, r)
           open == IF left = Zero THEN OpenIds(position) \ {e} ELSE OpenIds(position)
           p == planCorrectSell(i, q, x, f)
<1>1. /\ o \in Activities /\ o.type = "sell" /\ ledger[i].type = "sell" /\ o.qty = ledger[i].qty /\ o.at = ledger[i].at
      /\ o.fee \in Rats /\ o.gross \in Rats /\ o.qty \in Rats /\ o.net \in Rats /\ e = ledger[i].ep
      /\ o.at \in Numbers /\ i \in Numbers /\ (Store = "memory" => o = ledger[i])
  BY ReadBackFacts DEF Activities, Numbers
<1>2. e \in DOMAIN position /\ e \in 1..Len(position) /\ position \in Seq(Rows) /\ Len(position) \in Nat /\ cash \in Rats
      /\ e \in 1..(Len(position) + 1) /\ DOMAIN position = 1..Len(position)
  <2>1. ledger[i].type \notin LooseTypes
    BY <1>1 DEF LooseTypes, CashTypes
  <2>2. position \in Seq(Rows) /\ Len(position) \in Nat /\ cash \in Rats
    BY Setting DEF TypeInv
  <2>3. e \in DOMAIN position /\ e \in 1..Len(position) /\ e \in Nat
    BY <1>1, <2>1, ReadBackFacts
  <2> QED
    BY <2>2, <2>3
<1>3. p = [Book EXCEPT !.pos = pos, !.open = IF left = Zero THEN @ \ {e} ELSE @, !.cash = c, !.acts = <<a>>,
                       !.effect = SaleEffect(e, x, f)]
  BY DEF planCorrectSell
<1>4. v \in Rows /\ trusted.at <= ledger[i].at
  BY <1>2 DEF validateCorrection, TypeInv
<1> HIDE DEF p
<1>5. v.qty \in Rats /\ v.avg \in Rats /\ v.sym \in Symbols
  BY <1>4, ZeroIsRat, RowChanges
<1>6. h \in Rats /\ left \in Rats /\ (left # Zero => Positive(left))
  <2>1. h \in Rats
    BY <1>1, <1>5, RatClosed DEF HeldBeforeSale
  <2> HIDE DEF h
  <2>2. h -- q \in Rats
    BY <2>1, RatClosed
  <2>3. h -- q # Zero => Positive(h -- q)
    <3>1. q \preceq h
      BY DEF h, o
    <3>2. h = q => h -- q = Zero
      BY <2>1, AddZero
    <3> QED
      BY <2>1, <3>1, <3>2, SignsOfRats
  <2> QED
    BY <2>1, <2>2, <2>3
<1> HIDE DEF h, left
<1>7. /\ a \in Activities /\ a.type = "sell" /\ a.sym = v.sym /\ a.ep = e /\ a.at = o.at /\ a.created = Now
      /\ a.of = i /\ a.net = t /\ t \in Rats /\ a.gross = q ** x /\ a.fee = f /\ CashEffectOf(a) = t
  <2> DEFINE at == o.at
  <2>1. at \in Numbers /\ i \in Numbers
    BY <1>1
  <2> HIDE DEF at, e
  <2> DEFINE w == SaleActivity(e, q, x, f, at, i)
  <2>2. /\ w \in Activities /\ w.type = "sell" /\ w.sym = position[e].sym /\ w.ep = e /\ w.at = at /\ w.created = Now
        /\ w.of = i /\ w.net = (q ** x) -- f /\ w.net \in Rats /\ w.gross = q ** x /\ w.fee = f
        /\ CashEffectOf(w) = (q ** x) -- f
    BY <1>2, <2>1, SaleLeg
  <2> QED
    BY <2>2 DEF at, e
<1> HIDE DEF a
<1>8. c \in Rats /\ c = cash ++ (t -- o.net) /\ c = (cash -- o.net) ++ t
  <2>1. t -- o.net \in Rats
    BY <1>1, <1>7, RatClosed
  <2>2. cash ++ (t -- o.net) \in Rats
    BY <1>2, <2>1, RatClosed
  <2>3. cash ++ (t -- o.net) = (cash -- o.net) ++ t
    <3> DEFINE s == o.net
    <3>1. s \in Rats
      BY <1>1
    <3> HIDE DEF s
    <3>2. cash ++ (t -- s) = (cash -- s) ++ t
      BY <1>2, <1>7, <3>1, CorrectedSums
    <3> QED
      BY <3>2 DEF s
  <2> QED
    BY <1>7, <2>2, <2>3
<1> HIDE DEF c, t
<1>9. r \in Rows /\ r.avg = v.avg /\ (r.status = "open" => Positive(r.qty)) /\ (r.status = "open" <=> left # Zero)
  <2>1. CASE left = Zero
    BY <1>4, <2>1 DEF Rows
  <2>2. CASE left # Zero
    <3>1. r = [sym |-> v.sym, qty |-> left, avg |-> v.avg, status |-> "open", acquired |-> v.acquired]
      BY <1>4, <2>2 DEF Rows
    <3> QED
      BY <1>4, <1>6, <2>2, <3>1 DEF Rows
  <2> QED
    BY <2>1, <2>2
<1> HIDE DEF r
<1>10. /\ pos \in Seq(Rows) /\ DOMAIN pos = DOMAIN position \cup {e} /\ pos[e] = r
       /\ \A j \in DOMAIN position : j # e => pos[j] = position[j]
  <2> HIDE DEF e
  <2>1. pos = PutRow(position, e, r) /\ r \in Rows
    BY <1>9
  <2> HIDE DEF pos
  <2> DEFINE w == PutRow(position, e, r)
  <2>2. /\ w \in Seq(Rows) /\ DOMAIN w = DOMAIN position \cup {e} /\ w[e] = r
        /\ \A j \in DOMAIN position : j # e => w[j] = position[j]
    BY <1>2, <2>1, PutRowTyped
  <2> HIDE DEF w
  <2> QED
    BY <2>1, <2>2 DEF w
<1>11. PositiveRows(pos)
  <2> HIDE DEF e
  <2>1. PositiveRows(position)
    BY DEF TypeInv
  <2> QED
    BY <1>2, <1>9, <2>1, PutRowOpen
<1> HIDE DEF pos
<1>12. /\ p \in Plans /\ p.pos = pos /\ p.open = open /\ p.cash = c /\ p.acts = <<a>> /\ ~p.inv /\ p.atCost = {} /\ p.ret = Zero
  <2>1. <<a>> \in Seq(Activities)
    BY <1>7
  <2>2. SaleEffect(e, x, f) \in {Neutral, Return} /\ open \in SUBSET Nat
    BY <1>2 DEF SaleEffect, OpenIds
  <2> QED
    BY <1>3, <1>8, <1>10, <2>1, <2>2, BookFacts DEF Plans
<1>13. Corrects(p, i)
  <2>1. p.acts[1] = a
    BY <1>12
  <2>2. Store = "memory" => c = (cash -- CashEffectOf(ledger[i])) ++ CashEffectOf(a)
    <3> SUFFICES ASSUME Store = "memory"
                 PROVE  c = (cash -- CashEffectOf(ledger[i])) ++ CashEffectOf(a)
      OBVIOUS
    <3>1. o = ledger[i] /\ WellFormed(ledger[i], Len(position))
      BY <1>1 DEF TypeInv
    <3>2. o.net = o.gross -- o.fee
      BY <1>1, <3>1 DEF WellFormed
    <3>3. CashEffectOf(ledger[i]) = o.net
      BY <1>1, <3>1, <3>2 DEF CashEffectOf
    <3> QED
      BY <1>7, <1>8, <3>3
  <2> QED
    BY <1>1, <1>7, <1>12, <2>1, <2>2 DEF Corrects
<1>14. PlanTyped(p)
  <2>1. OpenIds(position) \ {e} \subseteq p.open
    BY <1>12
  <2>2. p.pos = PutRow(position, ledger[i].ep, r) /\ e = ledger[i].ep
    BY <1>1, <1>12 DEF pos
  <2>3. a.net = a.gross -- a.fee
    BY <1>7 DEF t
  <2>4. a.sym \in Symbols
    BY <1>5, <1>7
  <2> HIDE DEF v
  <2> QED
    BY <1>1, <1>4, <1>7, <1>9, <1>12, <2>1, <2>2, <2>3, <2>4, CorrectionTyped
<1>15. Costed(position) => Costed(p.pos)
  BY <1>2, <1>9, <1>10, <1>12 DEF Costed
<1>16. \A j \in DOMAIN p.pos : j \in DOMAIN position /\ (j # ledger[i].ep => p.pos[j] = position[j])
  BY <1>1, <1>2, <1>10, <1>12
<1>17. \/ p.open = OpenIds(p.pos)
       \/ position[e].status # "open" /\ p.pos[e].status = "open"
  <2>1. OpenIds(pos) = IF r.status = "open" THEN OpenIds(position) \cup {e} ELSE OpenIds(position) \ {e}
    BY <1>2, <1>10 DEF OpenIds
  <2>2. v.status = "open" <=> e \in OpenIds(position)
    BY <1>2 DEF OpenIds
  <2>3. CASE left = Zero
    BY <1>9, <1>12, <2>1, <2>3
  <2>4. CASE left # Zero /\ v.status = "open"
    <3>1. OpenIds(position) \cup {e} = OpenIds(position)
      BY <2>2, <2>4
    <3> QED
      BY <1>9, <1>12, <2>1, <2>4, <3>1
  <2>5. CASE left # Zero /\ v.status # "open"
    BY <1>9, <1>10, <1>12, <2>5
  <2> QED
    BY <2>3, <2>4, <2>5
<1>18. e = ledger[i].ep /\ e \in DOMAIN p.pos
  BY <1>1, <1>10, <1>12
<1> QED
  BY <1>11, <1>12, <1>13, <1>14, <1>15, <1>16, <1>17, <1>18 DEF p

-----------------------------------------------------------------------------
(* What a commit commits *)

\* A commit: the plan was admitted by the valuation and the store, and its
\* writes are what the step leaves.
Commits(p) ==
  /\ version <= MaxCommits /\ Writable(p)
  /\ position' = p.pos /\ cash' = p.cash /\ ledger' = ledger \o p.acts
  /\ version' = version + 1
  /\ autoFund' = autoFund /\ trusted' = trusted /\ price' = price /\ moves' = moves

\* A step that commits nothing.
Stay == UNCHANGED <<position, cash, ledger, version, trusted>>

\* A correction of a trade, with what its handler has checked.
Corrective(p) ==
  \E i \in DOMAIN ledger :
    /\ ledger[i].type \in {"buy", "sell"} /\ FindCorrectionForActivity(i) = {} /\ validateCorrection(i)
    /\ Corrects(p, i)

\* The kinds that reshape the book by hand and record no leg for it.
Reshaping == {"add", "resize", "delete", "replace"}
\* The kinds that correct a trade.
TradeCorrections == {"correct_buy", "correct_sell"}

\* What the plan of each kind is, as far as the invariants need it.
PlanFacts(kind, p) ==
  /\ PlanTyped(p)
  /\ p.atCost \subseteq {i \in OpenIds(position) : ~Quoted(position[i].sym)} \ p.open
  /\ kind \notin TradeCorrections => Kept(p)
  /\ kind \notin TradeCorrections \cup {"replace"} => Balanced(p)
  /\ kind \notin TradeCorrections \cup Reshaping => Accounted(p)
  /\ kind \in TradeCorrections => Corrective(p)
  /\ kind # "correct_buy" => PositiveRows(p.pos) /\ (Costed(position) => Costed(p.pos))
  /\ kind = "correct_buy" => p.open = OpenIds(position) /\ p.open = OpenIds(p.pos)

\* applyLocked commits its plan.
LEMMA Committed ==
  ASSUME NEW kind, NEW p, applyLocked(kind, p)
  PROVE  Commits(p) /\ kind \in Kinds
BY DEF applyLocked, Commits, RecordActivity

\* What is needed of a plan that keeps the form of a book.
LEMMA KeptFacts ==
  ASSUME TypeInv, NEW p, Kept(p), NEW kind
  PROVE  /\ PlanTyped(p) /\ PositiveRows(p.pos) /\ (Costed(position) => Costed(p.pos))
         /\ p.open = OpenIds(p.pos)
BY DEF Kept, BookTyped

\* An ordinary plan is what its kind asks for.
LEMMA OrdinaryFacts ==
  ASSUME TypeInv, NEW p, Kept(p), NEW kind, kind \notin TradeCorrections,
         kind # "replace" => Balanced(p), kind \notin Reshaping => Accounted(p), p.atCost = {}
  PROVE  PlanFacts(kind, p)
<1>1. /\ PlanTyped(p) /\ PositiveRows(p.pos) /\ (Costed(position) => Costed(p.pos))
  BY KeptFacts
<1>2. kind # "correct_buy" /\ kind # "correct_sell"
  BY DEF TradeCorrections
<1> QED
  BY <1>1, <1>2 DEF PlanFacts, TradeCorrections

\* So is a whole one.
LEMMA WholeFacts ==
  ASSUME TypeInv, NEW p, Whole(p), NEW kind, kind \notin TradeCorrections, p.atCost = {}
  PROVE  PlanFacts(kind, p)
BY OrdinaryFacts DEF Whole

-----------------------------------------------------------------------------
(* The order of events in a plan *)

\* Where a row can be put.
Spots(p) == 1..(Len(p) + 1)

\* What a row that is put changes, and what not.
LEMMA PutAt ==
  ASSUME NEW p \in Seq(Rows), NEW i \in Spots(p), NEW r \in Rows
  PROVE  LET w == PutRow(p, i, r) IN
         /\ w \in Seq(Rows) /\ w[i] = r /\ DOMAIN w = DOMAIN p \cup {i} /\ \A j \in DOMAIN p : j # i => w[j] = p[j]
         /\ i \in DOMAIN w /\ Len(w) \in Nat /\ Len(p) <= Len(w)
<1> DEFINE x == PutRow(p, i, r)
<1>1. /\ x \in Seq(Rows) /\ Len(p) <= Len(x) /\ x[i] = r /\ DOMAIN x = DOMAIN p \cup {i}
      /\ \A j \in DOMAIN p : j # i => x[j] = p[j]
  BY PutRowTyped DEF Spots
<1> HIDE DEF x
<1>2. i \in DOMAIN x /\ Len(x) \in Nat
  BY <1>1
<1> QED
  BY <1>1, <1>2 DEF x

\* A row that is not closed closes nothing.
LEMMA PutStatuses ==
  ASSUME NEW p \in Seq(Rows), NEW i \in Spots(p), NEW r \in Rows, r.status # "closed"
  PROVE  LET w == PutRow(p, i, r) IN
         /\ \A j \in DOMAIN w : w[j].status = "closed" => j \in DOMAIN p /\ p[j].status = "closed"
         /\ (i \in OpenIds(p) => r.status = "open") => OpenIds(p) \subseteq OpenIds(w)
         /\ r.status = "open" => i \in OpenIds(w)
<1> DEFINE w == PutRow(p, i, r)
<1>1. /\ w \in Seq(Rows) /\ w[i] = r /\ DOMAIN w = DOMAIN p \cup {i} /\ \A j \in DOMAIN p : j # i => w[j] = p[j]
      /\ i \in DOMAIN w /\ Len(w) \in Nat /\ Len(p) <= Len(w)
  BY PutAt
<1> HIDE DEF w
<1>2. \A j \in DOMAIN w : w[j].status = "closed" => j \in DOMAIN p /\ p[j].status = "closed"
  BY <1>1
<1>3. (i \in OpenIds(p) => r.status = "open") => OpenIds(p) \subseteq OpenIds(w)
  BY <1>1 DEF OpenIds
<1>4. r.status = "open" => i \in OpenIds(w)
  BY <1>1 DEF OpenIds
<1> QED
  BY <1>2, <1>3, <1>4 DEF w

\* A plan that closes nothing and sells nothing; what it buys is open.
Buying(p) ==
  /\ \A j \in DOMAIN p.pos : p.pos[j].status = "closed" => j \in DOMAIN position /\ position[j].status = "closed"
  /\ \A k \in DOMAIN p.acts :
       p.acts[k].type # "sell" /\ (p.acts[k].type = "buy" => p.acts[k].ep \in OpenIds(p.pos))

\* A plan that buys nothing; what it closes it records now.
Closing(p) ==
  /\ \A j \in DOMAIN p.pos : p.pos[j].status = "closed" =>
       \/ j \in DOMAIN position /\ position[j].status = "closed"
       \/ \E k \in DOMAIN p.acts : p.acts[k].ep = j /\ p.acts[k].at = Now
  /\ \A k \in DOMAIN p.acts : p.acts[k].type # "buy"

\* Putting a row that is not closed, with legs that sell nothing, still only buys.
LEMMA PutBuying ==
  ASSUME NEW b, b.pos \in Seq(Rows), b.acts \in Seq(Activities), Buying(b),
         NEW i \in 1..(Len(b.pos) + 1), NEW r \in Rows, r.status # "closed",
         i \in OpenIds(b.pos) => r.status = "open",
         NEW legs \in Seq(Activities),
         \A k \in DOMAIN legs : legs[k].type # "sell" /\ (legs[k].type = "buy" => legs[k].ep = i /\ r.status = "open"),
         NEW p, p.pos = PutRow(b.pos, i, r), p.acts = b.acts \o legs
  PROVE  Buying(p)
<1>0. PICK q \in Seq(Rows) : q = b.pos
  OBVIOUS
<1>a. PICK w : w = PutRow(q, i, r)
  OBVIOUS
<1>1. /\ \A j \in DOMAIN w : w[j].status = "closed" => j \in DOMAIN q /\ q[j].status = "closed"
      /\ (i \in OpenIds(q) => r.status = "open") => OpenIds(q) \subseteq OpenIds(w)
      /\ r.status = "open" => i \in OpenIds(w)
  <2>1. i \in Spots(q)
    BY <1>0 DEF Spots
  <2> QED
    BY <1>a, <2>1, PutStatuses
<1>2. \A j \in DOMAIN w : w[j].status = "closed" => j \in DOMAIN position /\ position[j].status = "closed"
  BY <1>0, <1>1 DEF Buying
<1>3. OpenIds(b.pos) \subseteq OpenIds(w) /\ (r.status = "open" => i \in OpenIds(w))
  BY <1>0, <1>1
<1>4. ASSUME NEW k \in DOMAIN (b.acts \o legs)
      PROVE  LET a == (b.acts \o legs)[k] IN a.type # "sell" /\ (a.type = "buy" => a.ep \in OpenIds(w))
  <2>1. CASE k \in DOMAIN b.acts
    <3>1. (b.acts \o legs)[k] = b.acts[k]
      BY <2>1
    <3> QED
      BY <1>3, <2>1, <3>1 DEF Buying
  <2>2. CASE k \notin DOMAIN b.acts
    <3>1. k - Len(b.acts) \in DOMAIN legs /\ (b.acts \o legs)[k] = legs[k - Len(b.acts)]
      BY <2>2
    <3> QED
      BY <1>3, <3>1
  <2> QED
    BY <2>1, <2>2
<1> QED
  BY <1>0, <1>a, <1>2, <1>4 DEF Buying

\* So does recording legs that are no trades.
LEMMA RecordBuying ==
  ASSUME NEW b, b.acts \in Seq(Activities), Buying(b), NEW legs \in Seq(Activities),
         \A k \in DOMAIN legs : legs[k].type \notin {"sell", "buy"},
         NEW p, p.pos = b.pos, p.acts = b.acts \o legs
  PROVE  Buying(p)
<1>1. ASSUME NEW k \in DOMAIN (b.acts \o legs)
      PROVE  LET a == (b.acts \o legs)[k] IN a.type # "sell" /\ (a.type = "buy" => a.ep \in OpenIds(b.pos))
  <2>1. CASE k \in DOMAIN b.acts
    <3>1. (b.acts \o legs)[k] = b.acts[k]
      BY <2>1
    <3> QED
      BY <2>1, <3>1 DEF Buying
  <2>2. CASE k \notin DOMAIN b.acts
    <3>1. k - Len(b.acts) \in DOMAIN legs /\ (b.acts \o legs)[k] = legs[k - Len(b.acts)]
      BY <2>2
    <3> QED
      BY <3>1
  <2> QED
    BY <2>1, <2>2
<1> QED
  BY <1>1 DEF Buying

\* And doing nothing.
LEMMA BookBuying ==
  ASSUME TypeInv
  PROVE  Buying(Book) /\ Book.pos \in Seq(Rows) /\ Book.acts \in Seq(Activities)
<1>1. Book.pos = position /\ Book.acts = <<>> /\ position \in Seq(Rows)
  BY BookFacts DEF TypeInv
<1> QED
  BY <1>1 DEF Buying

\* A component of a distribution buys at most, and only what it leaves open.
LEMMA ComponentBuying ==
  ASSUME TypeInv, NEW b, Whole(b), Buying(b), NEW c \in Component, ComponentApplies(b, c),
         NEW at \in Dates, NEW boxed \in BOOLEAN
  PROVE  Buying(applyComponent(b, c, at, boxed))
<1> DEFINE p == applyComponent(b, c, at, boxed)
           held == findOpenBySymbol(b, c.sym)
<1>0. /\ c.sym \in Symbols /\ c.sub \in {"cash", "reinvest", "roc", "stock"}
      /\ c.sub # "stock" => c.amount \in Amounts
      /\ c.sub = "stock" => c.ratio \in Ratios
  BY ComponentFacts
<1>1. /\ b \in Plans /\ b.pos \in Seq(Rows) /\ b.open = OpenIds(b.pos) /\ PositiveRows(b.pos) /\ Kept(b)
      /\ b.acts \in Seq(Activities) /\ Len(b.pos) \in Nat
  BY BookParts
<1>2. Whole(p)
  BY AnyComponent
<1>3. p.acts \in Seq(Activities) /\ p.pos \in Seq(Rows) /\ p.open = OpenIds(p.pos)
  BY <1>2, BookParts
<1>4. CASE c.sub = "cash"
  <2> DEFINE ep == IF held = {} THEN 0 ELSE The(held)
             a == [Activity("cash_dividend", c.sym, ep) EXCEPT !.gross = Rat(c.amount), !.at = at]
  <2>1. p = creditIncome(b, c, at)
    BY <1>4 DEF applyComponent
  <2>2. p = [b EXCEPT !.cash = @ ++ Rat(c.amount), !.acts = Append(@, a)]
    BY <2>1 DEF creditIncome
  <2>3. a.type = "cash_dividend"
    BY DEF Activity
  <2> HIDE DEF p, a
  <2>4. p.pos = b.pos /\ p.acts = Append(b.acts, a)
    BY <1>1, <2>2 DEF Plans
  <2>5. a \in Activities /\ p.acts = b.acts \o <<a>>
    <3>1. Append(b.acts, a)[Len(b.acts) + 1] = a /\ Len(b.acts) + 1 \in DOMAIN Append(b.acts, a)
      BY <1>1
    <3>2. a \in Activities
      BY <1>3, <2>4, <3>1
    <3>3. Append(b.acts, a) = b.acts \o <<a>>
      BY <1>1, <3>2
    <3> QED
      BY <2>4, <3>2, <3>3
  <2>6. \A k \in DOMAIN <<a>> : <<a>>[k].type \notin {"sell", "buy"}
    BY <2>3
  <2>7. <<a>> \in Seq(Activities)
    BY <2>5
  <2> QED
    BY <1>1, <2>4, <2>5, <2>6, <2>7, RecordBuying DEF p
<1>5. CASE c.sub = "reinvest"
  <2> DEFINE net == Rat(c.amount)
             q == net // Rat(price[c.sym])
             i == IF held = {} THEN Len(b.pos) + 1 ELSE The(held)
             r == IF held = {} THEN Row(c.sym, q, Rat(price[c.sym]))
                  ELSE [b.pos[i] EXCEPT !.qty = @ ++ q, !.avg = (Basis(b.pos[i]) ++ net) // (b.pos[i].qty ++ q)]
             x == [Activity("reinvested_dividend", c.sym, i) EXCEPT !.gross = net, !.at = at]
             y == [Activity("buy", c.sym, i) EXCEPT !.qty = q, !.gross = net]
  <2>1. p = planReinvestedDividend(b, c, at)
    BY <1>5 DEF applyComponent
  <2>2. p = [b EXCEPT !.pos = PutRow(b.pos, i, r), !.open = @ \cup {i}, !.acts = @ \o <<x, y>>]
    BY <2>1 DEF planReinvestedDividend
  <2>3. x.type = "reinvested_dividend" /\ y.type = "buy" /\ y.ep = i
    BY DEF Activity
  <2>4. i \in 1..(Len(b.pos) + 1)
    <3>1. CASE held = {}
      BY <1>1, <3>1
    <3>2. CASE held # {}
      <4>1. The(held) \in 1..Len(b.pos)
        BY <1>1, <3>2, HeldFacts
      <4> QED
        BY <1>1, <3>2, <4>1
    <3> QED
      BY <3>1, <3>2
  <2>5. r.status = "open"
    <3>1. CASE held = {}
      BY <3>1 DEF Row
    <3>2. CASE held # {}
      <4>1. b.pos[i] \in Rows /\ b.pos[i].status = "open"
        BY <1>1, <3>2, HeldFacts
      <4> QED
        BY <3>2, <4>1 DEF Rows
    <3> QED
      BY <3>1, <3>2
  <2> HIDE DEF p, x, y, r, i
  <2>6. p.pos = PutRow(b.pos, i, r) /\ p.acts = b.acts \o <<x, y>>
    BY <1>1, <2>2 DEF Plans
  <2>7. r \in Rows
    <3>1. CASE i > Len(b.pos)
      <4>1. i = Len(b.pos) + 1
        BY <1>1, <2>4, <3>1
      <4>2. p.pos[i] = r /\ i \in DOMAIN p.pos
        BY <1>1, <2>6, <3>1, <4>1 DEF PutRow
      <4> QED
        BY <1>3, <4>2
    <3>2. CASE ~(i > Len(b.pos))
      <4>1. p.pos[i] = r /\ i \in DOMAIN p.pos
        BY <1>1, <2>4, <2>6, <3>2 DEF PutRow, ReplaceAt
      <4> QED
        BY <1>3, <4>1
    <3> QED
      BY <3>1, <3>2
  <2>8. <<x, y>> \in Seq(Activities)
    <3> DEFINE m == Len(b.acts)
    <3>1. m \in Nat /\ <<x, y>> \in Seq({x, y}) /\ Len(<<x, y>>) = 2
      BY <1>1
    <3>2. /\ (b.acts \o <<x, y>>)[m + 1] = x /\ (b.acts \o <<x, y>>)[m + 2] = y
          /\ m + 1 \in DOMAIN (b.acts \o <<x, y>>) /\ m + 2 \in DOMAIN (b.acts \o <<x, y>>)
      BY <1>1, <3>1
    <3>3. x \in Activities /\ y \in Activities
      BY <1>3, <2>6, <3>2
    <3> QED
      BY <3>3
  <2>9. \A k \in DOMAIN <<x, y>> : <<x, y>>[k].type # "sell" /\ (<<x, y>>[k].type = "buy" => <<x, y>>[k].ep = i /\ r.status = "open")
    BY <2>3, <2>5
  <2>10. r.status # "closed"
    BY <2>5
  <2> DEFINE legs == <<x, y>>
  <2> HIDE DEF legs
  <2>11. legs \in Seq(Activities) /\ p.acts = b.acts \o legs
         /\ \A k \in DOMAIN legs : legs[k].type # "sell" /\ (legs[k].type = "buy" => legs[k].ep = i /\ r.status = "open")
    BY <2>6, <2>8, <2>9 DEF legs
  <2> QED
    BY <1>1, <2>4, <2>5, <2>6, <2>7, <2>10, <2>11, PutBuying DEF p
<1>6. ASSUME c.sub \in {"roc", "stock"}
      PROVE  Buying(p)
  <2>1. PICK i, r, a :
          /\ i = The(held) /\ held # {} /\ r.status = b.pos[i].status /\ r \in Rows
          /\ a.type \in {"return_of_capital", "stock_dividend"}
          /\ p.pos = PutRow(b.pos, i, r) /\ p.acts = Append(b.acts, a)
    <3> DEFINE i == The(held)  v == b.pos[i]
    <3>1. held # {}
      BY <1>6 DEF ComponentApplies
    <3>2. v \in Rows /\ i \in 1..Len(b.pos)
      BY <1>1, <3>1, HeldFacts
    <3>3. CASE c.sub = "roc"
      <4> DEFINE cut == BasisReduction(Rat(c.amount), v)
                 z == (Basis(v) -- cut) // v.qty
                 r == [v EXCEPT !.avg = z]
                 a == [Activity("return_of_capital", c.sym, i) EXCEPT !.gross = Rat(c.amount), !.basis = cut, !.at = at]
      <4>1. p = [b EXCEPT !.pos = PutRow(b.pos, i, r), !.cash = @ ++ Rat(c.amount), !.acts = Append(@, a)]
        BY <3>3 DEF applyComponent, planReturnOfCapital
      <4>2. a.type = "return_of_capital"
        BY DEF Activity
      <4>3. r.status = v.status
        BY <3>2 DEF Rows
      <4> HIDE DEF p, a, r
      <4>4. p.pos = PutRow(b.pos, i, r) /\ p.acts = Append(b.acts, a)
        BY <1>1, <4>1 DEF Plans
      <4>5. r \in Rows
        <5>1. p.pos[i] = r /\ i \in DOMAIN p.pos
          BY <1>1, <3>2, <4>4 DEF PutRow, ReplaceAt
        <5> QED
          BY <1>3, <5>1
      <4> QED
        BY <3>1, <4>2, <4>3, <4>4, <4>5
    <3>4. CASE c.sub = "stock"
      <4> DEFINE r == [v EXCEPT !.qty = @ ** c.ratio, !.avg = @ // c.ratio]
                 a == [Activity("stock_dividend", c.sym, i) EXCEPT !.ratio = c.ratio, !.boxed = boxed, !.at = at]
      <4>1. p = [b EXCEPT !.pos = PutRow(b.pos, i, r), !.acts = Append(@, a)]
        BY <3>4 DEF applyComponent, planStockDividend
      <4>2. a.type = "stock_dividend"
        BY DEF Activity
      <4>3. r.status = v.status
        BY <3>2 DEF Rows
      <4> HIDE DEF p, a, r
      <4>4. p.pos = PutRow(b.pos, i, r) /\ p.acts = Append(b.acts, a)
        BY <1>1, <4>1 DEF Plans
      <4>5. r \in Rows
        <5>1. p.pos[i] = r /\ i \in DOMAIN p.pos
          BY <1>1, <3>2, <4>4 DEF PutRow, ReplaceAt
        <5> QED
          BY <1>3, <5>1
      <4> QED
        BY <3>1, <4>2, <4>3, <4>4, <4>5
    <3> QED
      BY <1>6, <3>3, <3>4
  <2>2. i \in 1..Len(b.pos) /\ b.pos[i].status = "open"
    BY <1>1, <2>1, HeldFacts
  <2> HIDE DEF p
  <2>3. a \in Activities /\ p.acts = b.acts \o <<a>>
    <3>1. Append(b.acts, a)[Len(b.acts) + 1] = a /\ Len(b.acts) + 1 \in DOMAIN Append(b.acts, a)
      BY <1>1
    <3>2. a \in Activities
      BY <1>3, <2>1, <3>1
    <3> QED
      BY <1>1, <2>1, <3>2
  <2> DEFINE legs == <<a>>
  <2>4. legs \in Seq(Activities) /\ \A k \in DOMAIN legs : legs[k].type # "sell" /\ legs[k].type # "buy"
    BY <2>1, <2>3
  <2> HIDE DEF legs
  <2>5. i \in 1..(Len(b.pos) + 1) /\ r.status = "open" /\ r.status # "closed" /\ p.acts = b.acts \o legs
    BY <1>1, <2>1, <2>2, <2>3 DEF legs
  <2> QED
    BY <1>1, <2>1, <2>4, <2>5, PutBuying DEF p
<1> QED
  BY <1>0, <1>4, <1>5, <1>6

\* What the ranked step asks of a plan: one that claims its value cannot change
\* leaves a holding where there was one, and one that bears its own return too.
Judging(p) ==
  /\ p.inv => p.atCost = {} /\ p.open # {} /\ OpenIds(position) # {}
  /\ p.ret # Zero => p.open # {}

\* A leg of two parts of a plan is a leg of one of them.
LEMMA ConcatElements ==
  ASSUME NEW l \in Seq(Activities), NEW m \in Seq(Activities), NEW k \in DOMAIN (l \o m)
  PROVE  \/ \E j \in DOMAIN l : (l \o m)[k] = l[j]
         \/ \E j \in DOMAIN m : (l \o m)[k] = m[j]
<1>1. CASE k \in DOMAIN l
  <2>1. (l \o m)[k] = l[k]
    BY <1>1
  <2> QED
    BY <1>1, <2>1
<1>2. CASE k \notin DOMAIN l
  <2>1. k - Len(l) \in DOMAIN m /\ (l \o m)[k] = m[k - Len(l)]
    BY <1>2
  <2> QED
    BY <2>1
<1> QED
  BY <1>1, <1>2

\* Putting one row closes nothing but what a leg records now.
LEMMA PutClosing ==
  ASSUME TypeInv, NEW i \in Spots(position), NEW r \in Rows, NEW p, p.pos = PutRow(position, i, r),
         \A k \in DOMAIN p.acts : p.acts[k].type # "buy",
         r.status = "closed" => \E k \in DOMAIN p.acts : p.acts[k].ep = i /\ p.acts[k].at = Now
  PROVE  Closing(p)
<1> DEFINE w == PutRow(position, i, r)
<1>1. position \in Seq(Rows)
  BY DEF TypeInv
<1>2. /\ w \in Seq(Rows) /\ w[i] = r /\ DOMAIN w = DOMAIN position \cup {i} /\ \A j \in DOMAIN position : j # i => w[j] = position[j]
      /\ i \in DOMAIN w /\ Len(w) \in Nat /\ Len(position) <= Len(w)
  BY <1>1, PutAt
<1>3. w = p.pos
  OBVIOUS
<1> HIDE DEF w
<1>4. ASSUME NEW j \in DOMAIN w, w[j].status = "closed"
      PROVE  \/ j \in DOMAIN position /\ position[j].status = "closed"
             \/ \E k \in DOMAIN p.acts : p.acts[k].ep = j /\ p.acts[k].at = Now
  <2>1. CASE j = i
    BY <1>2, <1>4, <2>1
  <2>2. CASE j # i
    BY <1>2, <1>4, <2>2
  <2> QED
    BY <2>1, <2>2
<1> QED
  BY <1>3, <1>4 DEF Closing

\* Recording alone closes nothing.
LEMMA RecordClosing ==
  ASSUME NEW p, p.pos = position, \A k \in DOMAIN p.acts : p.acts[k].type # "buy"
  PROVE  Closing(p)
BY DEF Closing

\* Deposits and withdrawals close nothing.
LEMMA CashFlowOrder ==
  ASSUME TypeInv, NEW type \in {"deposit", "withdrawal"}, NEW amount, NEW of
  PROVE  Closing(planCashFlow(type, amount, of)) /\ Judging(planCashFlow(type, amount, of))
<1> DEFINE p == planCashFlow(type, amount, of)
           a == CashActivity(type, amount, of)
<1>1. p = [Book EXCEPT !.cash = p.cash, !.acts = <<a>>]
  BY DEF planCashFlow, Book
<1>2. a.type = type
  BY DEF CashActivity, Activity
<1> HIDE DEF p, a
<1>3. p.pos = position /\ p.acts = <<a>> /\ p.ret = Zero /\ p.inv = FALSE
  BY <1>1, BookFacts DEF Book
<1>4. \A k \in DOMAIN p.acts : p.acts[k].type # "buy"
  BY <1>2, <1>3
<1> QED
  BY <1>3, <1>4, RecordClosing DEF Judging, p

\* Fees close nothing.
LEMMA FeeOrder ==
  ASSUME TypeInv, NEW amount
  PROVE  Closing(planFee(amount)) /\ Judging(planFee(amount))
<1> DEFINE p == planFee(amount)
           a == [Activity("management_fee", NoSymbol, 0) EXCEPT !.gross = amount]
<1>1. p = [Book EXCEPT !.cash = cash -- amount, !.effect = Return, !.acts = <<a>>]
  BY DEF planFee
<1>2. a.type = "management_fee"
  BY DEF Activity
<1> HIDE DEF p, a
<1>3. p.pos = position /\ p.acts = <<a>> /\ p.ret = Zero /\ p.inv = FALSE
  BY <1>1, BookFacts DEF Book
<1>4. \A k \in DOMAIN p.acts : p.acts[k].type # "buy"
  BY <1>2, <1>3
<1> QED
  BY <1>3, <1>4, RecordClosing DEF Judging, p

\* A purchase buys what it leaves open.
LEMMA BuyOrder ==
  ASSUME TypeInv, NEW s \in Symbols, NEW q \in Rats, NEW x \in Rats, NEW f \in Rats,
         Positive(q), Positive(x), Zero \preceq f
  PROVE  Buying(planBuy(s, q, x, f)) /\ Judging(planBuy(s, q, x, f))
<1> DEFINE gross == q ** x
           total == gross ++ f
           funding == MaxRat(total -- cash, Zero)
           i == Taken(Book, s, q, total).id
           r == Taken(Book, s, q, total).row
           buy == [Activity("buy", s, i) EXCEPT !.qty = q, !.gross = gross, !.fee = f, !.net = total]
           fund == CashActivity("deposit", funding, 0)
           fundLeg == IF Positive(funding) THEN <<fund>> ELSE <<>>
           fee == [Activity("buy_fee", s, i) EXCEPT !.gross = f]
           feeLeg == IF Positive(f) THEN <<fee>> ELSE <<>>
           legs == (<<buy>> \o fundLeg) \o feeLeg
           p == planBuy(s, q, x, f)
<1>1. /\ p = [Book EXCEPT !.pos = PutRow(position, i, r), !.open = @ \cup {i}, !.cash = (cash ++ funding) -- total,
                          !.acts = legs, !.ret = Zero -- f]
  BY BookFacts DEF planBuy, Taken, FeeLeg
<1>2. total \in Rats /\ Zero \preceq total
  <2>1. gross \in Rats /\ Positive(gross)
    BY RatClosed, SignsOfRats
  <2> HIDE DEF gross
  <2>2. total \in Rats /\ Positive(total)
    BY <2>1, RatClosed, SignsOfRats
  <2> QED
    BY <2>2, SignsOfRats
<1>3. Whole(p)
  BY BuyPlan
<1>4. buy.type = "buy" /\ buy.ep = i /\ fund.type = "deposit" /\ fee.type = "buy_fee"
  BY DEF Activity, CashActivity
<1> HIDE DEF p, buy, fund, fee, total
<1>5. /\ i \in 1..(Len(position) + 1) /\ r \in Rows /\ r.status = "open"
  BY <1>2, BookFacts, TakenFacts
<1> HIDE DEF i, r
<1>6. p.pos = PutRow(position, i, r) /\ p.acts = legs /\ p.open = OpenIds(position) \cup {i} /\ p.inv = FALSE
  BY <1>1, BookFacts DEF Book
<1>7. \A k \in DOMAIN legs : legs[k].type # "sell" /\ (legs[k].type = "buy" => legs[k].ep = i /\ r.status = "open")
  <2>1. <<buy>> \in Seq({buy, fund, fee}) /\ fundLeg \in Seq({buy, fund, fee}) /\ feeLeg \in Seq({buy, fund, fee})
    OBVIOUS
  <2> HIDE DEF fundLeg, feeLeg
  <2>2. <<buy>> \o fundLeg \in Seq({buy, fund, fee})
    BY <2>1
  <2>3. legs \in Seq({buy, fund, fee})
    BY <2>1, <2>2
  <2> HIDE DEF legs
  <2>4. \A k \in DOMAIN legs : legs[k] \in {buy, fund, fee}
    BY <2>3
  <2> QED
    BY <1>4, <1>5, <2>4
<1>8. legs \in Seq(Activities)
  BY <1>3, <1>6, BookParts
<1> HIDE DEF legs
<1>9. Buying(p)
  <2>1. Buying(Book) /\ Book.pos = position /\ Book.acts = <<>> /\ position \in Seq(Rows)
    BY BookBuying, BookFacts
  <2>2. p.acts = Book.acts \o legs
    BY <1>6, <1>8, <2>1
  <2>3. Book.acts \in Seq(Activities) /\ r.status # "closed" /\ i \in 1..(Len(Book.pos) + 1) /\ Book.pos \in Seq(Rows)
        /\ p.pos = PutRow(Book.pos, i, r)
    BY <1>5, <1>6, <2>1
  <2> QED
    BY <1>5, <1>7, <1>8, <2>1, <2>2, <2>3, PutBuying
<1>10. Judging(p)
  BY <1>6 DEF Judging
<1> QED
  BY <1>9, <1>10 DEF p

\* A sale records what it closes.
LEMMA SellOrder ==
  ASSUME TypeInv, NEW i \in OpenIds(position), NEW q \in Rats, NEW x \in Rats, NEW f \in Rats, q \preceq position[i].qty
  PROVE  Closing(planSell(i, q, x, f)) /\ Judging(planSell(i, q, x, f))
<1> DEFINE v == position[i]
           left == v.qty -- q
           sale == SaleActivity(i, q, x, f, Now, 0)
           r == IF left = Zero THEN [v EXCEPT !.status = "closed"] ELSE [v EXCEPT !.qty = left]
           fee == [Activity("sell_fee", v.sym, i) EXCEPT !.gross = f]
           feeLeg == IF Positive(f) THEN <<fee>> ELSE <<>>
           legs == <<sale>> \o feeLeg
           c == cash ++ sale.net
           p == planSell(i, q, x, f)
<1>1. p = [Book EXCEPT !.pos = PutRow(position, i, r), !.open = IF left = Zero THEN @ \ {i} ELSE @, !.cash = c,
                       !.acts = legs, !.effect = SaleEffect(i, x, f)]
  BY DEF planSell, FeeLeg
<1>2. sale.type = "sell" /\ sale.ep = i /\ sale.at = Now /\ fee.type = "sell_fee"
  BY DEF SaleActivity, Activity
<1>3. i \in Spots(position) /\ v \in Rows
  <2>1. i \in 1..Len(position) /\ v \in Rows /\ position \in Seq(Rows)
    BY Setting DEF TypeInv
  <2> HIDE DEF v
  <2> QED
    BY <2>1 DEF Spots
<1>4. r \in Rows
  <2>1. v.qty \in Rats
    BY <1>3, ZeroIsRat, RowChanges
  <2>2. left \in Rats
    BY <2>1, RatClosed
  <2> HIDE DEF left, v
  <2> QED
    BY <1>3, <2>2, RowChanges
<1> HIDE DEF p, sale, fee, c
<1>5. p.pos = PutRow(position, i, r) /\ p.acts = legs /\ p.inv = FALSE /\ p.ret = Zero
  BY <1>1, BookFacts DEF Book
<1>6. \A k \in DOMAIN legs : legs[k].type # "buy"
  <2> DEFINE S == {sale, fee}
  <2>a. sale \in S /\ fee \in S
    OBVIOUS
  <2> HIDE DEF S
  <2>b. <<sale>> \in Seq(S) /\ <<fee>> \in Seq(S) /\ <<>> \in Seq(S)
    BY <2>a
  <2>1. <<sale>> \in Seq(S) /\ feeLeg \in Seq(S)
    BY <2>b
  <2> HIDE DEF feeLeg
  <2>2. legs \in Seq(S)
    BY <2>1
  <2> HIDE DEF legs
  <2>3. \A k \in DOMAIN legs : legs[k] \in {sale, fee}
    BY <2>2 DEF S
  <2> QED
    BY <1>2, <2>3
<1>7. 1 \in DOMAIN legs /\ legs[1] = sale
  OBVIOUS
<1> HIDE DEF legs, r
<1>8. Closing(p)
  BY <1>2, <1>3, <1>4, <1>5, <1>6, <1>7, PutClosing
<1> QED
  BY <1>5, <1>8 DEF Judging, p

\* A plan that changes one open row and buys nothing.
LEMMA OneRowOrder ==
  ASSUME TypeInv, NEW i \in OpenIds(position), NEW r, NEW p, Kept(p), p.pos = PutRow(position, i, r),
         \A k \in DOMAIN p.acts : p.acts[k].type # "buy",
         r.status = "closed" => \E k \in DOMAIN p.acts : p.acts[k].ep = i /\ p.acts[k].at = Now
  PROVE  Closing(p)
<1>1. position \in Seq(Rows) /\ i \in 1..Len(position) /\ Len(position) \in Nat /\ DOMAIN position = 1..Len(position)
  BY Setting DEF TypeInv
<1>2. p.pos \in Seq(Rows)
  BY DEF Kept, BookTyped, PlanTyped, Plans
<1>3. r \in Rows
  <2>1. p.pos[i] = r /\ i \in DOMAIN p.pos
    BY <1>1 DEF PutRow, ReplaceAt
  <2> QED
    BY <1>2, <2>1
<1>4. i \in Spots(position)
  BY <1>1 DEF Spots
<1> QED
  BY <1>3, <1>4, PutClosing

\* A write-off records what it closes.
LEMMA WriteOffOrder ==
  ASSUME TypeInv, NEW i \in OpenIds(position), ~Quoted(position[i].sym)
  PROVE  Closing(planWriteOff(i)) /\ Judging(planWriteOff(i))
<1> DEFINE p == planWriteOff(i)  v == position[i]
           r == [v EXCEPT !.status = "closed"]
           a == [Activity("write_off", v.sym, i) EXCEPT !.qty = v.qty, !.basis = Basis(v), !.realized = Zero -- Basis(v)]
<1>1. p = [Book EXCEPT !.pos = PutRow(position, i, r), !.open = @ \ {i}, !.atCost = {i}, !.effect = Return, !.acts = <<a>>]
  BY DEF planWriteOff
<1>2. a.type = "write_off" /\ a.ep = i /\ a.at = Now
  BY DEF Activity
<1>3. Kept(p)
  BY WriteOffPlan DEF Whole
<1> HIDE DEF p, a, r
<1>4. p.pos = PutRow(position, i, r) /\ p.acts = <<a>> /\ p.ret = Zero /\ p.inv = FALSE
  BY <1>1, BookFacts DEF Book
<1>5. /\ \A k \in DOMAIN p.acts : p.acts[k].type # "buy"
      /\ \E k \in DOMAIN p.acts : p.acts[k].ep = i /\ p.acts[k].at = Now
  <2>1. DOMAIN p.acts = {1} /\ p.acts[1] = a
    BY <1>4
  <2> QED
    BY <1>2, <2>1
<1> QED
  BY <1>3, <1>4, <1>5, OneRowOrder DEF Judging, p

\* A split closes nothing.
LEMMA SplitOrder ==
  ASSUME TypeInv, NEW i \in OpenIds(position), NEW ratio \in Ratios, NEW at \in Dates
  PROVE  Closing(planSplit(i, ratio, at)) /\ Judging(planSplit(i, ratio, at))
<1> DEFINE p == planSplit(i, ratio, at)  v == position[i]
           r == [v EXCEPT !.qty = @ ** ratio, !.avg = @ // ratio]
           a == [Activity("split", v.sym, i) EXCEPT !.qty = v.qty ** ratio, !.ratio = ratio, !.at = at]
<1>1. p = [Book EXCEPT !.pos = PutRow(position, i, r), !.acts = <<a>>, !.inv = TRUE]
  BY DEF planSplit
<1>2. a.type = "split" /\ r.status = "open"
  <2>1. v \in Rows /\ v.status = "open"
    BY Setting
  <2> QED
    BY <2>1 DEF Activity, Rows
<1>3. Kept(p)
  BY SplitPlan DEF Whole
<1> HIDE DEF p, a, r
<1>4. p.pos = PutRow(position, i, r) /\ p.acts = <<a>> /\ p.ret = Zero /\ p.open = OpenIds(position) /\ p.atCost = {}
  BY <1>1, BookFacts DEF Book
<1>5. \A k \in DOMAIN p.acts : p.acts[k].type # "buy"
  <2>1. DOMAIN p.acts = {1} /\ p.acts[1] = a
    BY <1>4
  <2> QED
    BY <1>2, <2>1
<1>6. r.status # "closed"
  BY <1>2
<1> QED
  BY <1>3, <1>4, <1>5, <1>6, OneRowOrder DEF Judging, p

\* A symbol change closes nothing.
LEMMA SymbolChangeOrder ==
  ASSUME TypeInv, NEW i \in OpenIds(position), NEW s \in Symbols
  PROVE  Closing(planSymbolChange(i, s)) /\ Judging(planSymbolChange(i, s))
<1> DEFINE p == planSymbolChange(i, s)  v == position[i]
           r == [v EXCEPT !.sym = s]
           a == Activity("symbol_change", s, i)
<1>1. p = [Book EXCEPT !.pos = PutRow(position, i, r), !.acts = <<a>>, !.inv = TRUE]
  BY DEF planSymbolChange
<1>2. a.type = "symbol_change" /\ r.status = "open"
  <2>1. v \in Rows /\ v.status = "open"
    BY Setting
  <2> QED
    BY <2>1 DEF Activity, Rows
<1>3. Kept(p)
  BY SymbolChangePlan DEF Whole
<1> HIDE DEF p, a, r
<1>4. p.pos = PutRow(position, i, r) /\ p.acts = <<a>> /\ p.ret = Zero /\ p.open = OpenIds(position) /\ p.atCost = {}
  BY <1>1, BookFacts DEF Book
<1>5. \A k \in DOMAIN p.acts : p.acts[k].type # "buy"
  <2>1. DOMAIN p.acts = {1} /\ p.acts[1] = a
    BY <1>4
  <2> QED
    BY <1>2, <2>1
<1>6. r.status # "closed"
  BY <1>2
<1> QED
  BY <1>3, <1>4, <1>5, <1>6, OneRowOrder DEF Judging, p

\* A change of quantity closes nothing.
LEMMA ResizeOrder ==
  ASSUME TypeInv, NEW i \in OpenIds(position), NEW q \in Rats, Positive(q)
  PROVE  Closing(planResize(i, q))
<1> DEFINE p == planResize(i, q)  v == position[i]
           r == [v EXCEPT !.qty = q]
<1>1. p = [Book EXCEPT !.pos = PutRow(position, i, r)]
  BY DEF planResize
<1>2. r.status # "closed"
  <2>1. v \in Rows /\ v.status = "open"
    BY Setting
  <2> QED
    BY <2>1 DEF Rows
<1>3. Kept(p)
  BY ResizePlan
<1> HIDE DEF p, r
<1>4. p.pos = PutRow(position, i, r) /\ p.acts = <<>>
  BY <1>1, BookFacts DEF Book
<1>5. \A k \in DOMAIN p.acts : p.acts[k].type # "buy"
  BY <1>4
<1> QED
  BY <1>2, <1>3, <1>4, <1>5, OneRowOrder DEF p

\* A deletion deletes and closes nothing.
LEMMA DeleteOrder ==
  ASSUME TypeInv, NEW i \in OpenIds(position)
  PROVE  Closing(planDelete(i))
<1> DEFINE p == planDelete(i)  v == position[i]
           r == [v EXCEPT !.status = "deleted"]
<1>1. p = [Book EXCEPT !.pos = PutRow(position, i, r), !.open = @ \ {i}]
  BY DEF planDelete
<1>2. r.status # "closed"
  <2>1. v \in Rows /\ v.status = "open"
    BY Setting
  <2> QED
    BY <2>1 DEF Rows
<1>3. Kept(p)
  BY DeletePlan
<1> HIDE DEF p, r
<1>4. p.pos = PutRow(position, i, r) /\ p.acts = <<>>
  BY <1>1, BookFacts DEF Book
<1>5. \A k \in DOMAIN p.acts : p.acts[k].type # "buy"
  BY <1>4
<1> QED
  BY <1>2, <1>3, <1>4, <1>5, OneRowOrder DEF p

\* An added position closes nothing.
LEMMA AddOrder ==
  ASSUME TypeInv, NEW s \in Symbols, NEW q \in Rats
  PROVE  Closing(planAdd(s, q))
<1> DEFINE p == planAdd(s, q)  r == Row(s, q, Rat(price[s]))
<1>1. p = [Book EXCEPT !.pos = Append(position, r), !.open = @ \cup {Len(position) + 1}]
  BY DEF planAdd
<1>2. r.status = "open"
  BY DEF Row
<1> HIDE DEF p, r
<1>3. p.pos = Append(position, r) /\ p.acts = <<>> /\ position \in Seq(Rows)
  BY <1>1, BookFacts DEF Book, TypeInv
<1>4. ASSUME NEW j \in DOMAIN p.pos, p.pos[j].status = "closed"
      PROVE  j \in DOMAIN position /\ position[j].status = "closed"
  <2>1. position \in Seq(Rows \cup {r}) /\ r \in Rows \cup {r}
    BY <1>3
  <2>2. p.pos \in Seq(Rows \cup {r}) /\ Len(p.pos) = Len(position) + 1 /\ p.pos[Len(position) + 1] = r
    BY <1>3, <2>1
  <2>3. j # Len(position) + 1
    BY <1>2, <1>4, <2>2
  <2>4. j \in 1..Len(position)
    BY <2>1, <2>2, <2>3
  <2>5. p.pos[j] = position[j] /\ j \in DOMAIN position
    BY <1>3, <2>1, <2>4
  <2> QED
    BY <1>4, <2>5
<1>5. \A k \in DOMAIN p.acts : p.acts[k].type # "buy"
  BY <1>3
<1> QED
  BY <1>4, <1>5 DEF Closing, p

\* A reallocation deletes and closes nothing.
LEMMA ReplaceOrder ==
  ASSUME TypeInv, NEW target \in Allocations, Zero \preceq cash, BookQuoted, Positive(BookValue),
         \A s \in Symbols : Positive(target[s]) => Quoted(s)
  PROVE  Closing(planReplace(target))
<1> DEFINE S == {s \in Symbols : Positive(target[s])}
           q == SetToSeq(S)
           row(k) == LET s == q[k] IN Row(s, (BookValue ** target[s]) // Rat(price[s]), Rat(price[s]))
           gone == [i \in DOMAIN position |->
                      IF i \in OpenIds(position) THEN [position[i] EXCEPT !.status = "deleted"] ELSE position[i]]
           new == [k \in DOMAIN q |-> row(k)]
           c == BookValue ** (One -- Total([k \in DOMAIN q |-> target[q[k]]]))
           ids == (Len(position) + 1)..(Len(position) + Len(q))
           p == planReplace(target)
<1>1. p = [Book EXCEPT !.pos = gone \o new, !.open = ids, !.cash = c]
  BY DEF planReplace
<1>2. q \in Seq(S) /\ DOMAIN q = 1..Len(q) /\ Len(q) \in Nat
  <2>1. S \in SUBSET Symbols /\ IsFiniteSet(Symbols)
    BY LedgerAssumption
  <2>2. IsFiniteSet(S)
    <3> HIDE DEF S
    <3> QED
      BY <2>1, FS_Subset
  <2> HIDE DEF S
  <2> QED
    BY <2>2, SetToSeqFacts
<1>3. position \in Seq(Rows) /\ Len(position) \in Nat /\ DOMAIN position = 1..Len(position)
  BY DEF TypeInv
<1>4. \A k \in DOMAIN q : row(k).status = "open"
  BY DEF Row
<1> HIDE DEF p, q, row, c, ids
<1>5. p.pos = gone \o new /\ p.acts = <<>>
  BY <1>1, BookFacts DEF Book
<1>6. /\ DOMAIN gone = 1..Len(position) /\ Len(gone) = Len(position)
      /\ \A i \in DOMAIN position : gone[i].status = "closed" => position[i].status = "closed"
      /\ gone = [h \in 1..Len(position) |-> gone[h]]
  <2>1. DOMAIN gone = 1..Len(position)
    BY <1>3
  <2>2. ASSUME NEW i \in DOMAIN position, gone[i].status = "closed"
        PROVE  position[i].status = "closed"
    <3>1. position[i] \in Rows
      BY <1>3
    <3>2. [position[i] EXCEPT !.status = "deleted"].status = "deleted"
      BY <3>1 DEF Rows
    <3>3. gone[i] = IF i \in OpenIds(position) THEN [position[i] EXCEPT !.status = "deleted"] ELSE position[i]
      OBVIOUS
    <3> HIDE DEF gone
    <3> QED
      BY <2>2, <3>2, <3>3
  <2>3. Len(gone) = Len(position)
    <3> HIDE DEF gone
    <3> QED
      BY <1>3, <2>1
  <2>4. gone = [h \in 1..Len(position) |-> gone[h]]
    BY <1>3
  <2> QED
    BY <2>1, <2>2, <2>3, <2>4
<1>7. /\ DOMAIN new = 1..Len(q) /\ Len(new) = Len(q)
      /\ \A k \in DOMAIN new : new[k].status = "open"
      /\ new = [h \in 1..Len(q) |-> new[h]]
  <2>1. DOMAIN new = 1..Len(q) /\ (\A k \in DOMAIN new : new[k].status = "open") /\ new = [h \in 1..Len(q) |-> new[h]]
    BY <1>2, <1>4
  <2> HIDE DEF new
  <2> QED
    BY <1>2, <2>1
<1> HIDE DEF gone, new
<1>8. ASSUME NEW j \in DOMAIN (gone \o new), (gone \o new)[j].status = "closed"
      PROVE  j \in DOMAIN position /\ position[j].status = "closed"
  <2> DEFINE T == {gone[h] : h \in DOMAIN gone} \cup {new[h] : h \in DOMAIN new}
  <2>b. (\A h \in DOMAIN gone : gone[h] \in T) /\ (\A h \in DOMAIN new : new[h] \in T)
    OBVIOUS
  <2> HIDE DEF T
  <2>c. ASSUME NEW h \in 1..Len(position)
        PROVE  gone[h] \in T
    <3>1. h \in DOMAIN gone
      BY <1>6
    <3> QED
      BY <2>b, <3>1
  <2>d. ASSUME NEW h \in 1..Len(q)
        PROVE  new[h] \in T
    <3>1. h \in DOMAIN new
      BY <1>7
    <3> QED
      BY <2>b, <3>1
  <2>e. gone \in [1..Len(position) -> T]
    <3>1. gone = [h \in 1..Len(position) |-> gone[h]]
      BY <1>6
    <3> QED
      BY <2>c, <3>1
  <2>f. new \in [1..Len(q) -> T]
    <3>1. new = [h \in 1..Len(q) |-> new[h]]
      BY <1>7
    <3> QED
      BY <2>d, <3>1
  <2>1. gone \in Seq(T) /\ new \in Seq(T)
    BY <1>2, <1>3, <2>e, <2>f
  <2>2. j \in 1..(Len(position) + Len(q)) /\ (gone \o new)[j] = IF j <= Len(position) THEN gone[j] ELSE new[j - Len(position)]
    BY <1>2, <1>3, <1>6, <1>7, <1>8, <2>1
  <2>3. CASE j <= Len(position)
    BY <1>3, <1>6, <1>8, <2>2, <2>3
  <2>4. CASE ~(j <= Len(position))
    <3>1. j - Len(position) \in DOMAIN new
      BY <1>2, <1>3, <1>7, <2>2, <2>4
    <3> QED
      BY <1>7, <1>8, <2>2, <2>4, <3>1
  <2> QED
    BY <2>3, <2>4
<1>9. \A k \in DOMAIN p.acts : p.acts[k].type # "buy"
  BY <1>5
<1> QED
  BY <1>5, <1>8, <1>9 DEF Closing, p

-----------------------------------------------------------------------------
(* Every handler commits such a plan *)

\* A corrected purchase: nothing opens or closes.
BuyCorrected(p) ==
  \E i \in DOMAIN ledger :
    /\ ledger[i].type = "buy" /\ FindCorrectionForActivity(i) = {} /\ validateCorrection(i) /\ Corrects(p, i)
    /\ ledger[i].ep \in DOMAIN position /\ position[ledger[i].ep].status # "deleted"
    /\ ~p.inv /\ p.open = OpenIds(position) /\ p.open = OpenIds(p.pos)
    /\ position[ledger[i].ep].status = "open" => Accounted(p)
    /\ \A j \in DOMAIN p.pos : j \in DOMAIN position /\ p.pos[j].status = position[j].status

\* A corrected sale: the rows of other episodes are as they were.
SaleCorrected(p) ==
  \E i \in DOMAIN ledger :
    /\ ledger[i].type = "sell" /\ FindCorrectionForActivity(i) = {} /\ validateCorrection(i) /\ Corrects(p, i)
    /\ p.ret = Zero /\ ~p.inv
    /\ \A j \in DOMAIN p.pos : j \in DOMAIN position /\ (j # ledger[i].ep => p.pos[j] = position[j])
    /\ \/ p.open = OpenIds(p.pos)
       \/ \E j \in DOMAIN position : position[j].status = "closed" /\ p.pos[j].status = "open"

\* What the plan of each kind is, with the order of its events.
Facts(kind, p) ==
  /\ PlanFacts(kind, p)
  /\ kind \notin TradeCorrections => (Buying(p) \/ Closing(p)) /\ Judging(p)
  /\ kind = "correct_buy" => BuyCorrected(p)
  /\ kind = "correct_sell" => SaleCorrected(p)

\* The kinds that record all they do and correct no trade.
Plain(kind) == kind \notin TradeCorrections \cup Reshaping

\* A whole plan of such a kind.
LEMMA PlainFacts ==
  ASSUME TypeInv, NEW kind, Plain(kind), NEW p, Whole(p), p.atCost = {}, Buying(p) \/ Closing(p), Judging(p)
  PROVE  Facts(kind, p)
<1>1. PlanFacts(kind, p)
  BY WholeFacts DEF Plain
<1> QED
  BY <1>1 DEF Facts, Plain, TradeCorrections

\* A plan that reshapes the book by hand.
LEMMA ReshapeFacts ==
  ASSUME TypeInv, NEW kind \in Reshaping, NEW p, Kept(p), p.atCost = {}, p.ret = Zero, ~p.inv, Closing(p),
         kind # "replace" => Balanced(p)
  PROVE  Facts(kind, p)
<1>1. kind \notin TradeCorrections /\ kind # "correct_buy" /\ kind # "correct_sell"
  BY DEF Reshaping, TradeCorrections
<1>2. PlanFacts(kind, p)
  BY <1>1, OrdinaryFacts
<1>3. Judging(p)
  BY DEF Judging
<1> QED
  BY <1>1, <1>2, <1>3 DEF Facts

\* The numbers of a request are values, and positive where the handlers ask for it.
LEMMA Requests ==
  /\ \A a \in Amounts : Rat(a) \in Rats /\ Positive(Rat(a))
  /\ \A q \in Quantities : Rat(q) \in Rats /\ Positive(Rat(q))
  /\ \A x \in Prices \ {0} : Rat(x) \in Rats /\ Positive(Rat(x))
  /\ \A f \in Fees : Fee(f) \in Rats /\ Zero \preceq Fee(f)
<1>1. ASSUME NEW n \in Nat
      PROVE  Rat(n) \in Rats /\ Zero \preceq Rat(n) /\ (n # 0 => Positive(Rat(n)))
  <2>1. Rat(n) \in Rats /\ Stands(Rat(n), n, 1)
    BY Wholes
  <2>2. n # 0 => Positive(Rat(n))
    BY DEF Rat, Positive
  <2>3. n = 0 => Rat(n) = Zero
    BY DEF Zero
  <2>4. Zero \preceq Zero
    <3>1. Stands(Zero, 0, 1)
      BY ZeroIsRat
    <3> QED
      BY <3>1, OverOneDenominator
  <2> QED
    BY <2>1, <2>2, <2>3, <2>4, ZeroIsRat, SignsOfRats
<1>2. Amounts \subseteq Nat \ {0} /\ Quantities \subseteq Nat \ {0} /\ Prices \subseteq Nat /\ Fees \subseteq Nat
  BY LedgerAssumption
<1>3. \A a \in Amounts : Rat(a) \in Rats /\ Positive(Rat(a))
  <2> TAKE a \in Amounts
  <2>1. a \in Nat /\ a # 0
    BY <1>2
  <2> QED
    BY <1>1, <2>1
<1>4. \A q \in Quantities : Rat(q) \in Rats /\ Positive(Rat(q))
  <2> TAKE q \in Quantities
  <2>1. q \in Nat /\ q # 0
    BY <1>2
  <2> QED
    BY <1>1, <2>1
<1>5. \A x \in Prices \ {0} : Rat(x) \in Rats /\ Positive(Rat(x))
  <2> TAKE x \in Prices \ {0}
  <2>1. x \in Nat /\ x # 0
    BY <1>2
  <2> QED
    BY <1>1, <2>1
<1>6. \A f \in Fees : Fee(f) \in Rats /\ Zero \preceq Fee(f)
  <2> TAKE f \in Fees
  <2>1. f \in Nat
    BY <1>2
  <2> QED
    BY <1>1, <2>1 DEF Fee
<1> QED
  BY <1>3, <1>4, <1>5, <1>6

\* The step of a mutation: the commit of a plan that is what its kind asks for.
Does == \E kind \in Kinds : \E p : applyLocked(kind, p) /\ Facts(kind, p)

\* One commit is enough.
LEMMA Doing ==
  ASSUME NEW kind, NEW p, applyLocked(kind, p), Facts(kind, p)
  PROVE  Does
BY Committed DEF Does

\* Cash flows and fees commit such plans.
LEMMA CashFlowDoes ==
  ASSUME TypeInv, CashFlow
  PROVE  Does
<1>1. PICK a \in Amounts : Deposit(a) \/ Withdraw(a) \/ RecordFee(a)
  BY DEF CashFlow
<1>2. Rat(a) \in Rats
  BY Requests
<1> DEFINE m == Rat(a)  z == 0
<1>3. z \in {0} \cup {i \in DOMAIN ledger : ledger[i].sym = NoSymbol}
  OBVIOUS
<1>4. Plain("deposit") /\ Plain("withdrawal") /\ Plain("fee")
  BY DEF Plain, TradeCorrections, Reshaping
<1>5. CASE Deposit(a)
  <2> DEFINE p == planCashFlow("deposit", m, z)
  <2>1. applyLocked("deposit", p)
    BY <1>5 DEF Deposit
  <2> HIDE DEF m, z
  <2>2. Whole(p) /\ p.atCost = {} /\ Closing(p) /\ Judging(p)
    BY <1>2, <1>3, CashFlowPlan, CashFlowOrder DEF m
  <2> HIDE DEF p
  <2> QED
    BY <1>4, <2>1, <2>2, PlainFacts, Doing
<1>6. CASE Withdraw(a)
  <2> DEFINE p == planCashFlow("withdrawal", m, z)
  <2>1. applyLocked("withdrawal", p)
    BY <1>6 DEF Withdraw
  <2> HIDE DEF m, z
  <2>2. Whole(p) /\ p.atCost = {} /\ Closing(p) /\ Judging(p)
    BY <1>2, <1>3, CashFlowPlan, CashFlowOrder DEF m
  <2> HIDE DEF p
  <2> QED
    BY <1>4, <2>1, <2>2, PlainFacts, Doing
<1>7. CASE RecordFee(a)
  <2> DEFINE p == planFee(m)
  <2>1. applyLocked("fee", p)
    BY <1>7 DEF RecordFee
  <2> HIDE DEF m
  <2>2. Whole(p) /\ p.atCost = {} /\ Closing(p) /\ Judging(p)
    BY <1>2, FeePlan, FeeOrder DEF m
  <2> HIDE DEF p
  <2> QED
    BY <1>4, <2>1, <2>2, PlainFacts, Doing
<1> QED
  BY <1>1, <1>5, <1>6, <1>7

\* So do trades.
LEMMA TradeDoes ==
  ASSUME TypeInv, Trade
  PROVE  Does
<1>1. PICK o \in Orders :
        \/ \E s \in Symbols : Buy(s, o[1][1], o[1][2], o[2])
        \/ \E i \in DOMAIN position : Sell(i, Rat(o[1][1]), o[1][2], o[2])
  BY DEF Trade
<1> DEFINE q == Rat(o[1][1])  x == Rat(o[1][2])  f == Fee(o[2])
<1>2. q \in Rats /\ Positive(q) /\ x \in Rats /\ Positive(x) /\ f \in Rats /\ Zero \preceq f
  <2>1. o[1][1] \in Quantities /\ o[1][2] \in Prices \ {0} /\ o[2] \in Fees
    BY DEF Orders
  <2> QED
    BY <2>1, Requests
<1>3. Plain("buy") /\ Plain("sell")
  BY DEF Plain, TradeCorrections, Reshaping
<1>4. CASE \E s \in Symbols : Buy(s, o[1][1], o[1][2], o[2])
  <2>1. PICK s \in Symbols : Buy(s, o[1][1], o[1][2], o[2])
    BY <1>4
  <2> DEFINE p == planBuy(s, q, x, f)
  <2>2. applyLocked("buy", p)
    BY <2>1 DEF Buy
  <2> HIDE DEF q, x, f
  <2>3. Whole(p) /\ p.atCost = {} /\ Buying(p) /\ Judging(p)
    BY <1>2, BuyPlan, BuyOrder
  <2> HIDE DEF p
  <2> QED
    BY <1>3, <2>2, <2>3, PlainFacts, Doing
<1>5. CASE \E i \in DOMAIN position : Sell(i, Rat(o[1][1]), o[1][2], o[2])
  <2>1. PICK i \in DOMAIN position : Sell(i, Rat(o[1][1]), o[1][2], o[2])
    BY <1>5
  <2> DEFINE p == planSell(i, q, x, f)
  <2>2. applyLocked("sell", p) /\ i \in OpenIds(position) /\ q \preceq position[i].qty
    BY <2>1 DEF Sell
  <2> HIDE DEF q, x, f
  <2>3. Whole(p) /\ p.atCost = {} /\ Closing(p) /\ Judging(p)
    BY <1>2, <2>2, SellPlan, SellOrder
  <2> HIDE DEF p
  <2> QED
    BY <1>3, <2>2, <2>3, PlainFacts, Doing
<1> QED
  BY <1>1, <1>4, <1>5

\* The correction of a cash flow is a cash flow.
LEMMA CorrectCashDoes ==
  ASSUME TypeInv, NEW i \in DOMAIN ledger, NEW a \in Amounts, CorrectCashFlow(i, a)
  PROVE  Does
<1> DEFINE m == Rat(a)
           g == ledger[i].gross
           delta == m -- g
           amount == IF Positive(delta) THEN delta ELSE Zero -- delta
<1>1. PICK type \in {"deposit", "withdrawal"} :
        ledger[i].type \in {"deposit", "withdrawal"} /\ applyLocked("correct_cash", planCashFlow(type, amount, i))
  BY DEF CorrectCashFlow
<1>2. ledger[i] \in Activities /\ WellFormed(ledger[i], Len(position))
  BY DEF TypeInv
<1>3. ledger[i].sym = NoSymbol /\ g \in Rats
  BY <1>1, <1>2 DEF WellFormed, CashTypes, Activities
<1>4. m \in Rats
  BY Requests
<1> HIDE DEF m, g
<1>5. delta \in Rats
  BY <1>3, <1>4, RatClosed
<1>6. amount \in Rats
  BY <1>5, RatClosed, ZeroIsRat
<1> HIDE DEF delta, amount
<1> DEFINE p == planCashFlow(type, amount, i)
<1>7. i \in {0} \cup {j \in DOMAIN ledger : ledger[j].sym = NoSymbol}
  BY <1>3
<1>8. Whole(p) /\ p.atCost = {} /\ Closing(p) /\ Judging(p)
  BY <1>6, <1>7, CashFlowPlan, CashFlowOrder
<1>9. applyLocked("correct_cash", p)
  BY <1>1
<1> HIDE DEF p
<1>10. Plain("correct_cash")
  BY DEF Plain, TradeCorrections, Reshaping
<1> QED
  BY <1>8, <1>9, <1>10, PlainFacts, Doing

\* The correction of a purchase commits such a plan.
LEMMA CorrectBuyDoes ==
  ASSUME TypeInv, NEW i \in DOMAIN ledger, NEW o \in Orders, CorrectBuy(i, o[1][1], o[1][2], o[2])
  PROVE  Does
<1> DEFINE q == Rat(o[1][1])  x == Rat(o[1][2])  f == Fee(o[2])  p == planCorrectBuy(i, q, x, f)
<1>1. q \in Rats /\ x \in Rats /\ f \in Rats
  <2>1. o[1][1] \in Quantities /\ o[1][2] \in Prices \ {0} /\ o[2] \in Fees
    BY DEF Orders
  <2> QED
    BY <2>1, Requests
<1>2. /\ ReadBack(i).type = "buy" /\ FindCorrectionForActivity(i) = {} /\ validateCorrection(i)
      /\ position[ReadBack(i).ep].status # "deleted"
      /\ (position[ledger[i].ep].qty -- ledger[i].qty) ++ q # Zero /\ applyLocked("correct_buy", p)
  BY DEF CorrectBuy, Correctable
<1> HIDE DEF q, x, f
<1>3. /\ PlanTyped(p) /\ Corrects(p, i) /\ ~p.inv /\ p.atCost = {}
      /\ p.open = OpenIds(position) /\ p.open = OpenIds(p.pos)
      /\ position[ledger[i].ep].status = "open" => Accounted(p)
      /\ \A j \in DOMAIN p.pos : j \in DOMAIN position /\ p.pos[j].status = position[j].status
  BY <1>1, <1>2, CorrectBuyPlan
<1>4. ledger[i].type = "buy" /\ ReadBack(i).ep = ledger[i].ep /\ ledger[i].ep \in DOMAIN position
  <2>1. ReadBack(i).type = ledger[i].type /\ ReadBack(i).ep = ledger[i].ep
    BY ReadBackFacts
  <2>2. ledger[i].type \notin LooseTypes
    BY <1>2, <2>1 DEF LooseTypes, CashTypes
  <2> QED
    BY <1>2, <2>1, <2>2, ReadBackFacts
<1> HIDE DEF p
<1>5. BuyCorrected(p)
  BY <1>2, <1>3, <1>4 DEF BuyCorrected
<1>6. Corrective(p)
  BY <1>2, <1>3, <1>4 DEF Corrective
<1>7. PlanFacts("correct_buy", p)
  BY <1>3, <1>6 DEF PlanFacts, TradeCorrections
<1>8. Facts("correct_buy", p)
  BY <1>5, <1>7 DEF Facts, TradeCorrections
<1> QED
  BY <1>2, <1>8, Doing

\* So does that of a sale.
LEMMA CorrectSellDoes ==
  ASSUME TypeInv, NEW i \in DOMAIN ledger, NEW o \in Orders, CorrectSell(i, o[1][1], o[1][2], o[2])
  PROVE  Does
<1> DEFINE q == Rat(o[1][1])  x == Rat(o[1][2])  f == Fee(o[2])  p == planCorrectSell(i, q, x, f)
<1>1. q \in Rats /\ x \in Rats /\ f \in Rats
  <2>1. o[1][1] \in Quantities /\ o[1][2] \in Prices \ {0} /\ o[2] \in Fees
    BY DEF Orders
  <2> QED
    BY <2>1, Requests
<1>2. /\ ReadBack(i).type = "sell" /\ FindCorrectionForActivity(i) = {} /\ validateCorrection(i)
      /\ position[ReadBack(i).ep].status # "deleted"
      /\ q \preceq HeldBeforeSale(ReadBack(i)) /\ applyLocked("correct_sell", p)
  BY DEF CorrectSell, Correctable
<1> HIDE DEF q, x, f
<1>3. /\ PlanTyped(p) /\ Corrects(p, i) /\ ~p.inv /\ p.atCost = {} /\ p.ret = Zero
      /\ PositiveRows(p.pos) /\ (Costed(position) => Costed(p.pos))
      /\ \A j \in DOMAIN p.pos : j \in DOMAIN position /\ (j # ledger[i].ep => p.pos[j] = position[j])
      /\ ledger[i].ep \in DOMAIN p.pos
      /\ \/ p.open = OpenIds(p.pos)
         \/ position[ledger[i].ep].status # "open" /\ p.pos[ledger[i].ep].status = "open"
  BY <1>1, <1>2, CorrectSellPlan
<1>4. ledger[i].type = "sell" /\ ReadBack(i).ep = ledger[i].ep /\ ledger[i].ep \in DOMAIN position
  <2>1. ReadBack(i).type = ledger[i].type /\ ReadBack(i).ep = ledger[i].ep
    BY ReadBackFacts
  <2> QED
    BY <1>2, <1>3, <2>1
<1> HIDE DEF p
<1>5. SaleCorrected(p)
  <2>1. position[ledger[i].ep].status \in {"open", "closed"}
    <3>1. position[ledger[i].ep] \in Rows
      BY <1>4 DEF TypeInv
    <3>2. position[ledger[i].ep].status \in {"open", "closed", "deleted"}
      BY <3>1 DEF Rows
    <3> QED
      BY <1>2, <1>4, <3>2
  <2>2. \/ p.open = OpenIds(p.pos)
        \/ \E j \in DOMAIN position : position[j].status = "closed" /\ p.pos[j].status = "open"
    BY <1>3, <1>4, <2>1
  <2> QED
    BY <1>2, <1>3, <1>4, <2>2 DEF SaleCorrected
<1>6. Corrective(p)
  BY <1>2, <1>3, <1>4 DEF Corrective
<1>7. PlanFacts("correct_sell", p)
  BY <1>3, <1>6 DEF PlanFacts, TradeCorrections
<1>8. Facts("correct_sell", p)
  BY <1>5, <1>7 DEF Facts, TradeCorrections
<1> QED
  BY <1>2, <1>8, Doing

\* And any correction.
LEMMA CorrectionDoes ==
  ASSUME TypeInv, Correction
  PROVE  Does
<1>1. PICK i \in DOMAIN ledger :
        \/ \E a \in Amounts : CorrectCashFlow(i, a)
        \/ \E o \in Orders : CorrectBuy(i, o[1][1], o[1][2], o[2]) \/ CorrectSell(i, o[1][1], o[1][2], o[2])
  BY DEF Correction
<1> QED
  BY <1>1, CorrectCashDoes, CorrectBuyDoes, CorrectSellDoes

\* And a distribution, of one component or two.
LEMMA DistributeDoes ==
  ASSUME TypeInv, Distribute
  PROVE  Does
<1>1. PICK c \in Component, at \in Dates : Income(c, at) \/ \E d \in Component : IncomeEvent(c, d, at)
  BY DEF Distribute
<1>2. Whole(Book) /\ Buying(Book)
  BY BookWhole, BookBuying
<1>3. CASE Income(c, at)
  <2> DEFINE p == planIncome(c, at)  b == applyComponent(Book, c, at, FALSE)
             kind == IF c.sub = "stock" THEN "stock_dividend" ELSE "income"
  <2>1. applyLocked(kind, p) /\ ComponentApplies(Book, c)
    BY <1>3 DEF Income
  <2>2. Whole(p) /\ p.atCost = {} /\ p.ret = Zero /\ ~p.inv
    BY <2>1, IncomePlan
  <2>3. Buying(b) /\ b \in Plans
    BY <1>2, <2>1, ComponentBuying, AnyComponent, BookParts
  <2>4. Buying(p)
    <3>1. p = [b EXCEPT !.effect = componentEffect(c)]
      BY DEF planIncome
    <3> HIDE DEF p, b
    <3>2. p.pos = b.pos /\ p.acts = b.acts
      BY <2>3, <3>1 DEF Plans
    <3> QED
      BY <2>3, <3>2 DEF Buying
  <2>5. Plain(kind)
    BY DEF Plain, TradeCorrections, Reshaping
  <2> HIDE DEF p, kind
  <2>6. Judging(p)
    BY <2>2 DEF Judging
  <2> QED
    BY <2>1, <2>2, <2>4, <2>5, <2>6, PlainFacts, Doing
<1>4. CASE \E d \in Component : IncomeEvent(c, d, at)
  <2>0. PICK d \in Component : IncomeEvent(c, d, at)
    BY <1>4
  <2> DEFINE p == planIncomeEvent(c, d, at)
             b == applyComponent(Book, c, at, TRUE)
             e == applyComponent(b, d, at, TRUE)
  <2>1. applyLocked("income_event", p) /\ ComponentApplies(Book, c) /\ ComponentApplies(b, d)
    BY <2>0 DEF IncomeEvent
  <2>2. Whole(p) /\ p.atCost = {} /\ p.ret = Zero /\ ~p.inv
    BY <2>1, IncomeEventPlan
  <2>3. Buying(b) /\ Whole(b)
    BY <1>2, <2>1, ComponentBuying, AnyComponent
  <2>4. Buying(e) /\ e \in Plans
    <3> HIDE DEF b
    <3> QED
      BY <2>1, <2>3, ComponentBuying, AnyComponent, BookParts
  <2>5. Buying(p)
    <3> DEFINE j == IF Return \in {componentEffect(c), componentEffect(d)} THEN Return ELSE Neutral
    <3>1. p = [e EXCEPT !.effect = j]
      BY DEF planIncomeEvent
    <3> HIDE DEF p, e, j
    <3>2. p.pos = e.pos /\ p.acts = e.acts
      BY <2>4, <3>1 DEF Plans
    <3> QED
      BY <2>4, <3>2 DEF Buying
  <2>6. Plain("income_event")
    BY DEF Plain, TradeCorrections, Reshaping
  <2> HIDE DEF p
  <2>7. Judging(p)
    BY <2>2 DEF Judging
  <2> QED
    BY <2>1, <2>2, <2>5, <2>6, <2>7, PlainFacts, Doing
<1> QED
  BY <1>1, <1>3, <1>4

\* A deletion or a change of quantity commits such a plan.
LEMMA ReshapeDoes ==
  ASSUME TypeInv, NEW i \in OpenIds(position), Delete(i) \/ \E q \in Quantities : Resize(i, q)
  PROVE  Does
<1>1. "delete" \in Reshaping /\ "resize" \in Reshaping
  BY DEF Reshaping
<1>2. CASE Delete(i)
  <2> DEFINE p == planDelete(i)
  <2>1. applyLocked("delete", p)
    BY <1>2 DEF Delete
  <2>2. Kept(p) /\ Balanced(p) /\ p.atCost = {} /\ p.ret = Zero /\ ~p.inv /\ Closing(p)
    BY DeletePlan, DeleteOrder
  <2> HIDE DEF p
  <2> QED
    BY <1>1, <2>1, <2>2, ReshapeFacts, Doing
<1>3. CASE \E q \in Quantities : Resize(i, q)
  <2>1. PICK q \in Quantities : Resize(i, q)
    BY <1>3
  <2> DEFINE m == Rat(q)  p == planResize(i, m)
  <2>2. m \in Rats /\ Positive(m)
    BY Requests
  <2>3. applyLocked("resize", p)
    BY <2>1 DEF Resize
  <2> HIDE DEF m
  <2>4. Kept(p) /\ Balanced(p) /\ p.atCost = {} /\ p.ret = Zero /\ ~p.inv /\ Closing(p)
    BY <2>2, ResizePlan, ResizeOrder
  <2> HIDE DEF p
  <2> QED
    BY <1>1, <2>3, <2>4, ReshapeFacts, Doing
<1> QED
  BY <1>2, <1>3

\* So does a write-off.
LEMMA WriteOffDoes ==
  ASSUME TypeInv, NEW i, WriteOff(i)
  PROVE  Does
<1> DEFINE p == planWriteOff(i)
<1>1. i \in OpenIds(position) /\ ~Quoted(position[i].sym) /\ applyLocked("write_off", p)
  BY DEF WriteOff
<1>2. p.open = OpenIds(position) \ {i}
  BY DEF planWriteOff, Book
<1>3. Whole(p) /\ p.atCost = {i} /\ Closing(p) /\ Judging(p)
  BY <1>1, WriteOffPlan, WriteOffOrder
<1> HIDE DEF p
<1>4. PlanTyped(p) /\ PositiveRows(p.pos) /\ (Costed(position) => Costed(p.pos)) /\ Kept(p) /\ Balanced(p) /\ Accounted(p)
  BY <1>3, KeptFacts DEF Whole
<1>5. "write_off" \notin TradeCorrections
  BY DEF TradeCorrections
<1>6. p.atCost \subseteq {j \in OpenIds(position) : ~Quoted(position[j].sym)} \ p.open
  BY <1>1, <1>2, <1>3
<1>7. PlanFacts("write_off", p)
  BY <1>4, <1>5, <1>6 DEF PlanFacts
<1> QED
  BY <1>1, <1>3, <1>5, <1>7, Doing DEF Facts

\* And closing a position at its quote.
LEMMA CloseDoes ==
  ASSUME TypeInv, NEW i, Close(i)
  PROVE  Does
<1> DEFINE q == position[i].qty  x == Rat(price[position[i].sym])  p == planSell(i, q, x, Zero)
<1>1. i \in OpenIds(position) /\ applyLocked("close", p)
  BY DEF Close
<1>2. q \in Rats /\ x \in Rats
  <2>1. position[i] \in Rows
    BY <1>1, Setting
  <2>2. q \in Rats /\ position[i].sym \in Symbols
    BY <2>1 DEF Rows
  <2> QED
    BY <2>2, Setting
<1>3. q \preceq position[i].qty
  <2>1. PICK n \in Int, d \in Nat \ {0} : Stands(q, n, d)
    BY <1>2, RatStands
  <2> HIDE DEF q
  <2>2. q \preceq q
    BY <2>1, OverOneDenominator
  <2> QED
    BY <2>2 DEF q
<1> HIDE DEF q, x
<1>4. Whole(p) /\ p.atCost = {} /\ Closing(p) /\ Judging(p)
  BY <1>1, <1>2, <1>3, ZeroIsRat, SellPlan, SellOrder
<1> HIDE DEF p
<1>5. Plain("close")
  BY DEF Plain, TradeCorrections, Reshaping
<1> QED
  BY <1>1, <1>4, <1>5, PlainFacts, Doing

\* And a split or a symbol change.
LEMMA EventDoes ==
  ASSUME TypeInv, NEW i, (\E r \in Ratios, at \in Dates : Split(i, r, at)) \/ \E s \in Symbols : SymbolChange(i, s)
  PROVE  Does
<1>1. Plain("split") /\ Plain("symbol_change")
  BY DEF Plain, TradeCorrections, Reshaping
<1>2. CASE \E r \in Ratios, at \in Dates : Split(i, r, at)
  <2>1. PICK r \in Ratios, at \in Dates : Split(i, r, at)
    BY <1>2
  <2> DEFINE p == planSplit(i, r, at)
  <2>2. i \in OpenIds(position) /\ applyLocked("split", p)
    BY <2>1 DEF Split
  <2>3. Whole(p) /\ p.atCost = {} /\ Closing(p) /\ Judging(p)
    BY <2>2, SplitPlan, SplitOrder
  <2> HIDE DEF p
  <2> QED
    BY <1>1, <2>2, <2>3, PlainFacts, Doing
<1>3. CASE \E s \in Symbols : SymbolChange(i, s)
  <2>1. PICK s \in Symbols : SymbolChange(i, s)
    BY <1>3
  <2> DEFINE p == planSymbolChange(i, s)
  <2>2. i \in OpenIds(position) /\ applyLocked("symbol_change", p)
    BY <2>1 DEF SymbolChange
  <2>3. Whole(p) /\ p.atCost = {} /\ Closing(p) /\ Judging(p)
    BY <2>2, SymbolChangePlan, SymbolChangeOrder
  <2> HIDE DEF p
  <2> QED
    BY <1>1, <2>2, <2>3, PlainFacts, Doing
<1> QED
  BY <1>2, <1>3

\* And every transformation of a position.
LEMMA TransformDoes ==
  ASSUME TypeInv, Transform
  PROVE  Does
<1>1. PICK i \in DOMAIN position :
        \/ Close(i) \/ WriteOff(i) \/ Delete(i)
        \/ \E r \in Ratios, at \in Dates : Split(i, r, at)
        \/ \E s \in Symbols : SymbolChange(i, s)
        \/ \E q \in Quantities : Resize(i, q)
  BY DEF Transform
<1>2. ASSUME Delete(i) \/ \E q \in Quantities : Resize(i, q)
      PROVE  i \in OpenIds(position)
  BY <1>2 DEF Delete, Resize
<1> QED
  BY <1>1, <1>2, ReshapeDoes, WriteOffDoes, CloseDoes, EventDoes

\* And a reallocation, as long as the cash is not negative.
LEMMA ReallocateDoes ==
  ASSUME TypeInv, Zero \preceq cash, Reallocate
  PROVE  Does
<1>1. "add" \in Reshaping /\ "replace" \in Reshaping
  BY DEF Reshaping
<1>2. CASE \E t \in Allocations : Replace(t)
  <2>1. PICK t \in Allocations : Replace(t)
    BY <1>2
  <2> DEFINE p == planReplace(t)
  <2>2. /\ BookQuoted /\ Positive(BookValue) /\ (\A s \in Symbols : Positive(t[s]) => Quoted(s))
        /\ applyLocked("replace", p)
    BY <2>1 DEF Replace
  <2>3. Kept(p) /\ p.atCost = {} /\ p.ret = Zero /\ ~p.inv
    BY <2>2, ReplacePlan
  <2>4. Closing(p)
    BY <2>2, ReplaceOrder
  <2> HIDE DEF p
  <2> QED
    BY <1>1, <2>2, <2>3, <2>4, ReshapeFacts, Doing
<1>3. CASE \E s \in Symbols, q \in Quantities : Add(s, q)
  <2>1. PICK s \in Symbols, q \in Quantities : Add(s, q)
    BY <1>3
  <2> DEFINE m == Rat(q)  p == planAdd(s, m)
  <2>2. m \in Rats /\ Positive(m)
    BY Requests
  <2>3. applyLocked("add", p)
    BY <2>1 DEF Add
  <2> HIDE DEF m
  <2>4. Kept(p) /\ Balanced(p) /\ p.atCost = {} /\ p.ret = Zero /\ ~p.inv /\ Closing(p)
    BY <2>2, AddPlan, AddOrder
  <2> HIDE DEF p
  <2> QED
    BY <1>1, <2>3, <2>4, ReshapeFacts, Doing
<1> QED
  BY <1>2, <1>3 DEF Reallocate

\* Every step commits a plan, or is one of the background's.
LEMMA Steps ==
  ASSUME TypeInv, Zero \preceq cash, Next
  PROVE  Does \/ Background
BY CashFlowDoes, TradeDoes, CorrectionDoes, DistributeDoes, TransformDoes, ReallocateDoes DEF Next

-----------------------------------------------------------------------------
(* The invariant of the ledger, and its types *)

\* Every row of the ledger after a commit is one that was there, or one the plan wrote.
LEMMA Recorded ==
  ASSUME ledger \in Seq(Activities), NEW p, p.acts \in Seq(Activities), ledger' = ledger \o p.acts
  PROVE  /\ ledger' \in Seq(Activities) /\ Len(ledger') = Len(ledger) + Len(p.acts)
         /\ \A j \in DOMAIN ledger : j \in DOMAIN ledger' /\ ledger'[j] = ledger[j]
         /\ \A k \in DOMAIN p.acts : Len(ledger) + k \in DOMAIN ledger' /\ ledger'[Len(ledger) + k] = p.acts[k]
         /\ \A j \in DOMAIN ledger' :
              \/ j \in DOMAIN ledger /\ ledger'[j] = ledger[j]
              \/ \E k \in DOMAIN p.acts : j = Len(ledger) + k /\ ledger'[j] = p.acts[k]
<1> DEFINE l == ledger  m == p.acts  w == ledger'
<1>1. l \in Seq(Activities) /\ m \in Seq(Activities) /\ w = l \o m
  OBVIOUS
<1> HIDE DEF l, m, w
<1>2. w \in Seq(Activities) /\ Len(w) = Len(l) + Len(m) /\ Len(l) \in Nat /\ Len(m) \in Nat
  BY <1>1
<1>3. \A j \in 1..Len(l) : w[j] = l[j]
  BY <1>1
<1>4. \A k \in 1..Len(m) : w[Len(l) + k] = m[k]
  BY <1>1
<1>5. DOMAIN w = 1..(Len(l) + Len(m)) /\ DOMAIN l = 1..Len(l) /\ DOMAIN m = 1..Len(m)
  BY <1>1, <1>2
<1>6. ASSUME NEW j \in DOMAIN w
      PROVE  \/ j \in DOMAIN l /\ w[j] = l[j]
             \/ \E k \in DOMAIN m : j = Len(l) + k /\ w[j] = m[k]
  <2>1. CASE j <= Len(l)
    BY <1>2, <1>3, <1>5, <2>1
  <2>2. CASE ~(j <= Len(l))
    <3>1. j - Len(l) \in DOMAIN m /\ j = Len(l) + (j - Len(l))
      BY <1>2, <1>5, <2>2
    <3> QED
      BY <1>4, <1>5, <3>1
  <2> QED
    BY <2>1, <2>2
<1> QED
  BY <1>2, <1>3, <1>4, <1>5, <1>6 DEF l, m, w

\* The fields of a plan, typed.
LEMMA PlanParts ==
  ASSUME TypeInv, NEW p, PlanTyped(p)
  PROVE  /\ p.pos \in Seq(Rows) /\ p.open \in SUBSET Nat /\ p.cash \in Rats /\ p.acts \in Seq(Activities)
         /\ p.ret \in Rats /\ Len(position) <= Len(p.pos) /\ Len(position) \in Nat /\ Len(p.pos) \in Nat
         /\ DOMAIN position \subseteq DOMAIN p.pos
<1>1. /\ p.pos \in Seq(Rows) /\ p.open \in SUBSET Nat /\ p.cash \in Rats /\ p.acts \in Seq(Activities)
      /\ p.ret \in Rats /\ Len(position) <= Len(p.pos)
  BY DEF PlanTyped, Plans
<1>2. position \in Seq(Rows)
  BY DEF TypeInv
<1> HIDE DEF TypeInv
<1>3. Len(position) \in Nat /\ Len(p.pos) \in Nat /\ DOMAIN position = 1..Len(position) /\ DOMAIN p.pos = 1..Len(p.pos)
  BY <1>1, <1>2
<1> QED
  BY <1>1, <1>3

\* The rows a commit leaves: an open one holds something, because a plan that cannot
\* vouch for that is valued, and the valuation refuses what holds nothing.
LEMMA CommitRows ==
  ASSUME TypeInv, NEW p, PlanTyped(p), Commits(p)
  PROVE  position' \in Seq(Rows) /\ PositiveRows(position')
<1>1. position' = p.pos /\ p.pos \in Seq(Rows)
  BY PlanParts DEF Commits
<1>2. \A i \in OpenIds(p.pos) : Positive(p.pos[i].qty)
  BY DEF PlanTyped, Commits, Writable
<1> QED
  BY <1>1, <1>2 DEF PositiveRows, OpenIds

\* The ledger a commit leaves: every leg names an existing episode and corrects an
\* earlier leg.
LEMMA CommitLegs ==
  ASSUME TypeInv, NEW p, PlanTyped(p), Commits(p)
  PROVE  /\ ledger' \in Seq(Activities)
         /\ \A i \in DOMAIN ledger' :
              /\ WellFormed(ledger'[i], Len(position'))
              /\ ledger'[i].of < i /\ ledger'[i].at <= ledger'[i].created /\ ledger'[i].created < version'
<1>1. p.acts \in Seq(Activities) /\ Len(position) <= Len(p.pos) /\ Len(position) \in Nat /\ Len(p.pos) \in Nat
  BY PlanParts
<1>2. ledger' = ledger \o p.acts /\ position' = p.pos /\ version' = version + 1
  BY DEF Commits
<1>3. ledger \in Seq(Activities) /\ version \in Nat /\ Len(ledger) \in Nat /\ DOMAIN ledger = 1..Len(ledger)
  <2>1. ledger \in Seq(Activities) /\ version \in Nat
    BY Setting DEF TypeInv, Now
  <2> QED
    BY <2>1
<1>4. /\ ledger' \in Seq(Activities)
      /\ \A j \in DOMAIN ledger' :
           \/ j \in DOMAIN ledger /\ ledger'[j] = ledger[j]
           \/ \E k \in DOMAIN p.acts : j = Len(ledger) + k /\ ledger'[j] = p.acts[k]
  BY <1>1, <1>2, <1>3, Recorded
<1>5. ASSUME NEW i \in DOMAIN ledger
      PROVE  /\ WellFormed(ledger[i], Len(position')) /\ ledger[i].of < i
             /\ ledger[i].at <= ledger[i].created /\ ledger[i].created < version'
  <2>1. /\ WellFormed(ledger[i], Len(position)) /\ ledger[i].of < i
        /\ ledger[i].at <= ledger[i].created /\ ledger[i].created < version
    BY DEF TypeInv
  <2>2. ledger[i] \in Activities
    BY <1>3
  <2>3. ledger[i].ep \in Nat /\ ledger[i].created \in Nat
    BY <2>2 DEF Activities
  <2>4. ledger[i].created < version' /\ (ledger[i].ep <= Len(position) => ledger[i].ep <= Len(position'))
    BY <1>1, <1>2, <1>3, <2>1, <2>3
  <2> QED
    BY <2>1, <2>4 DEF WellFormed
<1>6. ASSUME NEW k \in DOMAIN p.acts
      PROVE  LET a == p.acts[k] IN
             WellFormed(a, Len(position')) /\ a.of < Len(ledger) + k /\ a.at <= a.created /\ a.created < version'
  <2> DEFINE a == p.acts[k]
  <2>1. NewLeg(a, Len(p.pos))
    BY DEF PlanTyped
  <2>2. k \in Nat /\ k >= 1 /\ a \in Activities
    BY <1>1
  <2> HIDE DEF a
  <2>3. a.of \in Nat /\ a.created = version /\ a.at <= version /\ (a.of # 0 => a.of \in DOMAIN ledger)
    BY <2>1, <2>2 DEF NewLeg, MayCorrect, Now, Activities
  <2>4. a.of < Len(ledger) + k /\ a.created < version'
    BY <1>2, <1>3, <2>2, <2>3
  <2> QED
    BY <1>2, <2>1, <2>3, <2>4 DEF a, NewLeg
<1> QED
  BY <1>4, <1>5, <1>6

\* A commit keeps the types, and the cash stays nonnegative because a portfolio in debt
\* is not writable.
LEMMA CommitTyped ==
  ASSUME TypeInv, NEW p, PlanTyped(p), Commits(p)
  PROVE  TypeInv' /\ (Zero \preceq cash)'
<1>1. position' \in Seq(Rows) /\ PositiveRows(position)'
  BY CommitRows DEF PositiveRows
<1>2. cash' \in Rats /\ (Zero \preceq cash)'
  BY PlanParts DEF Commits, Writable
<1>3. version' \in 1..(MaxCommits + 1) /\ trusted'.at \in 0..version'
  <2>1. version <= MaxCommits /\ version' = version + 1 /\ trusted' = trusted
    BY DEF Commits
  <2>2. MaxCommits \in Nat
    BY LedgerAssumption
  <2> QED
    BY <2>1, <2>2 DEF TypeInv
<1>4. autoFund' \in BOOLEAN /\ price' \in [Symbols -> Prices]
  BY DEF Commits, TypeInv
<1> QED
  BY <1>1, <1>2, <1>3, <1>4, CommitLegs DEF TypeInv

\* The inductive invariant of the ledger.
LedgerInv ==
  /\ TypeInv /\ Zero \preceq cash
  /\ ranked = NoState \/ ValidateState(ranked)
  /\ moves \in 0..MaxMoves

\* Zero is not below zero.
LEMMA ZeroNotBelow == Zero \preceq Zero
<1>1. Stands(Zero, 0, 1) /\ 0 \in Int /\ 1 \in Nat \ {0}
  BY ZeroIsRat
<1> QED
  BY <1>1, OverOneDenominator

\* It holds of an empty portfolio.
LEMMA LedgerInit == Init => LedgerInv
<1> SUFFICES ASSUME Init
             PROVE  LedgerInv
  OBVIOUS
<1>1. position \in Seq(Rows) /\ PositiveRows(position) /\ ledger \in Seq(Activities) /\ DOMAIN ledger = {}
  BY DEF Init, PositiveRows
<1>2. MaxCommits \in Nat /\ MaxMoves \in Nat
  BY LedgerAssumption
<1>3. version \in 1..(MaxCommits + 1) /\ trusted.at \in 0..version /\ moves \in 0..MaxMoves
  BY <1>2 DEF Init
<1>4. price \in [Symbols -> Prices]
  BY DEF Init
<1> QED
  BY <1>1, <1>3, <1>4, ZeroIsRat, ZeroNotBelow DEF Init, LedgerInv, TypeInv

\* Prices, quotes and the trusted boundary keep it.
LEMMA BackgroundTyped ==
  ASSUME LedgerInv, Background
  PROVE  LedgerInv'
<1>1. CASE EnsureRankedEpoch
  <2>1. ranked' = ActivateState(BookValue, Positive(BookValue))
    BY <1>1 DEF EnsureRankedEpoch
  <2>2. ValidateState(ActivateState(BookValue, Positive(BookValue)))
    BY DEF ValidateState, ActivateState, Hundred, Positive, Rat, Active, Paused
  <2> QED
    BY <1>1, <2>1, <2>2 DEF EnsureRankedEpoch, LedgerInv, TypeInv, PositiveRows
<1>2. CASE TakeSnapshot
  <2>1. trusted'.at = version /\ version \in Nat
    BY <1>2, Setting DEF TakeSnapshot, LedgerInv, Now
  <2>2. trusted'.at \in 0..version
    BY <2>1
  <2> QED
    BY <1>2, <2>2 DEF TakeSnapshot, LedgerInv, TypeInv, PositiveRows
<1>3. CASE \E b \in BOOLEAN : SetAutoFundPurchases(b)
  BY <1>3 DEF SetAutoFundPurchases, LedgerInv, TypeInv, PositiveRows
<1>4. CASE \E s \in Symbols, p \in Prices : MovePrice(s, p)
  <2>1. PICK s \in Symbols, p \in Prices : MovePrice(s, p)
    BY <1>4
  <2>2. moves' \in 0..MaxMoves
    BY <2>1, LedgerAssumption DEF MovePrice, LedgerInv
  <2>3. price' \in [Symbols -> Prices]
    BY <2>1 DEF MovePrice, LedgerInv, TypeInv
  <2> QED
    BY <2>1, <2>2, <2>3 DEF MovePrice, LedgerInv, TypeInv, PositiveRows
<1> QED
  BY <1>1, <1>2, <1>3, <1>4 DEF Background

\* Every step keeps it.
LEMMA LedgerStep == LedgerInv /\ [Next]_vars => LedgerInv'
<1> SUFFICES ASSUME LedgerInv, [Next]_vars
             PROVE  LedgerInv'
  OBVIOUS
<1>1. CASE Does
  <2>0. PICK kind \in Kinds : \E p : applyLocked(kind, p) /\ Facts(kind, p)
    BY <1>1 DEF Does
  <2>1. PICK p : applyLocked(kind, p) /\ Facts(kind, p)
    BY <2>0
  <2>2. PlanTyped(p)
    BY <2>1 DEF Facts, PlanFacts
  <2>3. Commits(p)
    BY <2>1, Committed
  <2>4. TypeInv' /\ (Zero \preceq cash)'
    BY <2>2, <2>3, CommitTyped DEF LedgerInv
  <2>5. ValidateState(ranked)' /\ moves' = moves
    BY <2>1 DEF applyLocked, ValidateState
  <2> QED
    BY <2>4, <2>5 DEF LedgerInv
<1>2. CASE Background
  BY <1>2, BackgroundTyped
<1>3. CASE UNCHANGED vars
  BY <1>3 DEF vars, LedgerInv, TypeInv, PositiveRows
<1> QED
  BY <1>1, <1>2, <1>3, Steps DEF LedgerInv

\* It holds always.
LEMMA LedgerAlways == Spec => []LedgerInv
BY LedgerInit, LedgerStep, PTL DEF Spec

\* The portfolio's rows, activities and ranked state keep their types, whatever mutations
\* the handlers of coordinator.go commit (applyLocked) and whatever a correction finds.
THEOREM LedgerTypes == Spec => []TypeOK
<1>1. LedgerInv => TypeOK
  <2> SUFFICES ASSUME LedgerInv
               PROVE  TypeOK
    OBVIOUS
  <2>1. ASSUME NEW i \in DOMAIN position
        PROVE  /\ position[i].sym \in Symbols /\ IsRat(position[i].qty) /\ IsRat(position[i].avg)
               /\ position[i].status \in {"open", "closed", "deleted"}
    <3>1. position[i] \in Rows
      BY DEF LedgerInv, TypeInv
    <3>2. /\ position[i].sym \in Symbols /\ position[i].qty \in Rats /\ position[i].avg \in Rats
          /\ position[i].status \in {"open", "closed", "deleted"}
      BY <3>1 DEF Rows
    <3> QED
      BY <3>2, RatStands
  <2>2. ASSUME NEW i \in DOMAIN ledger
        PROVE  /\ IsRat(ledger[i].gross) /\ IsRat(ledger[i].qty) /\ ledger[i].ep \in 0..Len(position)
               /\ ledger[i].of < i /\ ledger[i].at <= ledger[i].created
    <3>1. ledger[i] \in Activities /\ WellFormed(ledger[i], Len(position)) /\ ledger[i].of < i /\ ledger[i].at <= ledger[i].created
      BY DEF LedgerInv, TypeInv
    <3>2. ledger[i].gross \in Rats /\ ledger[i].qty \in Rats /\ ledger[i].ep \in Nat
      BY <3>1 DEF Activities
    <3>3. Len(position) \in Nat /\ ledger[i].ep <= Len(position)
      BY <3>1 DEF LedgerInv, TypeInv, WellFormed
    <3>4. ledger[i].ep \in 0..Len(position)
      BY <3>2, <3>3
    <3> QED
      BY <3>1, <3>2, <3>4, RatStands
  <2>3. IsRat(cash) /\ autoFund \in BOOLEAN
    BY RatStands DEF LedgerInv, TypeInv
  <2> QED
    BY <2>1, <2>2, <2>3 DEF TypeOK, LedgerInv, TypeInv
<1> QED
  BY <1>1, LedgerAlways, PTL

-----------------------------------------------------------------------------
(* Solvent books *)

\* An empty portfolio has no costs.
LEMMA SolventInit == Init => Costed(position)
BY DEF Init, Costed

\* Every step but the correction of a purchase keeps average costs nonnegative.
LEMMA SolventStep ==
  ASSUME "correct_buy" \notin Kinds
  PROVE  LedgerInv /\ Costed(position) /\ [Next]_vars => Costed(position)'
<1> SUFFICES ASSUME LedgerInv, Costed(position), [Next]_vars
             PROVE  Costed(position)'
  OBVIOUS
<1>1. CASE Does
  <2>0. PICK kind \in Kinds : \E p : applyLocked(kind, p) /\ Facts(kind, p)
    BY <1>1 DEF Does
  <2>1. PICK p : applyLocked(kind, p) /\ Facts(kind, p)
    BY <2>0
  <2>2. Costed(p.pos)
    BY <2>1 DEF Facts, PlanFacts
  <2>3. position' = p.pos
    BY <2>1, Committed DEF Commits
  <2> QED
    BY <2>2, <2>3 DEF Costed
<1>2. CASE Background
  BY <1>2 DEF Background, EnsureRankedEpoch, TakeSnapshot, SetAutoFundPurchases, MovePrice, Costed
<1>3. CASE UNCHANGED vars
  BY <1>3 DEF vars, Costed
<1> QED
  BY <1>1, <1>2, <1>3, Steps DEF LedgerInv

\* Cash and average costs never become negative (applyLocked's checks, planSell,
\* planReturnOfCapital's cap at the basis), where no purchase is corrected: a corrected
\* purchase before a return of capital may leave a negative average (planCorrectBuy).
THEOREM BooksStaySolvent ==
  ASSUME "correct_buy" \notin Kinds
  PROVE  Spec => []SolventBook
<1>1. LedgerInv /\ Costed(position) => SolventBook
  <2> SUFFICES ASSUME LedgerInv, Costed(position)
               PROVE  SolventBook
    OBVIOUS
  <2>1. \A i \in OpenIds(position) : i \in DOMAIN position /\ Positive(position[i].qty)
    BY DEF LedgerInv, TypeInv, PositiveRows, OpenIds
  <2> QED
    BY <2>1 DEF SolventBook, Costed, LedgerInv
<1> QED
  BY <1>1, SolventInit, SolventStep, LedgerAlways, PTL DEF Spec

\* What is corrected away after a commit: what was, and what a new leg corrects.
LEMMA CorrectedAfter ==
  ASSUME TypeInv, NEW p, PlanTyped(p), Commits(p)
  PROVE  /\ \A j \in DOMAIN ledger : CorrectedAway(j)' <=> CorrectedAway(j) \/ \E k \in DOMAIN p.acts : p.acts[k].of = j
         /\ \A k \in DOMAIN p.acts : \A j : j = Len(ledger) + k => ~CorrectedAway(j)'
<1>1. p.acts \in Seq(Activities) /\ ledger \in Seq(Activities) /\ ledger' = ledger \o p.acts
  BY PlanParts DEF TypeInv, Commits
<1>2. /\ ledger' \in Seq(Activities) /\ Len(ledger') = Len(ledger) + Len(p.acts)
      /\ \A j \in DOMAIN ledger : j \in DOMAIN ledger' /\ ledger'[j] = ledger[j]
      /\ \A k \in DOMAIN p.acts : Len(ledger) + k \in DOMAIN ledger' /\ ledger'[Len(ledger) + k] = p.acts[k]
      /\ \A j \in DOMAIN ledger' :
           \/ j \in DOMAIN ledger /\ ledger'[j] = ledger[j]
           \/ \E k \in DOMAIN p.acts : j = Len(ledger) + k /\ ledger'[j] = p.acts[k]
  BY <1>1, Recorded
<1>3. \A j : CorrectedAway(j) <=> \E k \in DOMAIN ledger : ledger[k].of = j
  BY DEF CorrectedAway, FindCorrectionForActivity
<1>4. \A j : CorrectedAway(j)' <=> \E k \in DOMAIN ledger' : ledger'[k].of = j
  BY DEF CorrectedAway, FindCorrectionForActivity
<1>5. \A j : CorrectedAway(j)' <=> CorrectedAway(j) \/ \E k \in DOMAIN p.acts : p.acts[k].of = j
  BY <1>2, <1>3, <1>4
<1>6. ASSUME NEW k \in DOMAIN p.acts, NEW n, n = Len(ledger) + k
      PROVE  ~CorrectedAway(n)'
  <2>0. Len(ledger) \in Nat /\ DOMAIN ledger = 1..Len(ledger) /\ k \in Nat /\ k >= 1
    BY <1>1
  <2>1. \A j \in DOMAIN ledger : ledger[j].of # n
    <3> TAKE j \in DOMAIN ledger
    <3>1. ledger[j] \in Activities /\ ledger[j].of < j
      BY <1>1 DEF TypeInv
    <3>2. ledger[j].of \in Nat
      BY <3>1 DEF Activities
    <3> QED
      BY <1>6, <2>0, <3>1, <3>2
  <2>2. \A j \in DOMAIN p.acts : p.acts[j].of # n
    <3> TAKE j \in DOMAIN p.acts
    <3>1. NewLeg(p.acts[j], Len(p.pos)) /\ p.acts[j] \in Activities
      BY <1>1 DEF PlanTyped
    <3>2. p.acts[j].of = 0 \/ p.acts[j].of \in DOMAIN ledger
      BY <3>1 DEF NewLeg, MayCorrect
    <3> QED
      BY <1>6, <2>0, <3>2
  <2> QED
    BY <1>3, <1>5, <2>1, <2>2
<1> QED
  BY <1>5, <1>6

\* What each leg of the ledger says of cash, if it still counts.
Effects == [i \in DOMAIN ledger |-> CashEffect(i)]

\* They are values.
LEMMA EffectsTyped ==
  ASSUME TypeInv
  PROVE  Effects \in Seq(Rats) /\ Len(Effects) = Len(ledger) /\ \A i \in DOMAIN ledger : Effects[i] = CashEffect(i)
<1>1. ledger \in Seq(Activities)
  BY DEF TypeInv
<1>2. Len(ledger) \in Nat /\ DOMAIN ledger = 1..Len(ledger)
  BY <1>1
<1>3. ASSUME NEW i \in DOMAIN ledger
      PROVE  CashEffect(i) \in Rats
  <2>1. ledger[i] \in Activities
    BY <1>1
  <2>2. CashEffectOf(ledger[i]) = cashOf[ledger[i]] /\ cashOf[ledger[i]] \in Rats
    BY <2>1, Readings DEF cashOf
  <2> QED
    BY <2>2, ZeroIsRat DEF CashEffect
<1>4. DOMAIN Effects = 1..Len(ledger) /\ Effects = [i \in 1..Len(ledger) |-> Effects[i]]
      /\ \A i \in 1..Len(ledger) : Effects[i] = CashEffect(i)
  BY <1>2 DEF Effects
<1>5. \A i \in 1..Len(ledger) : Effects[i] \in Rats
  BY <1>2, <1>3, <1>4
<1> HIDE DEF Effects
<1>6. Effects \in Seq(Rats) /\ Len(Effects) = Len(ledger)
  BY <1>2, <1>4, <1>5, AllRats
<1> QED
  BY <1>2, <1>4, <1>6

-----------------------------------------------------------------------------
(* The ledger and the cash balance *)

\* An ordinary commit leaves what the ledger said of cash as it was.
LEMMA EffectsKept ==
  ASSUME TypeInv, NEW p, PlanTyped(p), Commits(p), NewLegs(p.acts, Len(p.pos))
  PROVE  Effects' = Effects \o Along(cashOf, p.acts)
<1>1. p.acts \in Seq(Activities) /\ ledger \in Seq(Activities) /\ ledger' = ledger \o p.acts
  BY PlanParts DEF TypeInv, Commits
<1>2. /\ ledger' \in Seq(Activities) /\ Len(ledger') = Len(ledger) + Len(p.acts)
      /\ \A j \in DOMAIN ledger : j \in DOMAIN ledger' /\ ledger'[j] = ledger[j]
      /\ \A k \in DOMAIN p.acts : Len(ledger) + k \in DOMAIN ledger' /\ ledger'[Len(ledger) + k] = p.acts[k]
      /\ \A j \in DOMAIN ledger' :
           \/ j \in DOMAIN ledger /\ ledger'[j] = ledger[j]
           \/ \E k \in DOMAIN p.acts : j = Len(ledger) + k /\ ledger'[j] = p.acts[k]
  BY <1>1, Recorded
<1> DEFINE n == Len(ledger)  m == Len(p.acts)  A == Along(cashOf, p.acts)
<1>3. n \in Nat /\ m \in Nat /\ DOMAIN ledger = 1..n /\ DOMAIN p.acts = 1..m /\ DOMAIN ledger' = 1..(n + m)
  BY <1>1, <1>2
<1>4. A \in Seq(Rats) /\ DOMAIN A = 1..m /\ Len(A) = m /\ \A k \in 1..m : A[k] = CashEffectOf(p.acts[k])
  <2>1. A \in Seq(Rats)
    BY <1>1, Readings, LegSums
  <2>2. DOMAIN A = 1..m /\ \A k \in 1..m : A[k] = cashOf[p.acts[k]]
    BY <1>3 DEF Along
  <2>3. \A k \in 1..m : p.acts[k] \in Activities
    BY <1>1, <1>3
  <2> HIDE DEF A
  <2>4. Len(A) = m
    BY <1>3, <2>1, <2>2
  <2> QED
    BY <2>1, <2>2, <2>3, <2>4 DEF cashOf
<1>5. Effects \in Seq(Rats) /\ Len(Effects) = n /\ \A i \in DOMAIN ledger : Effects[i] = CashEffect(i)
  BY EffectsTyped
<1>6. ASSUME NEW j \in DOMAIN ledger
      PROVE  CashEffect(j)' = CashEffect(j)
  <2>1. ledger'[j] = ledger[j]
    BY <1>2
  <2>2. ASSUME ledger[j].type \in {"buy", "sell"}
        PROVE  CorrectedAway(j)' <=> CorrectedAway(j)
    <3>1. WellFormed(ledger[j], Len(position))
      BY DEF TypeInv
    <3>2. ledger[j].sym \in Symbols /\ NoSymbol \notin Symbols
      BY <2>2, <3>1, LedgerAssumption DEF WellFormed, LooseTypes, CashTypes
    <3>3. \A k \in DOMAIN p.acts : Uncorrecting(p.acts[k])
      BY DEF NewLegs
    <3>4. j # 0
      BY <1>3
    <3>5. \A k \in DOMAIN p.acts : p.acts[k].of # j
      BY <3>2, <3>3, <3>4 DEF Uncorrecting
    <3> QED
      BY <3>5, CorrectedAfter
  <2>3. CashEffect(j)' = IF ledger'[j].type \in {"buy", "sell"} /\ CorrectedAway(j)' THEN Zero ELSE CashEffectOf(ledger'[j])
    BY DEF CashEffect
  <2>4. CashEffect(j) = IF ledger[j].type \in {"buy", "sell"} /\ CorrectedAway(j) THEN Zero ELSE CashEffectOf(ledger[j])
    BY DEF CashEffect
  <2> QED
    BY <2>1, <2>2, <2>3, <2>4
<1>7. ASSUME NEW k \in DOMAIN p.acts, NEW j, j = n + k
      PROVE  CashEffect(j)' = CashEffectOf(p.acts[k])
  <2>1. ledger'[j] = p.acts[k] /\ ~CorrectedAway(j)'
    BY <1>2, <1>7, CorrectedAfter
  <2>2. CashEffect(j)' = IF ledger'[j].type \in {"buy", "sell"} /\ CorrectedAway(j)' THEN Zero ELSE CashEffectOf(ledger'[j])
    BY DEF CashEffect
  <2> QED
    BY <2>1, <2>2
<1>8. Effects' = [j \in DOMAIN ledger' |-> CashEffect(j)']
  BY DEF Effects
<1>9. DOMAIN Effects' = 1..(n + m) /\ Effects' = [j \in 1..(n + m) |-> Effects'[j]]
  BY <1>3, <1>8
<1>10. \A j \in 1..n : Effects'[j] = Effects[j]
  BY <1>3, <1>5, <1>6, <1>8
<1>11. \A k \in 1..m : Effects'[n + k] = A[k]
  <2> TAKE k \in 1..m
  <2>1. n + k \in 1..(n + m)
    BY <1>3
  <2>2. PICK j : j = n + k
    OBVIOUS
  <2>3. CashEffect(j)' = CashEffectOf(p.acts[k])
    BY <1>3, <1>7, <2>2
  <2>4. Effects'[j] = CashEffect(j)'
    BY <1>3, <1>8, <2>1, <2>2
  <2>5. A[k] = CashEffectOf(p.acts[k])
    BY <1>4
  <2> HIDE DEF A
  <2> QED
    BY <2>2, <2>3, <2>4, <2>5
<1> HIDE DEF A, n, m
<1> DEFINE u == Effects'  v == Effects
<1>12. \A j \in 1..(n + m) : u[j] \in Rats
  <2> TAKE j \in 1..(n + m)
  <2>1. CASE j \in 1..n
    BY <1>3, <1>5, <1>10, <2>1
  <2>2. CASE j \notin 1..n
    <3>1. j - n \in 1..m /\ j = n + (j - n)
      BY <1>3, <2>2
    <3>2. A[j - n] \in Rats
      BY <1>4, <3>1
    <3> QED
      BY <1>11, <3>1, <3>2
  <2> QED
    BY <2>1, <2>2
<1>13. v \in Seq(Rats) /\ Len(v) = n
  BY <1>5
<1>14. DOMAIN u = 1..(n + m) /\ u = [j \in 1..(n + m) |-> u[j]]
  BY <1>9
<1>15. (\A j \in 1..n : u[j] = v[j]) /\ \A k \in 1..m : u[n + k] = A[k]
  BY <1>10, <1>11
<1> HIDE DEF u, v
<1>16. u \in Seq(Rats) /\ Len(u) = n + m
  BY <1>3, <1>12, <1>14, AllRats
<1>17. u = v \o A
  BY <1>4, <1>13, <1>15, <1>16, ConcatIs
<1> QED
  BY <1>17 DEF u, v, A

\* The correction of a trade silences it and speaks in its place.
LEMMA EffectsCorrected ==
  ASSUME TypeInv, NEW p, PlanTyped(p), Commits(p),
         NEW i \in DOMAIN ledger, ledger[i].type \in {"buy", "sell"}, FindCorrectionForActivity(i) = {}, Corrects(p, i)
  PROVE  /\ CashEffect(i) = CashEffectOf(ledger[i])
         /\ Effects' = [Effects EXCEPT ![i] = Zero] \o <<CashEffectOf(p.acts[1])>>
<1> DEFINE a == p.acts[1]  c == CashEffectOf(p.acts[1])  v == [Effects EXCEPT ![i] = Zero]
           n == Len(ledger)  u == Effects'
<1>1. p.acts = <<a>> /\ a \in Activities /\ a.of = i /\ ledger \in Seq(Activities) /\ p.acts \in Seq(Activities)
      /\ ledger' = ledger \o p.acts
  BY PlanParts DEF Corrects, TypeInv, Commits
<1>2. /\ Len(ledger') = n + 1 /\ ledger' \in Seq(Activities)
      /\ \A j \in DOMAIN ledger : j \in DOMAIN ledger' /\ ledger'[j] = ledger[j]
      /\ ledger'[n + 1] = a
  <2>1. /\ ledger' \in Seq(Activities) /\ Len(ledger') = Len(ledger) + Len(p.acts)
        /\ \A j \in DOMAIN ledger : j \in DOMAIN ledger' /\ ledger'[j] = ledger[j]
        /\ \A k \in DOMAIN p.acts : Len(ledger) + k \in DOMAIN ledger' /\ ledger'[Len(ledger) + k] = p.acts[k]
    BY <1>1, Recorded
  <2>2. Len(p.acts) = 1 /\ 1 \in DOMAIN p.acts
    <3> HIDE DEF a
    <3> QED
      BY <1>1
  <2> QED
    BY <2>1, <2>2
<1>3. n \in Nat /\ DOMAIN ledger = 1..n /\ DOMAIN ledger' = 1..(n + 1) /\ DOMAIN p.acts = {1}
  <2>1. DOMAIN p.acts = {1}
    <3> HIDE DEF a
    <3> QED
      BY <1>1
  <2> QED
    BY <1>1, <1>2, <2>1
<1>4. Effects \in Seq(Rats) /\ Len(Effects) = n /\ \A j \in DOMAIN ledger : Effects[j] = CashEffect(j)
  BY EffectsTyped
<1>5. c \in Rats
  <2>1. c = cashOf[a]
    BY <1>1 DEF cashOf
  <2> QED
    BY <1>1, <2>1, Readings
<1>6. \A j \in DOMAIN ledger : CorrectedAway(j)' <=> CorrectedAway(j) \/ j = i
  <2>1. \A j \in DOMAIN ledger : CorrectedAway(j)' <=> CorrectedAway(j) \/ \E k \in DOMAIN p.acts : p.acts[k].of = j
    BY CorrectedAfter
  <2> QED
    BY <1>1, <1>3, <2>1
<1>7. \A j : j = n + 1 => ~CorrectedAway(j)'
  BY <1>3, CorrectedAfter
<1>8. u = [j \in DOMAIN ledger' |-> CashEffect(j)']
  BY DEF Effects
<1>9. \A j : /\ CashEffect(j)' = IF ledger'[j].type \in {"buy", "sell"} /\ CorrectedAway(j)' THEN Zero ELSE CashEffectOf(ledger'[j])
             /\ CashEffect(j) = IF ledger[j].type \in {"buy", "sell"} /\ CorrectedAway(j) THEN Zero ELSE CashEffectOf(ledger[j])
  BY DEF CashEffect
<1>10. CashEffect(i) = CashEffectOf(ledger[i])
  BY <1>9 DEF CorrectedAway
<1>11. \A j \in 1..n : u[j] = v[j]
  <2> TAKE j \in 1..n
  <2>1. u[j] = CashEffect(j)' /\ ledger'[j] = ledger[j]
    BY <1>2, <1>3, <1>8
  <2>2. CASE j = i
    BY <1>3, <1>4, <1>6, <1>9, <2>1, <2>2
  <2>3. CASE j # i
    <3>1. CashEffect(j)' = CashEffect(j)
      BY <1>3, <1>6, <1>9, <2>1, <2>3
    <3>2. v[j] = Effects[j]
      BY <1>3, <1>4, <2>3
    <3> QED
      BY <1>3, <1>4, <2>1, <3>1, <3>2
  <2> QED
    BY <2>2, <2>3
<1>12. u[n + 1] = c
  <2>1. PICK j : j = n + 1
    OBVIOUS
  <2>2. j \in DOMAIN ledger' /\ ledger'[j] = a /\ ~CorrectedAway(j)'
    BY <1>2, <1>3, <1>7, <2>1
  <2>3. CashEffect(j)' = c
    BY <1>9, <2>2
  <2>4. u[j] = c
    BY <1>8, <2>2, <2>3
  <2> HIDE DEF u, n, c
  <2> QED
    BY <2>1, <2>4
<1>13. v \in Seq(Rats) /\ Len(v) = n
  <2>1. i \in 1..Len(Effects)
    BY <1>3, <1>4
  <2> QED
    BY <1>4, <2>1, ZeroIsRat
<1>14. <<c>> \in Seq(Rats) /\ Len(<<c>>) = 1 /\ <<c>>[1] = c
  BY <1>5
<1>15. DOMAIN u = 1..(n + 1) /\ u = [j \in 1..(n + 1) |-> u[j]]
  BY <1>3, <1>8
<1> HIDE DEF u, v, c, n
<1>16. \A j \in 1..(n + 1) : u[j] \in Rats
  <2> TAKE j \in 1..(n + 1)
  <2>1. j \in 1..n \/ j = n + 1
    BY <1>3
  <2> QED
    BY <1>5, <1>11, <1>12, <1>13, <2>1
<1>17. u \in Seq(Rats) /\ Len(u) = n + 1
  BY <1>3, <1>15, <1>16, AllRats
<1>18. \A k \in 1..Len(<<c>>) : u[Len(v) + k] = <<c>>[k]
  BY <1>12, <1>13, <1>14
<1>19. u = v \o <<c>>
  BY <1>11, <1>13, <1>14, <1>17, <1>18, ConcatIs
<1> QED
  BY <1>10, <1>19 DEF u, v, c

\* The invariant: the cash balance is the sum of what the ledger says.
CashIsRecorded == cash = Total(Effects)

\* It holds of an empty portfolio.
LEMMA CashInit == Init => CashIsRecorded
<1> SUFFICES ASSUME Init
             PROVE  CashIsRecorded
  OBVIOUS
<1>1. Effects = <<>>
  BY DEF Init, Effects
<1> QED
  BY <1>1, TotalEmpty DEF Init, CashIsRecorded

\* Every step keeps it.
LEMMA CashStep ==
  ASSUME "replace" \notin Kinds, Store = "memory" \/ Kinds \cap TradeCorrections = {}
  PROVE  LedgerInv /\ CashIsRecorded /\ [Next]_vars => CashIsRecorded'
<1> SUFFICES ASSUME LedgerInv, CashIsRecorded, [Next]_vars
             PROVE  CashIsRecorded'
  OBVIOUS
<1>0. TypeInv /\ Zero \preceq cash
  BY DEF LedgerInv
<1>1. CASE Does
  <2>0. PICK kind \in Kinds : \E p : applyLocked(kind, p) /\ Facts(kind, p)
    BY <1>1 DEF Does
  <2>1. PICK p : applyLocked(kind, p) /\ Facts(kind, p)
    BY <2>0
  <2>2. Commits(p)
    BY <2>1, Committed
  <2>3. PlanTyped(p) /\ PlanFacts(kind, p) /\ cash' = p.cash
    BY <2>1, <2>2 DEF Facts, PlanFacts, Commits
  <2>4. CASE kind \notin TradeCorrections
    <3>1. Kept(p) /\ Balanced(p)
      BY <2>3, <2>4 DEF PlanFacts
    <3>2. NewLegs(p.acts, Len(p.pos)) /\ p.acts \in Seq(Activities)
      BY <3>1 DEF Kept, BookTyped, NewLegs
    <3>3. Effects' = Effects \o Along(cashOf, p.acts)
      BY <1>0, <2>2, <2>3, <3>2, EffectsKept
    <3>4. Effects \in Seq(Rats) /\ Along(cashOf, p.acts) \in Seq(Rats)
      BY <1>0, <3>2, EffectsTyped, Readings, LegSums
    <3>5. Total(Effects)' = Total(Effects) ++ Total(Along(cashOf, p.acts))
      <4> DEFINE A == Along(cashOf, p.acts)  e == Effects
      <4>1. Total(e \o A) = Total(e) ++ Total(A)
        <5> HIDE DEF A, e
        <5> QED
          BY <3>4, TotalConcat DEF A, e
      <4>2. Total(Effects)' = Total(Effects')
        BY DEF Total
      <4> QED
        BY <3>3, <4>1, <4>2
    <3> QED
      BY <2>3, <3>1, <3>5 DEF Balanced, CashIsRecorded
  <2>5. CASE kind \in TradeCorrections
    <3>1. Store = "memory" /\ Corrective(p)
      BY <2>3, <2>5 DEF PlanFacts
    <3>2. PICK i \in DOMAIN ledger :
            ledger[i].type \in {"buy", "sell"} /\ FindCorrectionForActivity(i) = {} /\ Corrects(p, i)
      BY <3>1 DEF Corrective
    <3> DEFINE c == CashEffectOf(p.acts[1])  e == Effects  v == [Effects EXCEPT ![i] = Zero]
    <3>3. CashEffect(i) = CashEffectOf(ledger[i]) /\ Effects' = v \o <<c>>
      BY <1>0, <2>2, <2>3, <3>2, EffectsCorrected
    <3>4. e \in Seq(Rats) /\ i \in 1..Len(e) /\ e[i] = CashEffectOf(ledger[i])
      <4>1. ledger \in Seq(Activities)
        BY <1>0 DEF TypeInv
      <4> QED
        BY <1>0, <3>3, <4>1, EffectsTyped
    <3>5. c \in Rats
      <4>1. p.acts[1] \in Activities
        BY <3>2 DEF Corrects
      <4>2. c = cashOf[p.acts[1]]
        BY <4>1 DEF cashOf
      <4> QED
        BY <4>1, <4>2, Readings
    <3>6. v \in Seq(Rats) /\ Len(v) = Len(e) /\ v[i] = Zero /\ \A k \in 1..Len(e) : k # i => v[k] = e[k]
      BY <3>4, ZeroIsRat
    <3>7. cash' = (cash -- e[i]) ++ c /\ cash = Total(e) /\ cash \in Rats
      BY <1>0, <2>3, <3>1, <3>2, <3>4 DEF Corrects, CashIsRecorded, TypeInv
    <3>8. Total(Effects)' = Total(v \o <<c>>)
      <4>1. Total(Effects)' = Total(Effects')
        BY DEF Total
      <4> QED
        BY <3>3, <4>1
    <3> HIDE DEF c, e, v
    <3>9. Total(v) = (Total(e) -- e[i]) ++ Zero
      BY <3>4, <3>6, TotalReplace
    <3>10. e[i] \in Rats
      BY <3>4
    <3>11. cash -- e[i] \in Rats
      BY <3>7, <3>10, RatClosed
    <3>12. Total(v) = cash -- e[i]
      BY <3>7, <3>9, <3>11, AddZero
    <3>13. Total(v \o <<c>>) = Total(v) ++ c
      <4>1. <<>> \in Seq(Rats) /\ <<c>> \in Seq(Rats)
        BY <3>5
      <4>2. Total(v \o <<c>>) = Total(v) ++ Total(<<c>>)
        BY <3>6, <4>1, TotalConcat
      <4>3. Total(<<c>>) = c
        <5>1. Total(Append(<<>>, c)) = Total(<<>>) ++ c
          BY <3>5, <4>1, TotalAppend
        <5>2. Append(<<>>, c) = <<c>>
          OBVIOUS
        <5> QED
          BY <3>5, <5>1, <5>2, TotalEmpty, AddZero
      <4> QED
        BY <4>2, <4>3
    <3> QED
      BY <3>7, <3>8, <3>12, <3>13 DEF CashIsRecorded
  <2> QED
    BY <2>4, <2>5
<1>2. CASE Background
  <2>1. ledger' = ledger /\ cash' = cash
    BY <1>2 DEF Background, EnsureRankedEpoch, TakeSnapshot, SetAutoFundPurchases, MovePrice
  <2> QED
    BY <2>1 DEF CashIsRecorded, Effects, CashEffect, CorrectedAway, FindCorrectionForActivity, Total
<1>3. CASE UNCHANGED vars
  BY <1>3 DEF vars, CashIsRecorded, Effects, CashEffect, CorrectedAway, FindCorrectionForActivity, Total
<1> QED
  BY <1>0, <1>1, <1>2, <1>3, Steps

\* The cash balance is what the ledger says it is, through every mutation, correction
\* and chain of corrections.  Two things are excluded because the code does not do it:
\* replaceAllocations moves cash without a leg, and a corrected trade that was read back
\* from PostgreSQL has lost its fee (repository's scan of portfolio_activities).
THEOREM CashIsWhatTheLedgerSays ==
  ASSUME "replace" \notin Kinds, Store = "memory" \/ Kinds \cap TradeCorrections = {}
  PROVE  Spec => []CashMatchesLedger
<1>1. CashIsRecorded => CashMatchesLedger
  BY DEF CashIsRecorded, Effects, CashMatchesLedger
<1> QED
  BY <1>1, CashInit, CashStep, LedgerAlways, PTL DEF Spec

-----------------------------------------------------------------------------
(* Trusted history *)

\* No commit touches what the replay of a symbol looked at before the trusted boundary.
LEMMA ReplayKept ==
  ASSUME Backdating = FALSE, TypeInv, NEW p, PlanTyped(p), Commits(p), NEW s \in Symbols, NEW n \in Nat, n < trusted.at
  PROVE  ReplayedLegs(s, n)' = ReplayedLegs(s, n)
<1> DEFINE l == ledger  w == ledger'  L == Len(ledger)
           J == {j \in DOMAIN l : l[j].sym = s /\ l[j].at <= n /\ ~CorrectedAway(j)}
           K == {j \in DOMAIN w : w[j].sym = s /\ w[j].at <= n /\ ~CorrectedAway(j)'}
<1>1. p.acts \in Seq(Activities) /\ l \in Seq(Activities) /\ w = l \o p.acts
  BY PlanParts DEF TypeInv, Commits
<1>2. /\ \A j \in DOMAIN l : j \in DOMAIN w /\ w[j] = l[j]
      /\ \A j \in DOMAIN w :
           \/ j \in DOMAIN l /\ w[j] = l[j]
           \/ \E k \in DOMAIN p.acts : j = L + k /\ w[j] = p.acts[k]
  BY <1>1, Recorded
<1>3. \A k \in DOMAIN p.acts : NewLeg(p.acts[k], Len(p.pos))
  BY DEF PlanTyped
<1>4. trusted.at \in Nat
  BY Setting
<1>5. NoSymbol # s
  BY LedgerAssumption
<1>6. ASSUME NEW k \in DOMAIN p.acts
      PROVE  ~(p.acts[k].sym = s /\ p.acts[k].at <= n)
  <2>1. p.acts[k] \in Activities
    BY <1>1
  <2>2. p.acts[k].at \in Nat
    BY <2>1 DEF Activities
  <2>3. p.acts[k].sym = NoSymbol \/ p.acts[k].at >= trusted.at
    BY <1>3 DEF NewLeg
  <2> QED
    BY <1>4, <1>5, <2>2, <2>3
<1>7. ASSUME NEW j \in DOMAIN l, l[j].sym = s, l[j].at <= n
      PROVE  CorrectedAway(j)' <=> CorrectedAway(j)
  <2>1. l[j] \in Activities
    BY <1>1
  <2>2. l[j].at \in Nat
    BY <2>1 DEF Activities
  <2>3. ~MayCorrect(j)
    BY <1>4, <1>5, <1>7, <2>2 DEF MayCorrect
  <2>4. j # 0
    BY <1>1
  <2>5. \A k \in DOMAIN p.acts : p.acts[k].of # j
    BY <1>3, <2>3, <2>4 DEF NewLeg
  <2> QED
    BY <2>5, CorrectedAfter
<1>8. K = J
  <2>1. \A j \in K : j \in J
    <3> TAKE j \in K
    <3>1. j \in DOMAIN l /\ w[j] = l[j]
      BY <1>2, <1>6
    <3> QED
      BY <1>7, <3>1
  <2>2. \A j \in J : j \in K
    <3> TAKE j \in J
    <3>1. j \in DOMAIN w /\ w[j] = l[j]
      BY <1>2
    <3> QED
      BY <1>7, <3>1
  <2> HIDE DEF J, K
  <2> QED
    BY <2>1, <2>2
<1>9. \A j \in J : w[j] = l[j]
  BY <1>2
<1>10. ReplayedLegs(s, n) = {[id |-> i, leg |-> l[i]] : i \in J}
  BY DEF ReplayedLegs
<1>11. ReplayedLegs(s, n)' = {[id |-> i, leg |-> w[i]] : i \in K}
  BY DEF ReplayedLegs
<1> HIDE DEF J, K, l, w
<1>12. {[id |-> i, leg |-> w[i]] : i \in K} = {[id |-> i, leg |-> l[i]] : i \in J}
  BY <1>8, <1>9
<1> QED
  BY <1>10, <1>11, <1>12

\* Every step keeps what the snapshot of the trusted boundary replayed to.
LEMMA SnapshotStep ==
  ASSUME Backdating = FALSE
  PROVE  LedgerInv /\ SnapshotsStayTrue /\ [Next]_vars => SnapshotsStayTrue'
<1> SUFFICES ASSUME LedgerInv, SnapshotsStayTrue, [Next]_vars, trusted'.at > 0, NEW s \in Symbols
             PROVE  EligibleQuantity(s, trusted.at - 1)' = trusted'.held[s]
  BY DEF SnapshotsStayTrue
<1>0. TypeInv /\ Zero \preceq cash
  BY DEF LedgerInv
<1>1. ASSUME trusted' = trusted, ReplayedLegs(s, trusted.at - 1)' = ReplayedLegs(s, trusted.at - 1)
      PROVE  EligibleQuantity(s, trusted.at - 1)' = trusted'.held[s]
  <2>1. EligibleQuantity(s, trusted.at - 1) = replayHoldings(ReplayedLegs(s, trusted.at - 1))
    BY DEF EligibleQuantity
  <2>2. EligibleQuantity(s, trusted.at - 1)' = replayHoldings(ReplayedLegs(s, trusted.at - 1)')
    BY DEF EligibleQuantity
  <2> QED
    BY <1>1, <2>1, <2>2 DEF SnapshotsStayTrue
<1>2. CASE Does
  <2>0. PICK kind \in Kinds : \E p : applyLocked(kind, p) /\ Facts(kind, p)
    BY <1>2 DEF Does
  <2>1. PICK p : applyLocked(kind, p) /\ Facts(kind, p)
    BY <2>0
  <2>2. Commits(p) /\ PlanTyped(p)
    BY <2>1, Committed DEF Facts, PlanFacts
  <2>3. trusted' = trusted /\ trusted.at \in Nat
    BY <1>0, <2>2, Setting DEF Commits
  <2>4. PICK n \in Nat : n = trusted.at - 1 /\ n < trusted.at
    BY <2>3
  <2>5. ReplayedLegs(s, n)' = ReplayedLegs(s, n)
    BY <1>0, <2>2, <2>4, ReplayKept
  <2>6. n = trusted'.at - 1
    BY <2>3, <2>4
  <2>7. ReplayedLegs(s, trusted.at - 1)' = ReplayedLegs(s, trusted.at - 1)
    BY <2>4, <2>5, <2>6 DEF ReplayedLegs
  <2> QED
    BY <1>1, <2>3, <2>7
<1>3. CASE TakeSnapshot
  <2>1. ledger' = ledger /\ trusted'.at = version /\ trusted'.held[s] = EligibleQuantity(s, version - 1)
    BY <1>3 DEF TakeSnapshot
  <2>2. PICK n : n = version - 1
    OBVIOUS
  <2>3. ReplayedLegs(s, n)' = ReplayedLegs(s, n)
    BY <2>1 DEF ReplayedLegs, CorrectedAway, FindCorrectionForActivity
  <2>4. EligibleQuantity(s, n)' = replayHoldings(ReplayedLegs(s, n)')
    BY DEF EligibleQuantity
  <2>5. EligibleQuantity(s, n)' = EligibleQuantity(s, n)
    BY <2>3, <2>4 DEF EligibleQuantity
  <2>6. n = trusted'.at - 1
    BY <2>1, <2>2
  <2>7. EligibleQuantity(s, trusted.at - 1)' = EligibleQuantity(s, n)'
    BY <2>6 DEF EligibleQuantity, ReplayedLegs
  <2> QED
    BY <2>1, <2>2, <2>5, <2>7
<1>4. CASE EnsureRankedEpoch \/ (\E b \in BOOLEAN : SetAutoFundPurchases(b))
           \/ (\E y \in Symbols, x \in Prices : MovePrice(y, x)) \/ UNCHANGED vars
  <2>1. ledger' = ledger /\ trusted' = trusted
    BY <1>4 DEF EnsureRankedEpoch, SetAutoFundPurchases, MovePrice, vars
  <2>2. ReplayedLegs(s, trusted.at - 1)' = ReplayedLegs(s, trusted.at - 1)
    BY <2>1 DEF ReplayedLegs, CorrectedAway, FindCorrectionForActivity
  <2> QED
    BY <1>1, <2>1, <2>2
<1> QED
  BY <1>0, <1>2, <1>3, <1>4, Steps DEF Background

\* What the replay of the ledger gave at the trusted boundary, it gives for ever
\* (validateCorrection refuses what is older), where corporate actions are not backdated
\* past it: planSplit and the distributions take the date they are given.
THEOREM TrustedHistoryIsNotRewritten ==
  ASSUME Backdating = FALSE
  PROVE  Spec => []SnapshotsStayTrue
<1>1. Init => SnapshotsStayTrue
  BY DEF Init, SnapshotsStayTrue
<1> QED
  BY <1>1, SnapshotStep, LedgerAlways, PTL DEF Spec

-----------------------------------------------------------------------------
(* Closed episodes are sealed *)

\* b comes before a in the order of isLastEpisodeEvent: another commit, and an earlier
\* date or the same date recorded earlier.
Later(a, b) == a.created # b.created /\ (b.at < a.at \/ (b.at = a.at /\ b.created < a.created))

\* An episode some leg of which comes after all its purchases.
Sealed(l, e) ==
  \E j \in DOMAIN l : l[j].ep = e /\ \A k \in DOMAIN l : l[k].type = "buy" /\ l[k].ep = e => Later(l[j], l[k])

\* No commit both buys and sells.
SalesApart(l) == \A j \in DOMAIN l : \A k \in DOMAIN l : l[j].type = "sell" /\ l[k].type = "buy" => l[j].created # l[k].created

\* The invariant: every closed episode is sealed.
ClosedInv ==
  /\ SalesApart(ledger)
  /\ \A e \in DOMAIN position : position[e].status = "closed" => Sealed(ledger, e)

\* So nothing bought in a closed episode is the last thing that happened to it.
LEMMA ClosedNotLast ==
  ASSUME TypeInv, ClosedInv, NEW i \in DOMAIN ledger, ledger[i].type = "buy", isLastEpisodeEvent(i), ledger[i].ep \in DOMAIN position
  PROVE  position[ledger[i].ep].status # "closed"
<1> SUFFICES ASSUME Sealed(ledger, ledger[i].ep)
             PROVE  FALSE
  BY DEF ClosedInv
<1>1. PICK j \in DOMAIN ledger : ledger[j].ep = ledger[i].ep /\ Later(ledger[j], ledger[i])
  BY DEF Sealed
<1>2. j # i
  BY <1>1 DEF Later
<1>3. ledger[j].at <= ledger[i].at /\ (ledger[j].at = ledger[i].at => ledger[j].created <= ledger[i].created)
  BY <1>1, <1>2 DEF isLastEpisodeEvent, Later
<1>4. ledger[i] \in Activities /\ ledger[j] \in Activities
  BY DEF TypeInv
<1>5. ledger[i].at \in Nat /\ ledger[j].at \in Nat /\ ledger[i].created \in Nat /\ ledger[j].created \in Nat
  BY <1>4 DEF Activities
<1> QED
  BY <1>1, <1>3, <1>5 DEF Later

\* The legs of a ledger and of a plan, as far as the order of events goes.
LEMMA LegDates ==
  ASSUME TypeInv, NEW p, PlanTyped(p)
  PROVE  /\ \A j \in DOMAIN ledger : ledger[j].at \in Nat /\ ledger[j].created \in Nat /\ ledger[j].at <= ledger[j].created
                                     /\ ledger[j].created < Now /\ ledger[j].at < Now
         /\ \A k \in DOMAIN p.acts : p.acts[k].at \in Nat /\ p.acts[k].created = Now /\ p.acts[k].at <= Now
         /\ Now \in Nat
<1>1. Now \in Nat
  BY Setting
<1>2. ASSUME NEW j \in DOMAIN ledger
      PROVE  ledger[j].at \in Nat /\ ledger[j].created \in Nat /\ ledger[j].at <= ledger[j].created
             /\ ledger[j].created < Now /\ ledger[j].at < Now
  <2>1. ledger[j] \in Activities /\ ledger[j].at <= ledger[j].created /\ ledger[j].created < Now
    BY DEF TypeInv, Now
  <2>2. ledger[j].at \in Nat /\ ledger[j].created \in Nat
    BY <2>1 DEF Activities
  <2> QED
    BY <1>1, <2>1, <2>2
<1>3. ASSUME NEW k \in DOMAIN p.acts
      PROVE  p.acts[k].at \in Nat /\ p.acts[k].created = Now /\ p.acts[k].at <= Now
  <2>1. p.acts[k] \in Activities /\ NewLeg(p.acts[k], Len(p.pos))
    BY PlanParts DEF PlanTyped
  <2>2. p.acts[k].at \in Nat
    BY <2>1 DEF Activities
  <2> QED
    BY <2>1, <2>2 DEF NewLeg
<1> QED
  BY <1>1, <1>2, <1>3

\* A commit that buys nothing in an episode leaves it sealed.
LEMMA SealedKept ==
  ASSUME TypeInv, NEW p, PlanTyped(p), Commits(p), NEW e, Sealed(ledger, e),
         \A k \in DOMAIN p.acts : ~(p.acts[k].type = "buy" /\ p.acts[k].ep = e)
  PROVE  Sealed(ledger', e)
<1>1. p.acts \in Seq(Activities) /\ ledger \in Seq(Activities) /\ ledger' = ledger \o p.acts
  BY PlanParts DEF TypeInv, Commits
<1>2. /\ \A j \in DOMAIN ledger : j \in DOMAIN ledger' /\ ledger'[j] = ledger[j]
      /\ \A j \in DOMAIN ledger' :
           \/ j \in DOMAIN ledger /\ ledger'[j] = ledger[j]
           \/ \E k \in DOMAIN p.acts : j = Len(ledger) + k /\ ledger'[j] = p.acts[k]
  BY <1>1, Recorded
<1>3. PICK j \in DOMAIN ledger :
        ledger[j].ep = e /\ \A k \in DOMAIN ledger : ledger[k].type = "buy" /\ ledger[k].ep = e => Later(ledger[j], ledger[k])
  BY DEF Sealed
<1>4. ASSUME NEW k \in DOMAIN ledger', ledger'[k].type = "buy", ledger'[k].ep = e
      PROVE  Later(ledger'[j], ledger'[k])
  <2>1. k \in DOMAIN ledger /\ ledger'[k] = ledger[k] /\ ledger'[j] = ledger[j]
    BY <1>2, <1>4
  <2> QED
    BY <1>3, <1>4, <2>1
<1> QED
  BY <1>2, <1>3, <1>4 DEF Sealed

\* A new leg that comes after every purchase seals the episode.
LEMMA SealedBy ==
  ASSUME TypeInv, NEW p, PlanTyped(p), Commits(p), NEW k \in DOMAIN p.acts, NEW e, p.acts[k].ep = e,
         \A j \in DOMAIN p.acts : p.acts[j].type # "buy",
         \A j \in DOMAIN ledger : ledger[j].type = "buy" /\ ledger[j].ep = e => ledger[j].at <= p.acts[k].at
  PROVE  Sealed(ledger', e)
<1>1. p.acts \in Seq(Activities) /\ ledger \in Seq(Activities) /\ ledger' = ledger \o p.acts
  BY PlanParts DEF TypeInv, Commits
<1>2. /\ \A j \in DOMAIN p.acts : Len(ledger) + j \in DOMAIN ledger' /\ ledger'[Len(ledger) + j] = p.acts[j]
      /\ \A j \in DOMAIN ledger' :
           \/ j \in DOMAIN ledger /\ ledger'[j] = ledger[j]
           \/ \E m \in DOMAIN p.acts : j = Len(ledger) + m /\ ledger'[j] = p.acts[m]
  BY <1>1, Recorded
<1>3. PICK n \in DOMAIN ledger' : ledger'[n] = p.acts[k]
  BY <1>2
<1>4. ASSUME NEW j \in DOMAIN ledger', ledger'[j].type = "buy", ledger'[j].ep = e
      PROVE  Later(ledger'[n], ledger'[j])
  <2>1. j \in DOMAIN ledger /\ ledger'[j] = ledger[j]
    BY <1>2, <1>4
  <2>2. ledger[j].at <= p.acts[k].at
    BY <1>4, <2>1
  <2>3. ledger[j].created \in Nat /\ ledger[j].created < Now /\ ledger[j].at \in Nat /\ p.acts[k].created = Now /\ Now \in Nat
        /\ p.acts[k].at \in Nat
    BY <2>1, LegDates
  <2> QED
    BY <1>3, <2>1, <2>2, <2>3 DEF Later
<1> QED
  BY <1>3, <1>4 DEF Sealed

\* A commit that does not both buy and sell.
LEMMA SalesStayApart ==
  ASSUME TypeInv, NEW p, PlanTyped(p), Commits(p), SalesApart(ledger),
         (\A k \in DOMAIN p.acts : p.acts[k].type # "buy") \/ (\A k \in DOMAIN p.acts : p.acts[k].type # "sell")
  PROVE  SalesApart(ledger')
<1>1. p.acts \in Seq(Activities) /\ ledger \in Seq(Activities) /\ ledger' = ledger \o p.acts
  BY PlanParts DEF TypeInv, Commits
<1>2. \A j \in DOMAIN ledger' :
        \/ j \in DOMAIN ledger /\ ledger'[j] = ledger[j]
        \/ \E k \in DOMAIN p.acts : j = Len(ledger) + k /\ ledger'[j] = p.acts[k]
  BY <1>1, Recorded
<1>3. ASSUME NEW j \in DOMAIN ledger', NEW k \in DOMAIN ledger', ledger'[j].type = "sell", ledger'[k].type = "buy"
      PROVE  ledger'[j].created # ledger'[k].created
  <2>1. CASE j \in DOMAIN ledger /\ ledger'[j] = ledger[j] /\ k \in DOMAIN ledger /\ ledger'[k] = ledger[k]
    BY <1>3, <2>1 DEF SalesApart
  <2>2. CASE j \in DOMAIN ledger /\ ledger'[j] = ledger[j] /\ \E m \in DOMAIN p.acts : ledger'[k] = p.acts[m]
    <3>1. ledger[j].created \in Nat /\ ledger[j].created < Now /\ ledger'[k].created = Now /\ Now \in Nat
      BY <2>2, LegDates
    <3> QED
      BY <2>2, <3>1
  <2>3. CASE k \in DOMAIN ledger /\ ledger'[k] = ledger[k] /\ \E m \in DOMAIN p.acts : ledger'[j] = p.acts[m]
    <3>1. ledger[k].created \in Nat /\ ledger[k].created < Now /\ ledger'[j].created = Now /\ Now \in Nat
      BY <2>3, LegDates
    <3> QED
      BY <2>3, <3>1
  <2> QED
    BY <1>2, <1>3, <2>1, <2>2, <2>3
<1> QED
  BY <1>3 DEF SalesApart

\* A plan that only buys keeps closed episodes sealed: what it buys is open.
LEMMA BuyingSealed ==
  ASSUME TypeInv, ClosedInv, NEW p, PlanTyped(p), Commits(p), Buying(p)
  PROVE  ClosedInv'
<1>1. position' = p.pos
  BY DEF Commits
<1>2. SalesApart(ledger)'
  <2>1. SalesApart(ledger')
    BY SalesStayApart DEF Buying, ClosedInv
  <2> QED
    BY <2>1 DEF SalesApart
<1>3. ASSUME NEW e \in DOMAIN p.pos, p.pos[e].status = "closed"
      PROVE  Sealed(ledger', e)
  <2>1. e \in DOMAIN position /\ position[e].status = "closed"
    BY <1>3 DEF Buying
  <2>2. Sealed(ledger, e)
    BY <2>1 DEF ClosedInv
  <2>3. \A k \in DOMAIN p.acts : ~(p.acts[k].type = "buy" /\ p.acts[k].ep = e)
    BY <1>3 DEF Buying, OpenIds
  <2> QED
    BY <2>2, <2>3, SealedKept
<1> QED
  BY <1>1, <1>2, <1>3 DEF ClosedInv, Sealed

\* A plan that buys nothing seals what it closes with the leg that closes it.
LEMMA ClosingSealed ==
  ASSUME TypeInv, ClosedInv, NEW p, PlanTyped(p), Commits(p), Closing(p)
  PROVE  ClosedInv'
<1>1. position' = p.pos
  BY DEF Commits
<1>2. SalesApart(ledger)'
  <2>1. SalesApart(ledger')
    BY SalesStayApart DEF Closing, ClosedInv
  <2> QED
    BY <2>1 DEF SalesApart
<1>3. ASSUME NEW e \in DOMAIN p.pos, p.pos[e].status = "closed"
      PROVE  Sealed(ledger', e)
  <2>0. \A k \in DOMAIN p.acts : p.acts[k].type # "buy"
    BY DEF Closing
  <2>1. CASE e \in DOMAIN position /\ position[e].status = "closed"
    <3>1. Sealed(ledger, e)
      BY <2>1 DEF ClosedInv
    <3> QED
      BY <2>0, <3>1, SealedKept
  <2>2. CASE \E k \in DOMAIN p.acts : p.acts[k].ep = e /\ p.acts[k].at = Now
    <3>1. PICK k \in DOMAIN p.acts : p.acts[k].ep = e /\ p.acts[k].at = Now
      BY <2>2
    <3>2. \A j \in DOMAIN ledger : ledger[j].at <= p.acts[k].at
      <4> TAKE j \in DOMAIN ledger
      <4>1. ledger[j].at \in Nat /\ ledger[j].at < Now /\ Now \in Nat
        BY LegDates
      <4> QED
        BY <3>1, <4>1
    <3> QED
      BY <2>0, <3>1, <3>2, SealedBy
  <2> QED
    BY <1>3, <2>1, <2>2 DEF Closing
<1> QED
  BY <1>1, <1>2, <1>3 DEF ClosedInv, Sealed

\* The correction of a purchase hits an open episode: in a sealed one the purchase is
\* not the last event, so validateCorrection refuses it.
LEMMA BuyCorrectedSealed ==
  ASSUME TypeInv, ClosedInv, NEW p, PlanTyped(p), Commits(p), BuyCorrected(p)
  PROVE  /\ ClosedInv' /\ Accounted(p)
         /\ OpenIds(position) # {} /\ \E i \in OpenIds(position) : p.acts[1].ep = i /\ Len(p.acts) = 1
<1>1. PICK i \in DOMAIN ledger :
        /\ ledger[i].type = "buy" /\ validateCorrection(i) /\ Corrects(p, i)
        /\ ledger[i].ep \in DOMAIN position /\ position[ledger[i].ep].status # "deleted"
        /\ position[ledger[i].ep].status = "open" => Accounted(p)
        /\ \A j \in DOMAIN p.pos : j \in DOMAIN position /\ p.pos[j].status = position[j].status
  BY DEF BuyCorrected
<1> DEFINE e == ledger[i].ep  a == p.acts[1]
<1>2. position[e].status = "open" /\ e \in OpenIds(position)
  <2>1. position[e] \in Rows
    BY <1>1 DEF TypeInv
  <2>2. position[e].status \in {"open", "closed", "deleted"}
    BY <2>1 DEF Rows
  <2>3. position[e].status # "closed"
    BY <1>1, ClosedNotLast DEF validateCorrection
  <2> QED
    BY <1>1, <2>2, <2>3 DEF OpenIds
<1>3. p.acts = <<a>> /\ a.type = "buy" /\ a.ep = e
  BY <1>1 DEF Corrects
<1>4. Len(p.acts) = 1 /\ \A k \in DOMAIN p.acts : p.acts[k].type = "buy" /\ p.acts[k].ep = e
  <2> HIDE DEF a
  <2>1. Len(p.acts) = 1 /\ DOMAIN p.acts = {1} /\ p.acts[1] = a
    BY <1>3
  <2> QED
    BY <1>3, <2>1
<1>5. position' = p.pos
  BY DEF Commits
<1>6. SalesApart(ledger)'
  <2>1. \A k \in DOMAIN p.acts : p.acts[k].type # "sell"
    BY <1>4
  <2>2. SalesApart(ledger')
    BY <2>1, SalesStayApart DEF ClosedInv
  <2> QED
    BY <2>2 DEF SalesApart
<1>7. ASSUME NEW j \in DOMAIN p.pos, p.pos[j].status = "closed"
      PROVE  Sealed(ledger', j)
  <2>1. j \in DOMAIN position /\ position[j].status = "closed" /\ j # e
    BY <1>1, <1>2, <1>7
  <2>2. Sealed(ledger, j)
    BY <2>1 DEF ClosedInv
  <2> QED
    BY <1>4, <2>1, <2>2, SealedKept
<1>8. ClosedInv'
  BY <1>5, <1>6, <1>7 DEF ClosedInv, Sealed
<1> QED
  BY <1>1, <1>2, <1>3, <1>4, <1>8

\* The correction of a sale keeps the last event of the episode last.
LEMMA SaleCorrectedSealed ==
  ASSUME TypeInv, ClosedInv, NEW p, PlanTyped(p), Commits(p), SaleCorrected(p)
  PROVE  ClosedInv'
<1>1. PICK i \in DOMAIN ledger :
        /\ ledger[i].type = "sell" /\ validateCorrection(i) /\ Corrects(p, i)
        /\ \A j \in DOMAIN p.pos : j \in DOMAIN position /\ (j # ledger[i].ep => p.pos[j] = position[j])
  BY DEF SaleCorrected
<1> DEFINE e == ledger[i].ep  a == p.acts[1]
<1>3. p.acts = <<a>> /\ a.type = "sell" /\ a.ep = e /\ a.at = ledger[i].at
  BY <1>1 DEF Corrects
<1>4. 1 \in DOMAIN p.acts /\ \A k \in DOMAIN p.acts : p.acts[k].type = "sell"
  <2> HIDE DEF a
  <2>1. DOMAIN p.acts = {1} /\ p.acts[1] = a
    BY <1>3
  <2> QED
    BY <1>3, <2>1
<1>5. position' = p.pos
  BY DEF Commits
<1>6. SalesApart(ledger)'
  <2>1. \A k \in DOMAIN p.acts : p.acts[k].type # "buy"
    BY <1>4
  <2>2. SalesApart(ledger')
    BY <2>1, SalesStayApart DEF ClosedInv
  <2> QED
    BY <2>2 DEF SalesApart
<1>7. \A j \in DOMAIN ledger : ledger[j].type = "buy" /\ ledger[j].ep = e => ledger[j].at <= a.at
  <2> TAKE j \in DOMAIN ledger
  <2>1. ledger[j].type = "buy" => ledger[j].created # ledger[i].created /\ j # i
    BY <1>1 DEF ClosedInv, SalesApart
  <2> QED
    BY <1>1, <1>3, <2>1 DEF validateCorrection, isLastEpisodeEvent
<1>8. ASSUME NEW j \in DOMAIN p.pos, p.pos[j].status = "closed"
      PROVE  Sealed(ledger', j)
  <2>1. CASE j = e
    <3> HIDE DEF a, e
    <3>1. p.acts[1].ep = j /\ \A k \in DOMAIN ledger : ledger[k].type = "buy" /\ ledger[k].ep = j => ledger[k].at <= p.acts[1].at
      BY <1>3, <1>7, <2>1 DEF a
    <3>2. \A k \in DOMAIN p.acts : p.acts[k].type # "buy"
      BY <1>4
    <3> QED
      BY <1>4, <3>1, <3>2, SealedBy
  <2>2. CASE j # e
    <3>1. j \in DOMAIN position /\ position[j].status = "closed"
      BY <1>1, <1>8, <2>2
    <3>2. Sealed(ledger, j)
      BY <3>1 DEF ClosedInv
    <3> QED
      BY <1>4, <3>2, SealedKept
  <2> QED
    BY <2>1, <2>2
<1> QED
  BY <1>5, <1>6, <1>8 DEF ClosedInv, Sealed

\* It holds of an empty portfolio.
LEMMA ClosedInit == Init => ClosedInv
BY DEF Init, ClosedInv, SalesApart

\* Every step keeps it.
LEMMA ClosedStep == LedgerInv /\ ClosedInv /\ [Next]_vars => ClosedInv'
<1> SUFFICES ASSUME LedgerInv, ClosedInv, [Next]_vars
             PROVE  ClosedInv'
  OBVIOUS
<1>0. TypeInv /\ Zero \preceq cash
  BY DEF LedgerInv
<1>1. CASE Does
  <2>0. PICK kind \in Kinds : \E p : applyLocked(kind, p) /\ Facts(kind, p)
    BY <1>1 DEF Does
  <2>1. PICK p : applyLocked(kind, p) /\ Facts(kind, p)
    BY <2>0
  <2>2. Commits(p) /\ PlanTyped(p)
    BY <2>1, Committed DEF Facts, PlanFacts
  <2>3. CASE kind \notin TradeCorrections
    BY <1>0, <2>1, <2>2, <2>3, BuyingSealed, ClosingSealed DEF Facts
  <2>4. CASE kind = "correct_buy"
    BY <1>0, <2>1, <2>2, <2>4, BuyCorrectedSealed DEF Facts
  <2>5. CASE kind = "correct_sell"
    BY <1>0, <2>1, <2>2, <2>5, SaleCorrectedSealed DEF Facts
  <2> QED
    BY <2>3, <2>4, <2>5 DEF TradeCorrections
<1>2. CASE Background \/ UNCHANGED vars
  <2>1. ledger' = ledger /\ position' = position
    BY <1>2 DEF Background, EnsureRankedEpoch, TakeSnapshot, SetAutoFundPurchases, MovePrice, vars
  <2> QED
    BY <2>1 DEF ClosedInv, Sealed, SalesApart
<1> QED
  BY <1>0, <1>1, <1>2, Steps

-----------------------------------------------------------------------------
(* Corrected purchases are held; what is held is what was gained *)

\* Only a mutation moves the version.
LEMMA VersionsMove ==
  ASSUME LedgerInv, [Next]_vars, version' # version
  PROVE  Does
<1>1. ASSUME Background \/ UNCHANGED vars
      PROVE  FALSE
  BY <1>1 DEF Background, EnsureRankedEpoch, TakeSnapshot, SetAutoFundPurchases, MovePrice, vars
<1> QED
  BY <1>1, Steps DEF LedgerInv

\* The step of the correction of a purchase finds its episode open.
LEMMA HeldStep ==
  ASSUME LedgerInv, ClosedInv, [Next]_vars, version' # version, audit'.kind = "correct_buy"
  PROVE  position[ledger'[Len(ledger')].ep].status = "open"
<1>0. TypeInv
  BY DEF LedgerInv
<1>1. PICK kind \in Kinds : \E p : applyLocked(kind, p) /\ Facts(kind, p)
  BY VersionsMove DEF Does
<1>2. PICK p : applyLocked(kind, p) /\ Facts(kind, p)
  BY <1>1
<1>3. kind = "correct_buy" /\ Commits(p) /\ PlanTyped(p)
  BY <1>2, Committed DEF applyLocked, Facts, PlanFacts
<1>4. BuyCorrected(p)
  BY <1>2, <1>3 DEF Facts
<1>5. \E i \in OpenIds(position) : p.acts[1].ep = i /\ Len(p.acts) = 1
  BY <1>0, <1>3, <1>4, BuyCorrectedSealed
<1>6. p.acts \in Seq(Activities) /\ ledger \in Seq(Activities) /\ ledger' = ledger \o p.acts
  BY <1>0, <1>3, PlanParts DEF TypeInv, Commits
<1>7. Len(ledger') = Len(ledger) + Len(p.acts) /\ \A k \in DOMAIN p.acts : ledger'[Len(ledger) + k] = p.acts[k]
  BY <1>6, Recorded
<1>8. 1 \in DOMAIN p.acts
  BY <1>5, <1>6
<1>9. ledger'[Len(ledger')] = p.acts[1]
  BY <1>5, <1>7, <1>8
<1> QED
  BY <1>5, <1>9 DEF OpenIds

\* A purchase is only corrected while its position is open, though findPositionByID looks
\* at closed rows too and planCorrectBuy never asks: the last leg of a closed episode is
\* never a purchase (isLastEpisodeEvent).
THEOREM CorrectedPurchasesAreHeld == Spec => PurchasesCorrectedWhileHeld
<1>1. LedgerInv /\ ClosedInv /\ [Next]_vars
        => [version' # version /\ audit'.kind = "correct_buy" => position[ledger'[Len(ledger')].ep].status = "open"]_vars
  BY HeldStep
<1> QED
  BY <1>1, ClosedInit, ClosedStep, LedgerAlways, PTL DEF Spec, PurchasesCorrectedWhileHeld

-----------------------------------------------------------------------------

\* A book worth at cost what the ledger says was gained, as long as no sale was corrected.
SalesStand == \A i \in DOMAIN ledger : ledger[i].type = "sell" => ledger[i].of = 0

\* The cash and the cost of what is held.
Held == cash ++ BasisOf(position, OpenIds(position))

\* The invariant: while no sale was corrected, what is held is the sum of the gains.
GainsExplain == SalesStand => Held = Total(Along(gainOf, ledger))

\* It holds of an empty portfolio.
LEMMA GainsInit == Init => GainsExplain
<1> SUFFICES ASSUME Init
             PROVE  Held = Total(Along(gainOf, ledger))
  BY DEF GainsExplain
<1>1. Along(gainOf, ledger) = <<>>
  BY DEF Init, Along
<1>2. BasisOf(position, OpenIds(position)) = Total(<<>>)
  <2>1. [i \in DOMAIN position |-> IF i \in OpenIds(position) THEN Basis(position[i]) ELSE Zero] = <<>>
    BY DEF Init
  <2> QED
    BY <2>1 DEF BasisOf
<1> QED
  BY <1>1, <1>2, TotalEmpty, ZeroIsRat, AddZero DEF Init, Held

\* What is held is what the plan that does nothing leaves.
LEMMA HeldIsEquity == Held = Equity(Book)
BY DEF Held, Equity, Book

\* Every step keeps it.
LEMMA GainsStep ==
  ASSUME Kinds \cap Reshaping = {}
  PROVE  LedgerInv /\ ClosedInv /\ GainsExplain /\ [Next]_vars => GainsExplain'
<1> SUFFICES ASSUME LedgerInv, ClosedInv, GainsExplain, [Next]_vars, SalesStand'
             PROVE  Held' = Total(Along(gainOf, ledger))'
  BY DEF GainsExplain
<1>0. TypeInv /\ Zero \preceq cash
  BY DEF LedgerInv
<1>1. CASE Does
  <2>0. PICK kind \in Kinds : \E p : applyLocked(kind, p) /\ Facts(kind, p)
    BY <1>1 DEF Does
  <2>1. PICK p : applyLocked(kind, p) /\ Facts(kind, p)
    BY <2>0
  <2>2. Commits(p) /\ PlanTyped(p) /\ PlanFacts(kind, p)
    BY <2>1, Committed DEF Facts, PlanFacts
  <2>3. p.acts \in Seq(Activities) /\ ledger \in Seq(Activities) /\ ledger' = ledger \o p.acts
    BY <1>0, <2>2, PlanParts DEF TypeInv, Commits
  <2>4. /\ \A j \in DOMAIN ledger : j \in DOMAIN ledger' /\ ledger'[j] = ledger[j]
        /\ \A k \in DOMAIN p.acts : Len(ledger) + k \in DOMAIN ledger' /\ ledger'[Len(ledger) + k] = p.acts[k]
    BY <2>3, Recorded
  <2>5. SalesStand
    BY <2>4 DEF SalesStand
  <2>6. kind # "correct_sell"
    <3> SUFFICES ASSUME kind = "correct_sell"
                 PROVE  FALSE
      OBVIOUS
    <3>1. PICK i \in DOMAIN ledger : ledger[i].type = "sell" /\ Corrects(p, i)
      BY <2>1 DEF Facts, SaleCorrected
    <3> DEFINE a == p.acts[1]
    <3>2. p.acts = <<a>> /\ a.type = "sell" /\ a.of = i /\ i # 0
      BY <2>3, <3>1 DEF Corrects
    <3> HIDE DEF a
    <3>3. 1 \in DOMAIN p.acts /\ p.acts[1] = a
      BY <3>2
    <3>4. PICK n \in DOMAIN ledger' : ledger'[n] = a
      BY <2>4, <3>3
    <3> QED
      BY <3>2, <3>4 DEF SalesStand
  <2>7. Accounted(p) /\ p.open = OpenIds(p.pos)
    <3>1. CASE kind = "correct_buy"
      <4>1. BuyCorrected(p)
        BY <2>1, <3>1 DEF Facts
      <4> QED
        BY <1>0, <2>2, <3>1, <4>1, BuyCorrectedSealed DEF PlanFacts
    <3>2. CASE kind # "correct_buy"
      <4>1. kind \notin TradeCorrections /\ kind \notin Reshaping
        BY <2>6, <3>2 DEF TradeCorrections
      <4> QED
        BY <2>2, <4>1 DEF PlanFacts, Kept, BookTyped
    <3> QED
      BY <3>1, <3>2
  <2>8. Held' = Equity(p)
    <3>1. position' = p.pos /\ cash' = p.cash
      BY <2>2 DEF Commits
    <3>2. Held' = cash' ++ BasisOf(position', OpenIds(position'))
      BY DEF Held, BasisOf, OpenIds
    <3> QED
      BY <2>7, <3>1, <3>2 DEF Equity
  <2>9. Total(Along(gainOf, ledger))' = Total(Along(gainOf, ledger)) ++ Total(Along(gainOf, p.acts))
    <3>1. Total(Along(gainOf, ledger \o p.acts)) = Total(Along(gainOf, ledger)) ++ Total(Along(gainOf, p.acts))
      BY <2>3, Readings, LegSums
    <3>2. Total(Along(gainOf, ledger))' = Total(Along(gainOf, ledger'))
      BY DEF Total, Along
    <3> QED
      BY <2>3, <3>1, <3>2
  <2> QED
    BY <2>5, <2>7, <2>8, <2>9, HeldIsEquity DEF Accounted, GainsExplain
<1>2. CASE Background \/ UNCHANGED vars
  <2>1. ledger' = ledger /\ position' = position /\ cash' = cash
    BY <1>2 DEF Background, EnsureRankedEpoch, TakeSnapshot, SetAutoFundPurchases, MovePrice, vars
  <2> QED
    BY <2>1 DEF GainsExplain, SalesStand, Held, BasisOf, OpenIds, Total, Along
<1> QED
  BY <1>0, <1>1, <1>2, Steps

-----------------------------------------------------------------------------
(* The performance summary adds up *)

\* The gross amounts of the legs of some types, in ledger order.
GrossOf(l, types) == [i \in DOMAIN l |-> IF l[i].type \in types THEN l[i].gross ELSE Zero]
\* The realized results of the legs of some types.
RealizedOf(l, types) == [i \in DOMAIN l |-> IF l[i].type \in types THEN l[i].realized ELSE Zero]

\* They are values.
LEMMA PartsTyped ==
  ASSUME NEW l \in Seq(Activities), NEW types
  PROVE  /\ GrossOf(l, types) \in Seq(Rats) /\ Len(GrossOf(l, types)) = Len(l)
         /\ RealizedOf(l, types) \in Seq(Rats) /\ Len(RealizedOf(l, types)) = Len(l)
         /\ \A i \in 1..Len(l) : GrossOf(l, types)[i] = (IF l[i].type \in types THEN l[i].gross ELSE Zero)
                                 /\ RealizedOf(l, types)[i] = (IF l[i].type \in types THEN l[i].realized ELSE Zero)
<1> DEFINE g == GrossOf(l, types)  r == RealizedOf(l, types)
<1>1. Len(l) \in Nat /\ DOMAIN l = 1..Len(l)
  OBVIOUS
<1>2. DOMAIN g = 1..Len(l) /\ g = [i \in 1..Len(l) |-> g[i]] /\ DOMAIN r = 1..Len(l) /\ r = [i \in 1..Len(l) |-> r[i]]
  BY <1>1 DEF GrossOf, RealizedOf
<1>3. \A i \in 1..Len(l) : g[i] = (IF l[i].type \in types THEN l[i].gross ELSE Zero)
                           /\ r[i] = (IF l[i].type \in types THEN l[i].realized ELSE Zero)
  BY <1>1 DEF GrossOf, RealizedOf
<1>4. \A i \in 1..Len(l) : l[i].gross \in Rats /\ l[i].realized \in Rats
  <2> TAKE i \in 1..Len(l)
  <2>1. l[i] \in Activities
    BY <1>1
  <2> QED
    BY <2>1 DEF Activities
<1> HIDE DEF g, r
<1>5. \A i \in 1..Len(l) : g[i] \in Rats /\ r[i] \in Rats
  BY <1>3, <1>4, ZeroIsRat
<1>6. g \in Seq(Rats) /\ Len(g) = Len(l) /\ r \in Seq(Rats) /\ Len(r) = Len(l)
  BY <1>1, <1>2, <1>5, AllRats
<1> QED
  BY <1>3, <1>6 DEF g, r

\* A value taken away and added.
LEMMA Cancels ==
  ASSUME NEW x \in Rats
  PROVE  (Zero -- x) ++ x = Zero /\ Zero -- x \in Rats
<1>1. PICK d \in Nat \ {0}, a \in Int, b \in Int : Stands(x, a, d) /\ Stands(Zero, b, d)
  BY Common2, ZeroIsRat
<1>2. Stands(Zero, 0, d)
  BY ZeroIsRat
<1>3. Stands(Zero -- x, 0 - a, d)
  BY <1>1, <1>2, SameDenominator
<1>4. Stands((Zero -- x) ++ x, (0 - a) + a, d)
  BY <1>1, <1>3, SameDenominator
<1>5. (0 - a) + a = 0
  OBVIOUS
<1>6. (Zero -- x) ++ x = Zero
  BY <1>2, <1>4, <1>5, SameDenominatorEqual
<1> QED
  BY <1>6, ZeroIsRat, RatClosed

\* The sum of the gains, taken apart the way summarizeLedger does.
LEMMA GainParts ==
  ASSUME NEW l \in Seq(Activities), \A i \in 1..Len(l) : l[i].type = "return_of_capital" => l[i].gross = l[i].basis
  PROVE  (Total(Along(gainOf, l)) ++ Total(GrossOf(l, {"withdrawal"}))) ++ Total(GrossOf(l, {"management_fee"}))
           = (Total(GrossOf(l, {"deposit"})) ++ Total(RealizedOf(l, {"sell", "write_off"})))
             ++ Total(GrossOf(l, {"cash_dividend", "reinvested_dividend"}))
<1> DEFINE n == Len(l)
           G == Along(gainOf, l)  W == GrossOf(l, {"withdrawal"})  F == GrossOf(l, {"management_fee"})
           D == GrossOf(l, {"deposit"})  R == RealizedOf(l, {"sell", "write_off"})
           I == GrossOf(l, {"cash_dividend", "reinvested_dividend"})
<1>1. n \in Nat /\ DOMAIN l = 1..n
  OBVIOUS
<1>2. \A i \in 1..n : l[i] \in Activities /\ l[i].gross \in Rats /\ l[i].realized \in Rats /\ l[i].basis \in Rats
  <2> TAKE i \in 1..n
  <2>1. l[i] \in Activities
    BY <1>1
  <2> QED
    BY <2>1 DEF Activities
<1>3. G \in Seq(Rats) /\ Len(G) = n /\ \A i \in 1..n : G[i] = GainOf(l[i])
  <2>1. G \in Seq(Rats)
    BY Readings, LegSums
  <2>2. DOMAIN G = 1..n /\ \A i \in 1..n : G[i] = gainOf[l[i]]
    BY <1>1 DEF Along
  <2> HIDE DEF G, n
  <2>3. Len(G) = n
    BY <1>1, <2>1, <2>2
  <2> QED
    BY <1>2, <2>1, <2>2, <2>3 DEF gainOf
<1>4. /\ W \in Seq(Rats) /\ Len(W) = n /\ F \in Seq(Rats) /\ Len(F) = n /\ D \in Seq(Rats) /\ Len(D) = n
      /\ R \in Seq(Rats) /\ Len(R) = n /\ I \in Seq(Rats) /\ Len(I) = n
  BY PartsTyped
<1>5. \A i \in 1..n : /\ W[i] = IF l[i].type = "withdrawal" THEN l[i].gross ELSE Zero
                      /\ F[i] = IF l[i].type = "management_fee" THEN l[i].gross ELSE Zero
                      /\ D[i] = IF l[i].type = "deposit" THEN l[i].gross ELSE Zero
                      /\ R[i] = IF l[i].type \in {"sell", "write_off"} THEN l[i].realized ELSE Zero
                      /\ I[i] = IF l[i].type \in {"cash_dividend", "reinvested_dividend"} THEN l[i].gross ELSE Zero
  BY <1>1 DEF GrossOf, RealizedOf
<1> HIDE DEF n, G, W, F, D, R, I
<1>6. ASSUME NEW i \in 1..n
      PROVE  (G[i] ++ W[i]) ++ F[i] = (D[i] ++ R[i]) ++ I[i]
  <2> DEFINE a == l[i]  g == l[i].gross  r == l[i].realized
  <2>1. g \in Rats /\ r \in Rats /\ G[i] = GainOf(a) /\ (a.type = "return_of_capital" => g = a.basis)
    BY <1>2, <1>3 DEF n
  <2>2. /\ W[i] = IF a.type = "withdrawal" THEN g ELSE Zero
        /\ F[i] = IF a.type = "management_fee" THEN g ELSE Zero
        /\ D[i] = IF a.type = "deposit" THEN g ELSE Zero
        /\ R[i] = IF a.type \in {"sell", "write_off"} THEN r ELSE Zero
        /\ I[i] = IF a.type \in {"cash_dividend", "reinvested_dividend"} THEN g ELSE Zero
    BY <1>5
  <2>3. GainOf(a) = CASE a.type \in {"deposit", "cash_dividend", "reinvested_dividend"} -> g
                      [] a.type \in {"withdrawal", "management_fee"} -> Zero -- g
                      [] a.type \in {"sell", "write_off"} -> r
                      [] a.type = "return_of_capital" -> g -- a.basis
                      [] OTHER -> Zero
    BY DEF GainOf
  <2>4. /\ (Zero -- g) ++ g = Zero /\ Zero -- g \in Rats /\ Zero \in Rats
        /\ g ++ Zero = g /\ Zero ++ g = g /\ r ++ Zero = r /\ Zero ++ r = r /\ Zero ++ Zero = Zero
        /\ (Zero -- g) ++ Zero = Zero -- g /\ g -- g = Zero
    BY <2>1, Cancels, ZeroIsRat, AddZero
  <2> HIDE DEF a, g, r
  <2>5. CASE a.type = "deposit"
    BY <2>1, <2>2, <2>3, <2>4, <2>5
  <2>6. CASE a.type \in {"cash_dividend", "reinvested_dividend"}
    BY <2>1, <2>2, <2>3, <2>4, <2>6
  <2>7. CASE a.type = "withdrawal"
    BY <2>1, <2>2, <2>3, <2>4, <2>7
  <2>8. CASE a.type = "management_fee"
    BY <2>1, <2>2, <2>3, <2>4, <2>8
  <2>9. CASE a.type \in {"sell", "write_off"}
    BY <2>1, <2>2, <2>3, <2>4, <2>9
  <2>10. CASE a.type = "return_of_capital"
    <3>1. G[i] = Zero
      BY <2>1, <2>3, <2>4, <2>10
    <3>2. W[i] = Zero /\ F[i] = Zero /\ D[i] = Zero /\ R[i] = Zero /\ I[i] = Zero
      BY <2>2, <2>10
    <3> QED
      BY <2>4, <3>1, <3>2
  <2>11. CASE a.type \notin {"deposit", "cash_dividend", "reinvested_dividend", "withdrawal", "management_fee",
                             "sell", "write_off", "return_of_capital"}
    <3>1. G[i] = Zero
      BY <2>1, <2>3, <2>11
    <3>2. W[i] = Zero /\ F[i] = Zero /\ D[i] = Zero /\ R[i] = Zero /\ I[i] = Zero
      BY <2>2, <2>11
    <3> QED
      BY <2>4, <3>1, <3>2
  <2> QED
    BY <2>5, <2>6, <2>7, <2>8, <2>9, <2>10, <2>11
<1> DEFINE X == [i \in 1..n |-> G[i] ++ W[i]]  Y == [i \in 1..n |-> X[i] ++ F[i]]  Z == [i \in 1..n |-> D[i] ++ R[i]]
<1>7. \A i \in 1..n : G[i] \in Rats /\ W[i] \in Rats /\ F[i] \in Rats /\ D[i] \in Rats /\ R[i] \in Rats /\ I[i] \in Rats
  BY <1>3, <1>4
<1>8. \A i \in 1..n : X[i] \in Rats /\ Z[i] \in Rats
  BY <1>7, RatClosed
<1>9. \A i \in 1..n : Y[i] \in Rats
  BY <1>7, <1>8, RatClosed
<1>10. X \in Seq(Rats) /\ Len(X) = n /\ Y \in Seq(Rats) /\ Len(Y) = n /\ Z \in Seq(Rats) /\ Len(Z) = n
  BY <1>1, <1>8, <1>9, AllRats
<1>11. \A i \in 1..n : X[i] = G[i] ++ W[i] /\ Y[i] = X[i] ++ F[i] /\ Z[i] = D[i] ++ R[i] /\ Y[i] = Z[i] ++ I[i]
  BY <1>6
<1> HIDE DEF X, Y, Z
<1>16. /\ Len(W) = Len(G) /\ Len(X) = Len(G) /\ \A i \in 1..Len(G) : X[i] = G[i] ++ W[i]
       /\ Len(F) = Len(X) /\ Len(Y) = Len(X) /\ \A i \in 1..Len(X) : Y[i] = X[i] ++ F[i]
       /\ Len(R) = Len(D) /\ Len(Z) = Len(D) /\ \A i \in 1..Len(D) : Z[i] = D[i] ++ R[i]
       /\ Len(I) = Len(Z) /\ Len(Y) = Len(Z) /\ \A i \in 1..Len(Z) : Y[i] = Z[i] ++ I[i]
  BY <1>3, <1>4, <1>10, <1>11
<1>12. Total(X) = Total(G) ++ Total(W)
  BY <1>3, <1>4, <1>10, <1>16, TotalPointwise
<1>13. Total(Y) = Total(X) ++ Total(F)
  BY <1>4, <1>10, <1>16, TotalPointwise
<1>14. Total(Z) = Total(D) ++ Total(R)
  BY <1>4, <1>10, <1>16, TotalPointwise
<1>15. Total(Y) = Total(Z) ++ Total(I)
  BY <1>4, <1>10, <1>16, TotalPointwise
<1> QED
  BY <1>12, <1>13, <1>14, <1>15 DEF G, W, F, D, R, I

\* If cash, cost bases, withdrawals and fees are the deposits, realized results and
\* income, then the total gain is the unrealized and realized results and income, less fees.
PartsAgree(c, b, v, w, d, r, i, f) ==
  ((c ++ b) ++ w) ++ f = (d ++ r) ++ i => ((c ++ v) ++ w) -- d = (((v -- b) ++ r) ++ i) -- f

\* Which holds of any eight amounts, by arithmetic over a common denominator.
LEMMA PartsBalance ==
  ASSUME NEW c \in Rats, NEW b \in Rats, NEW v \in Rats, NEW w \in Rats,
         NEW d \in Rats, NEW r \in Rats, NEW i \in Rats, NEW f \in Rats
  PROVE  PartsAgree(c, b, v, w, d, r, i, f)
<1> SUFFICES ASSUME ((c ++ b) ++ w) ++ f = (d ++ r) ++ i
             PROVE  ((c ++ v) ++ w) -- d = (((v -- b) ++ r) ++ i) -- f
  BY DEF PartsAgree
<1>1. PICK k \in Int \ {0}, a1 \in Int, a2 \in Int, a3 \in Int, a4 \in Int, b1 \in Int, b2 \in Int, b3 \in Int, b4 \in Int :
        /\ Stands(c, a1, k) /\ Stands(b, a2, k) /\ Stands(v, a3, k) /\ Stands(w, a4, k)
        /\ Stands(d, b1, k) /\ Stands(r, b2, k) /\ Stands(i, b3, k) /\ Stands(f, b4, k)
  <2>1. PICK e \in Nat \ {0}, m1 \in Int, m2 \in Int, m3 \in Int, m4 \in Int :
          Stands(c, m1, e) /\ Stands(b, m2, e) /\ Stands(v, m3, e) /\ Stands(w, m4, e)
    BY Common4
  <2>2. PICK g \in Nat \ {0}, n1 \in Int, n2 \in Int, n3 \in Int, n4 \in Int :
          Stands(d, n1, g) /\ Stands(r, n2, g) /\ Stands(i, n3, g) /\ Stands(f, n4, g)
    BY Common4
  <2>3. e \in Int \ {0} /\ g \in Int \ {0} /\ e * g = g * e /\ e * g \in Int \ {0}
    BY <2>1, <2>2
  <2>4. Stands(c, m1 * g, e * g) /\ Stands(b, m2 * g, e * g) /\ Stands(v, m3 * g, e * g) /\ Stands(w, m4 * g, e * g)
    BY <2>1, <2>3, Rescale
  <2>5. Stands(d, n1 * e, g * e) /\ Stands(r, n2 * e, g * e) /\ Stands(i, n3 * e, g * e) /\ Stands(f, n4 * e, g * e)
    BY <2>2, <2>3, Rescale
  <2>6. /\ m1 * g \in Int /\ m2 * g \in Int /\ m3 * g \in Int /\ m4 * g \in Int
        /\ n1 * e \in Int /\ n2 * e \in Int /\ n3 * e \in Int /\ n4 * e \in Int
    BY <2>1, <2>2, <2>3
  <2> QED
    BY <2>3, <2>4, <2>5, <2>6
<1>2. /\ Stands(c, a1, k) /\ Stands(b, a2, k) /\ Stands(v, a3, k) /\ Stands(w, a4, k)
      /\ Stands(d, b1, k) /\ Stands(r, b2, k) /\ Stands(i, b3, k) /\ Stands(f, b4, k)
  BY <1>1
<1>3. Stands(c ++ b, a1 + a2, k) /\ Stands(d ++ r, b1 + b2, k) /\ Stands(c ++ v, a1 + a3, k) /\ Stands(v -- b, a3 - a2, k)
  BY <1>2, SameDenominator
<1>4. /\ Stands((c ++ b) ++ w, (a1 + a2) + a4, k) /\ Stands((d ++ r) ++ i, (b1 + b2) + b3, k)
      /\ Stands((c ++ v) ++ w, (a1 + a3) + a4, k) /\ Stands((v -- b) ++ r, (a3 - a2) + b2, k)
  BY <1>2, <1>3, SameDenominator
<1>5. /\ Stands(((c ++ b) ++ w) ++ f, ((a1 + a2) + a4) + b4, k)
      /\ Stands(((c ++ v) ++ w) -- d, ((a1 + a3) + a4) - b1, k)
      /\ Stands(((v -- b) ++ r) ++ i, ((a3 - a2) + b2) + b3, k)
  BY <1>2, <1>4, SameDenominator
<1>6. Stands((((v -- b) ++ r) ++ i) -- f, (((a3 - a2) + b2) + b3) - b4, k)
  BY <1>2, <1>5, SameDenominator
<1>7. ((a1 + a2) + a4) + b4 = (b1 + b2) + b3
  <2> DEFINE x == ((c ++ b) ++ w) ++ f  m == ((a1 + a2) + a4) + b4  n == (b1 + b2) + b3
  <2>1. Stands(x, m, k) /\ Stands(x, n, k) /\ m \in Int /\ n \in Int
    BY <1>4, <1>5
  <2> HIDE DEF x, m, n
  <2>2. x[1] * k = m * x[2] /\ x[1] * k = n * x[2] /\ x[2] > 0 /\ x[2] \in Int
    BY <2>1 DEF Stands, IsRat, Fraction
  <2>3. m * x[2] = n * x[2]
    BY <2>2
  <2>4. m = n
    <3> DEFINE y == x[2]
    <3>1. y \in Int /\ y > 0 /\ m * y = n * y
      BY <2>2, <2>3
    <3> HIDE DEF y
    <3> QED
      BY <2>1, <3>1
  <2> QED
    BY <2>4 DEF m, n
<1>8. ((a1 + a3) + a4) - b1 = (((a3 - a2) + b2) + b3) - b4
  BY <1>7
<1> QED
  BY <1>5, <1>6, <1>8, SameDenominatorEqual

\* So the parts of the performance summary add up.
LEMMA EconomicsFollow ==
  ASSUME LedgerInv, GainsExplain
  PROVE  EconomicIdentity
<1> SUFFICES ASSUME \A i \in DOMAIN ledger :
                      /\ ledger[i].type = "return_of_capital" => ledger[i].gross = ledger[i].basis
                      /\ ledger[i].type = "sell" => ledger[i].of = 0
             PROVE  TotalPnL = AttributedTotal
  BY DEF EconomicIdentity
<1>0. TypeInv
  BY DEF LedgerInv
<1>1. ledger \in Seq(Activities) /\ position \in Seq(Rows) /\ cash \in Rats
  BY <1>0 DEF TypeInv
<1>2. Held = Total(Along(gainOf, ledger))
  BY DEF GainsExplain, SalesStand
<1> DEFINE b == BasisOf(position, OpenIds(position))  v == ValueOpen(position, OpenIds(position), {})
           w == Total(GrossOf(ledger, {"withdrawal"}))  d == Total(GrossOf(ledger, {"deposit"}))
           r == Total(RealizedOf(ledger, {"sell", "write_off"}))
           i == Total(GrossOf(ledger, {"cash_dividend", "reinvested_dividend"}))
           f == Total(GrossOf(ledger, {"management_fee"}))
<1>3. ((cash ++ b) ++ w) ++ f = (d ++ r) ++ i
  <2>1. \A j \in 1..Len(ledger) : ledger[j].type = "return_of_capital" => ledger[j].gross = ledger[j].basis
    BY <1>1
  <2> QED
    BY <1>1, <1>2, <2>1, GainParts DEF Held
<1>4. b \in Rats /\ v \in Rats /\ w \in Rats /\ d \in Rats /\ r \in Rats /\ i \in Rats /\ f \in Rats
  BY <1>0, <1>1, BasisTyped, ValueFacts, PartsTyped, TotalIsRat
<1>5. TotalPnL = ((cash ++ v) ++ w) -- d
  BY DEF TotalPnL, Summary, BookValue, ValueTracked, LedgerSum, Gross, GrossOf
<1>6. AttributedTotal = (((v -- b) ++ r) ++ i) -- f
  BY DEF AttributedTotal, Summary, LedgerSum, Gross, Realized, GrossOf, RealizedOf, IncomeTypes, StandaloneFees
<1> HIDE DEF b, v, w, d, r, i, f
<1>7. cash \in Rats
  BY <1>1
<1>8. ((cash ++ v) ++ w) -- d = (((v -- b) ++ r) ++ i) -- f
  <2>1. PartsAgree(cash, b, v, w, d, r, i, f)
    BY <1>4, <1>7, PartsBalance
  <2> QED
    BY <1>3, <2>1 DEF PartsAgree
<1> QED
  BY <1>5, <1>6, <1>8

\* Net deposits, realized results, income and fees as summarizeLedger adds them up explain
\* all that is held, through every trade, distribution, corporate action and correction
\* of a purchase; the handlers that reshape the book by hand (add, resize, delete,
\* replace) record no leg and are excluded.
THEOREM PerformanceAddsUp ==
  ASSUME Kinds \cap Reshaping = {}
  PROVE  Spec => []EconomicIdentity
<1>1. LedgerInv /\ GainsExplain => EconomicIdentity
  BY EconomicsFollow
<1> QED
  BY <1>1, GainsInit, GainsStep, ClosedInit, ClosedStep, LedgerAlways, PTL DEF Spec


-----------------------------------------------------------------------------
(* The ranked index *)

\* The states of the ranked index, lowest terms included.
RankedStates == [status : {"none", Paused, Active}, checkpoint : Rats, segment : Rats, version : Nat]

\* Two values times a common one, each divided and multiplied by the other's.
LEMMA Scaled ==
  ASSUME NEW c \in Rats, NEW a \in Rats, NEW b \in Rats, NEW s \in Rats, s # Zero
  PROVE  ((c ** a) // s) ** b = ((c ** b) // s) ** a
<1> DEFINE c1 == c[1]  c2 == c[2]  a1 == a[1]  a2 == a[2]  b1 == b[1]  b2 == b[2]  s1 == s[1]  s2 == s[2]
<1>1. /\ Stands(c, c1, c2) /\ c1 \in Int /\ c2 \in Nat \ {0}
      /\ Stands(a, a1, a2) /\ a1 \in Int /\ a2 \in Nat \ {0}
      /\ Stands(b, b1, b2) /\ b1 \in Int /\ b2 \in Nat \ {0}
      /\ Stands(s, s1, s2) /\ s1 \in Int /\ s2 \in Nat \ {0} /\ s1 # 0
  BY RatStands, NonzeroNumerator
<1> HIDE DEF c1, c2, a1, a2, b1, b2, s1, s2
<1>2. Stands(c ** a, c1 * a1, c2 * a2) /\ Stands(c ** b, c1 * b1, c2 * b2)
  BY <1>1, ProductStands
<1>3. /\ Stands((c ** a) // s, (c1 * a1) * s2, (c2 * a2) * s1)
      /\ Stands((c ** b) // s, (c1 * b1) * s2, (c2 * b2) * s1)
  BY <1>1, <1>2, QuotientStands
<1>4. /\ Stands(((c ** a) // s) ** b, ((c1 * a1) * s2) * b1, ((c2 * a2) * s1) * b2)
      /\ Stands(((c ** b) // s) ** a, ((c1 * b1) * s2) * a1, ((c2 * b2) * s1) * a2)
  BY <1>1, <1>3, ProductStands
<1>5. ((c1 * a1) * s2) * b1 = ((c1 * b1) * s2) * a1
  BY <1>1
<1>6. ((c2 * a2) * s1) * b2 = ((c2 * b2) * s1) * a2
  BY <1>1
<1> QED
  BY <1>4, <1>5, <1>6, SameDenominatorEqual

\* A value over itself, and nothing of it.
LEMMA OverItself ==
  ASSUME NEW x \in Rats, NEW y \in Rats, y # Zero
  PROVE  (x ** y) // y = x /\ (x ** Zero) // y = Zero /\ x ** y = y ** x
<1> DEFINE a == x[1]  d == x[2]  b == y[1]  e == y[2]
<1>1. /\ Stands(x, a, d) /\ a \in Int /\ d \in Nat \ {0}
      /\ Stands(y, b, e) /\ b \in Int /\ e \in Nat \ {0} /\ b # 0
  BY RatStands, NonzeroNumerator
<1>2. Stands(Zero, 0, 1)
  BY ZeroIsRat
<1> HIDE DEF a, d, b, e
<1>3. Stands(x ** y, a * b, d * e) /\ Stands(y ** x, b * a, e * d) /\ Stands(x ** Zero, a * 0, d * 1)
  BY <1>1, <1>2, ProductStands
<1>4. Stands((x ** y) // y, (a * b) * e, (d * e) * b) /\ Stands((x ** Zero) // y, (a * 0) * e, (d * 1) * b)
  BY <1>1, <1>3, QuotientStands
<1>5. b * e \in Int \ {0} /\ (a * b) * e = a * (b * e) /\ (d * e) * b = d * (b * e)
  BY <1>1
<1>6. Stands(x, a * (b * e), d * (b * e))
  BY <1>1, <1>5, Rescale
<1>7. (x ** y) // y = x
  BY <1>4, <1>5, <1>6, SameDenominatorEqual
<1>8. (a * 0) * e = 0 /\ (d * 1) * b \in Int \ {0}
  BY <1>1
<1>9. Stands(Zero, 0, (d * 1) * b)
  BY <1>8, ZeroIsRat
<1>10. (x ** Zero) // y = Zero
  BY <1>4, <1>8, <1>9, SameDenominatorEqual
<1>11. a * b = b * a /\ d * e = e * d
  BY <1>1
<1>12. x ** y = y ** x
  BY <1>3, <1>11, SameDenominatorEqual
<1> QED
  BY <1>7, <1>10, <1>12

\* A live index is a value.
LEMMA LiveIsRat ==
  ASSUME NEW st \in RankedStates, NEW v \in Rats
  PROVE  CalculateCurrentIndex(st, v) \in Rats
<1>1. st.checkpoint \in Rats /\ st.segment \in Rats
  BY DEF RankedStates
<1>2. HasSegment(st) => st.segment # Zero
  BY <1>1, SignsOfRats DEF HasSegment
<1> QED
  BY <1>1, <1>2, RatClosed DEF CalculateCurrentIndex

\* A checkpoint is a state again; it starts from the index reached so far.
LEMMA CheckpointTyped ==
  ASSUME NEW st \in RankedStates, NEW b \in Rats, NEW a \in Rats, NEW ab \in BOOLEAN, NEW aa \in BOOLEAN
  PROVE  LET n == ApplyCheckpoint(st, b, ab, a, aa) IN
         /\ n \in RankedStates /\ (n.status = Active <=> aa)
         /\ n.checkpoint = CalculateIndexBeforeMutation(st, b, ab) /\ n.segment = IF aa THEN a ELSE Zero
<1>1. CalculateIndexBeforeMutation(st, b, ab) \in Rats
  BY LiveIsRat DEF CalculateIndexBeforeMutation, RankedStates
<1>2. st.version + 1 \in Nat
  BY DEF RankedStates
<1> QED
  BY <1>1, <1>2, ZeroIsRat DEF ApplyCheckpoint, RankedStates, Active, Paused

\* After a neutral checkpoint the index is what it was before.
LEMMA NeutralKeepsIndex ==
  ASSUME NEW st \in RankedStates, NEW b \in Rats, NEW a \in Rats, NEW ab \in BOOLEAN
  PROVE  CalculateCurrentIndex(ApplyCheckpoint(st, b, ab, a, Positive(a)), a) = CalculateIndexBeforeMutation(st, b, ab)
<1> DEFINE n == ApplyCheckpoint(st, b, ab, a, Positive(a))  i == CalculateIndexBeforeMutation(st, b, ab)
<1>0. Positive(a) \in BOOLEAN
  BY DEF Positive
<1>1. /\ n \in RankedStates /\ (n.status = Active <=> Positive(a))
      /\ n.checkpoint = i /\ n.segment = IF Positive(a) THEN a ELSE Zero
  BY <1>0, CheckpointTyped
<1>2. i \in Rats
  BY <1>1 DEF RankedStates
<1> HIDE DEF n, i
<1>3. CASE Positive(a)
  <2>1. a # Zero
    BY <1>3, SignsOfRats
  <2>2. (i ** a) // a = i
    BY <1>2, <2>1, OverItself
  <2>3. HasSegment(n)
    BY <1>1, <1>3 DEF HasSegment
  <2> QED
    BY <1>1, <1>3, <2>2, <2>3 DEF CalculateCurrentIndex, n, i
<1>4. CASE ~Positive(a)
  <2>1. ~HasSegment(n)
    BY <1>1, <1>4 DEF HasSegment
  <2> QED
    BY <1>1, <2>1 DEF CalculateCurrentIndex, n, i
<1> QED
  BY <1>3, <1>4

\* The first state of a portfolio: the index is 100 whatever it is worth.
LEMMA FirstState ==
  ASSUME NEW b \in Rats, NEW active \in BOOLEAN, active => Positive(b)
  PROVE  LET st == [ActivateState(b, active) EXCEPT !.version = 0] IN
         /\ st \in RankedStates /\ ActivateState(b, active) \in RankedStates
         /\ (HasSegment(st) <=> active) /\ (ActivateState(b, active).status = Active <=> active)
         /\ CalculateIndexBeforeMutation(st, b, active) = Hundred
<1>1. Hundred \in Rats
  BY Wholes DEF Hundred
<1> DEFINE st == [ActivateState(b, active) EXCEPT !.version = 0]
<1>2. /\ st \in RankedStates /\ ActivateState(b, active) \in RankedStates
      /\ (st.status = Active <=> active) /\ (ActivateState(b, active).status = Active <=> active)
      /\ st.checkpoint = Hundred /\ (active => st.segment = b)
  BY <1>1, ZeroIsRat DEF ActivateState, RankedStates, Active, Paused
<1> HIDE DEF st
<1>3. HasSegment(st) <=> active
  BY <1>2 DEF HasSegment
<1>4. active => b # Zero
  BY SignsOfRats
<1>5. active => (Hundred ** b) // b = Hundred
  BY <1>1, <1>4, OverItself
<1>6. CalculateIndexBeforeMutation(st, b, active) = Hundred
  BY <1>2, <1>3, <1>5 DEF CalculateIndexBeforeMutation, CalculateCurrentIndex
<1> QED
  BY <1>2, <1>3, <1>6 DEF st

\* The whole change of value reaches the index (ApplyReturnCheckpoint).
LEMMA ReturnFollows ==
  ASSUME NEW st \in RankedStates, NEW b \in Rats, NEW a \in Rats, Zero \preceq b, Zero \preceq a,
         Positive(b) => HasSegment(st)
  PROVE  LET n == ApplyReturnCheckpoint(st, b, Positive(b), a, Positive(a)) IN
         /\ n \in RankedStates /\ (Positive(a) => n.status = Active)
         /\ IndexFollows(CalculateIndexBeforeMutation(st, b, Positive(b)), CalculateCurrentIndex(n, a), a, a -- b)
<1> DEFINE n == ApplyReturnCheckpoint(st, b, Positive(b), a, Positive(a))
           old == CalculateIndexBeforeMutation(st, b, Positive(b))
           c == st.checkpoint  s == st.segment
<1>0. Positive(a) \in BOOLEAN /\ Positive(b) \in BOOLEAN
  BY DEF Positive
<1>1. c \in Rats /\ s \in Rats /\ st.version + 1 \in Nat
  BY DEF RankedStates
<1>2. a -- (a -- b) = b /\ a -- b \in Rats
  <2>1. a -- (a -- b) = (a -- a) ++ b
    BY MovesOver
  <2>2. a -- a = Zero /\ Zero ++ b = b
    BY AddZero
  <2> QED
    BY <2>1, <2>2, RatClosed
<1>3. CASE Positive(b)
  <2>1. HasSegment(st) /\ s # Zero /\ old = (c ** b) // s
    BY <1>1, <1>3, SignsOfRats DEF HasSegment, CalculateIndexBeforeMutation, CalculateCurrentIndex
  <2>2. CASE Positive(a)
    <3>1. n = [st EXCEPT !.version = @ + 1]
      BY <1>3, <2>1, <2>2 DEF ApplyReturnCheckpoint
    <3>2. n \in RankedStates /\ n.checkpoint = c /\ n.segment = s /\ n.status = st.status
      BY <1>1, <3>1 DEF RankedStates
    <3>3. CalculateCurrentIndex(n, a) = (c ** a) // s /\ n.status = Active
      BY <2>1, <3>2 DEF CalculateCurrentIndex, HasSegment
    <3>4. ((c ** a) // s) ** b = ((c ** b) // s) ** a
      BY <1>1, <2>1, Scaled
    <3> HIDE DEF n, old, c, s
    <3>5. IndexFollows(old, CalculateCurrentIndex(n, a), a, a -- b)
      BY <1>2, <1>3, <2>1, <2>2, <3>3, <3>4 DEF IndexFollows
    <3> QED
      BY <3>2, <3>3, <3>5 DEF n, old
  <2>3. CASE ~Positive(a)
    <3>1. a = Zero
      BY <2>3, SignsOfRats
    <3>2. CalculateCurrentIndex(st, a) = Zero
      BY <1>1, <2>1, <3>1, OverItself DEF CalculateCurrentIndex
    <3>3. IndexFloor \in Rats /\ Positive(IndexFloor) /\ MaxRat(Zero, IndexFloor) = IndexFloor
      <4>1. IndexFloor \in Rats /\ Positive(IndexFloor)
        BY IndexFloorAssumption, RatStands
      <4> QED
        BY <4>1, ZeroIsRat, SignsOfRats, MinMax
    <3>4. n = [status |-> Paused, checkpoint |-> IndexFloor, segment |-> Zero, version |-> st.version + 1]
      BY <1>3, <2>1, <2>3, <3>2, <3>3 DEF ApplyReturnCheckpoint
    <3>5. n \in RankedStates /\ ~HasSegment(n) /\ n.checkpoint = IndexFloor
      BY <1>1, <3>3, <3>4, ZeroIsRat DEF RankedStates, HasSegment, Paused, Active
    <3>6. CalculateCurrentIndex(n, a) = IndexFloor
      BY <3>5 DEF CalculateCurrentIndex
    <3>7. (a -- b) \prec Zero
      <4>1. PICK d \in Nat \ {0}, x \in Int, y \in Int : Stands(a, x, d) /\ Stands(b, y, d)
        BY Common2
      <4>2. Stands(Zero, 0, d) /\ Stands(a -- b, x - y, d) /\ x - y \in Int
        <5>1. Stands(Zero, 0, d)
          BY <4>1, ZeroIsRat
        <5>2. Stands(a -- b, x - y, d)
          BY <4>1, SameDenominator
        <5> QED
          BY <4>1, <5>1, <5>2
      <4>3. x = 0 /\ y > 0
        BY <1>3, <3>1, <4>1, <4>2, OverOneDenominator
      <4>4. x - y < 0
        BY <4>1, <4>3
      <4> QED
        BY <4>2, <4>4, OverOneDenominator
    <3> HIDE DEF n, old, c, s
    <3>8. IndexFollows(old, CalculateCurrentIndex(n, a), a, a -- b)
      BY <2>3, <3>1, <3>6, <3>7 DEF IndexFollows
    <3> QED
      BY <2>3, <3>5, <3>8 DEF n, old
  <2> QED
    BY <2>2, <2>3
<1>4. CASE ~Positive(b)
  <2>1. b = Zero
    BY <1>4, SignsOfRats
  <2>2. n = ApplyCheckpoint(st, b, Positive(b), a, Positive(a))
    BY <1>4 DEF ApplyReturnCheckpoint
  <2>3. n \in RankedStates /\ (Positive(a) => n.status = Active)
    BY <1>0, <2>2, CheckpointTyped
  <2>4. CalculateCurrentIndex(n, a) = old
    BY <1>0, <2>2, NeutralKeepsIndex
  <2>5. ~((a -- b) \prec Zero)
    <3>1. a -- b = a
      BY <2>1, AddZero
    <3>2. PICK d \in Nat \ {0}, x \in Int, y \in Int : Stands(a, x, d) /\ Stands(b, y, d)
      BY Common2
    <3>3. Stands(Zero, 0, d)
      BY <3>2, ZeroIsRat
    <3>4. x >= 0
      BY <3>2, <3>3, OverOneDenominator
    <3> QED
      BY <3>1, <3>2, <3>3, <3>4, OverOneDenominator
  <2> HIDE DEF n, old, c, s
  <2>6. IndexFollows(old, CalculateCurrentIndex(n, a), a, a -- b)
    BY <1>2, <1>4, <2>4, <2>5 DEF IndexFollows
  <2> QED
    BY <2>3, <2>6 DEF n, old
<1> QED
  BY <1>3, <1>4

\* A return of its own is charged on top of a neutral checkpoint, once.
LEMMA ChargedFollows ==
  ASSUME NEW st \in RankedStates, NEW b \in Rats, NEW a \in Rats, NEW ret \in Rats, Positive(a), NEW ab \in BOOLEAN,
         ValidateState(ApplyCheckpoint(st, b, ab, a -- ret, Positive(a)))
  PROVE  LET mid == ApplyCheckpoint(st, b, ab, a -- ret, Positive(a))
             n == ApplyReturnCheckpoint(mid, a -- ret, Positive(a), a, Positive(a))
         IN  /\ n \in RankedStates /\ n.status = Active
             /\ IndexFollows(CalculateIndexBeforeMutation(st, b, ab), CalculateCurrentIndex(n, a), a, ret)
<1> DEFINE old == CalculateIndexBeforeMutation(st, b, ab)
           s == a -- ret
           mid == ApplyCheckpoint(st, b, ab, s, Positive(a))
           n == ApplyReturnCheckpoint(mid, s, Positive(a), a, Positive(a))
<1>1. s \in Rats
  BY RatClosed
<1> HIDE DEF s
<1>2. mid \in RankedStates /\ mid.status = Active /\ mid.checkpoint = old /\ mid.segment = s
  <2>1. old \in Rats /\ st.version + 1 \in Nat
    BY LiveIsRat DEF CalculateIndexBeforeMutation, RankedStates
  <2>2. mid = [status |-> Active, checkpoint |-> old, segment |-> s, version |-> st.version + 1]
    BY DEF ApplyCheckpoint
  <2> HIDE DEF mid, old
  <2> QED
    BY <1>1, <2>1, <2>2 DEF RankedStates
<1> HIDE DEF mid, old
<1>3. old \in Rats /\ mid.version + 1 \in Nat
  BY <1>2 DEF RankedStates
<1>4. Positive(s)
  <2>1. ValidateState(mid)
    BY DEF s, mid
  <2> QED
    BY <1>2, <2>1 DEF ValidateState, Active, Paused
<1>5. HasSegment(mid)
  BY <1>2, <1>4 DEF HasSegment
<1>6. n = [mid EXCEPT !.version = @ + 1]
  BY <1>5 DEF ApplyReturnCheckpoint
<1>7. n \in RankedStates /\ n.status = Active /\ n.checkpoint = old /\ n.segment = s
  BY <1>2, <1>3, <1>6 DEF RankedStates
<1> HIDE DEF n
<1>8. CalculateCurrentIndex(n, a) = (old ** a) // s
  BY <1>4, <1>7 DEF CalculateCurrentIndex, HasSegment
<1>9. ((old ** a) // s) ** s = old ** a
  <2>1. s # Zero /\ old ** a \in Rats
    BY <1>1, <1>3, <1>4, SignsOfRats, RatClosed
  <2>2. s ** ((old ** a) // s) = old ** a /\ (old ** a) // s \in Rats
    BY <1>1, <2>1, TimesOver, RatClosed
  <2> QED
    BY <1>1, <2>1, <2>2, OverItself
<1>10. IndexFollows(old, CalculateCurrentIndex(n, a), a, ret)
  BY <1>4, <1>8, <1>9 DEF IndexFollows, s
<1> QED
  BY <1>7, <1>10 DEF n, mid, old, s

\* Where the index stands still nothing was gained.
LEMMA StandingFollows ==
  ASSUME NEW i \in Rats, NEW a \in Rats
  PROVE  IndexFollows(i, i, a, Zero)
<1>1. a -- Zero = a
  BY AddZero
<1>2. ~(Zero \prec Zero)
  <2>1. Stands(Zero, 0, 1) /\ 0 \in Int /\ 1 \in Nat \ {0}
    BY ZeroIsRat
  <2> QED
    BY <2>1, OverOneDenominator
<1> QED
  BY <1>1, <1>2 DEF IndexFollows

-----------------------------------------------------------------------------
(* What a commit is judged by *)

\* Nothing adds up to nothing.
LEMMA TotalOfZeros ==
  ASSUME NEW v \in Seq(Rats), \A i \in DOMAIN v : v[i] = Zero
  PROVE  Total(v) = Zero
<1>1. \A i \in 1..Len(v) : v[i] = v[i] ++ v[i]
  BY ZeroIsRat, AddZero
<1>2. Total(v) = Total(v) ++ Total(v) /\ Total(v) \in Rats
  BY <1>1, TotalPointwise, TotalIsRat
<1> DEFINE x == Total(v)
<1>3. x \in Rats /\ x = x ++ x
  BY <1>2
<1> HIDE DEF x
<1>4. (x ++ x) -- x = x /\ x -- x = Zero
  BY <1>3, MovesOver, AddZero
<1> QED
  BY <1>3, <1>4 DEF x

\* Who is valued at cost matters only among those valued.
LEMMA SameValuation ==
  ASSUME NEW pos \in Seq(Rows), NEW ids, NEW c, NEW A, NEW B, \A i \in ids : i \in A <=> i \in B
  PROVE  ValueTracked(pos, ids, c, A) = ValueTracked(pos, ids, c, B)
<1> DEFINE v == [i \in DOMAIN pos |-> Worth(pos, i, ids, A)]  w == [i \in DOMAIN pos |-> Worth(pos, i, ids, B)]
<1>1. \A i \in DOMAIN pos : Worth(pos, i, ids, A) = Worth(pos, i, ids, B)
  BY DEF Worth
<1>2. v = w
  BY <1>1
<1>3. ValueOpen(pos, ids, A) = Total(v) /\ ValueOpen(pos, ids, B) = Total(w)
  BY DEF ValueOpen, Worth
<1> QED
  BY <1>2, <1>3 DEF ValueTracked

\* The value before a commit is not negative; it is something where there was
\* something, if all of it has a quote.
LEMMA ValueBefore ==
  ASSUME TypeInv, Zero \preceq cash, NEW p, Writable(p)
  PROVE  LET b == ValueTracked(position, OpenIds(position), cash, p.atCost) IN
         /\ b \in Rats /\ Zero \preceq b /\ (Positive(b) => Positive(cash) \/ OpenIds(position) # {})
         /\ p.atCost = {} /\ OpenIds(position) # {} => Positive(b)
<1> DEFINE o == ValueOpen(position, OpenIds(position), p.atCost)
<1>1. cash \in Rats /\ position \in Seq(Rows)
  BY DEF TypeInv
<1>2. o \in Rats /\ Zero \preceq o
  BY <1>1, ValueFacts DEF Writable
<1>3. p.atCost = {} /\ OpenIds(position) # {} => Positive(o)
  <2> SUFFICES ASSUME p.atCost = {}, OpenIds(position) # {}
               PROVE  Positive(o)
    OBVIOUS
  <2>1. \A i \in OpenIds(position) : i \in DOMAIN position /\ i \notin p.atCost /\ Quoted(position[i].sym) /\ Positive(position[i].qty)
    BY <1>1, Setting DEF Writable
  <2> QED
    BY <1>1, <2>1, ValueFacts
<1>4. OpenIds(position) = {} => o = Zero
  <2> SUFFICES ASSUME OpenIds(position) = {}
               PROVE  o = Zero
    OBVIOUS
  <2> DEFINE v == [i \in DOMAIN position |-> Worth(position, i, {}, p.atCost)]
  <2>1. v \in Seq(Rats) /\ \A i \in DOMAIN v : v[i] = Zero
    BY <1>1, ZeroIsRat DEF Worth
  <2>2. o = Total(v)
    BY DEF ValueOpen, Worth
  <2> HIDE DEF v
  <2> QED
    BY <2>1, <2>2, TotalOfZeros
<1> HIDE DEF o
<1>5. ValueTracked(position, OpenIds(position), cash, p.atCost) = cash ++ o
  BY DEF ValueTracked, o
<1>6. cash ++ o \in Rats /\ Zero \preceq (cash ++ o) /\ (Positive(o) => Positive(cash ++ o))
  <2>1. o ++ cash = cash ++ o
    BY <1>1, <1>2, AddCommutes
  <2>2. cash ++ o \in Rats
    BY <1>1, <1>2, RatClosed
  <2>3. Zero \preceq (cash ++ o)
    BY <1>1, <1>2, SignsOfRats
  <2>4. Positive(o) => Positive(o ++ cash)
    BY <1>1, <1>2, SignsOfRats
  <2> QED
    BY <2>1, <2>2, <2>3, <2>4
<1>7. o = Zero => cash ++ o = cash
  BY <1>1, AddZero
<1> QED
  BY <1>3, <1>4, <1>5, <1>6, <1>7

\* So is the value after it, and what is left has a quote.
LEMMA ValueAfter ==
  ASSUME TypeInv, NEW p, PlanTyped(p), Writable(p), ~p.inv, p.open = OpenIds(p.pos), p.atCost \cap p.open = {}
  PROVE  LET a == ValueTracked(p.pos, p.open, p.cash, p.atCost) IN
         /\ a \in Rats /\ Zero \preceq a /\ (Positive(p.cash) \/ p.open # {} => Positive(a))
         /\ \A i \in p.open : Quoted(p.pos[i].sym)
<1> DEFINE o == ValueOpen(p.pos, p.open, p.atCost)
<1>1. p.cash \in Rats /\ p.pos \in Seq(Rows) /\ Zero \preceq p.cash
  BY PlanParts DEF Writable
<1>2. \A i \in p.open : i \in DOMAIN p.pos /\ i \notin p.atCost /\ Quoted(p.pos[i].sym) /\ Positive(p.pos[i].qty)
  BY DEF Writable, OpenIds
<1>3. o \in Rats /\ Zero \preceq o /\ (p.open # {} => Positive(o))
  BY <1>1, <1>2, ValueFacts
<1> HIDE DEF o
<1>4. ValueTracked(p.pos, p.open, p.cash, p.atCost) = p.cash ++ o /\ p.cash ++ o = o ++ p.cash
  BY <1>1, <1>3, AddCommutes DEF ValueTracked, o
<1> DEFINE c == p.cash
<1>5. c \in Rats /\ Zero \preceq c
  BY <1>1
<1> HIDE DEF c
<1>6. c ++ o \in Rats /\ Zero \preceq (c ++ o) /\ (Positive(o) => Positive(o ++ c)) /\ (Positive(c) => Positive(c ++ o))
  BY <1>3, <1>5, RatClosed, SignsOfRats
<1> QED
  BY <1>2, <1>3, <1>4, <1>6 DEF c

-----------------------------------------------------------------------------
(* Every commit *)


\* The pinned value of the committed book.
LEMMA PinnedLater ==
  ASSUME NEW p, Commits(p)
  PROVE  PinnedValue' = ValueTracked(p.pos, OpenIds(p.pos), p.cash, {i \in OpenIds(p.pos) : ~Quoted(p.pos[i].sym)})
BY DEF Commits, PinnedValue, ValueTracked, ValueOpen, MarketValue, Quoted, OpenIds, Basis

\* What a plan means for the ranked step: where the commit ends, what is held is
\* what was valued, and a return of its own leaves something to charge it to.
LEMMA PlanJudged ==
  ASSUME TypeInv, ClosedInv, NEW kind \in Kinds, kind # "correct_sell", NEW p, applyLocked(kind, p), Facts(kind, p)
  PROVE  /\ PlanTyped(p) /\ Writable(p) /\ Commits(p) /\ p.open = OpenIds(p.pos) /\ p.atCost \cap p.open = {}
         /\ \A i \in OpenIds(position) : i \in p.atCost <=> ~Quoted(position[i].sym)
         /\ p.inv => p.atCost = {} /\ OpenIds(position) # {} /\ p.open # {}
         /\ p.ret # Zero => p.open # {}
<1>1. PlanTyped(p) /\ Commits(p) /\ Writable(p)
  BY Committed DEF Facts, PlanFacts, Commits
<1>2. p.atCost \subseteq {i \in OpenIds(position) : ~Quoted(position[i].sym)} \ p.open
  BY DEF Facts, PlanFacts
<1>3. \A i \in OpenIds(position) : i \in p.atCost <=> ~Quoted(position[i].sym)
  BY <1>1, <1>2 DEF Writable
<1>4. CASE kind = "correct_buy"
  <2>1. BuyCorrected(p)
    BY <1>4 DEF Facts
  <2>2. OpenIds(position) # {}
    BY <1>1, <2>1, BuyCorrectedSealed
  <2>3. ~p.inv /\ p.open = OpenIds(position) /\ p.open = OpenIds(p.pos)
    BY <2>1 DEF BuyCorrected
  <2> QED
    BY <1>1, <1>2, <1>3, <2>2, <2>3
<1>5. CASE kind # "correct_buy"
  <2>1. kind \notin TradeCorrections
    BY <1>5 DEF TradeCorrections
  <2>2. Judging(p) /\ Kept(p)
    BY <2>1 DEF Facts, PlanFacts
  <2>3. p.open = OpenIds(p.pos)
    BY <2>2 DEF Kept, BookTyped
  <2> QED
    BY <1>1, <1>2, <1>3, <2>2, <2>3 DEF Judging
<1> QED
  BY <1>4, <1>5

\* A book with something in it has an active ranked state.
RankedInv ==
  /\ ranked \in RankedStates
  /\ ranked # NoState /\ (Positive(cash) \/ OpenIds(position) # {}) => ranked.status = Active

\* The index before a commit, from the committed state or a first one.
LEMMA IndexBefore ==
  ASSUME RankedInv, ranked = NoState \/ ValidateState(ranked), NEW b \in Rats, Positive(b) => Positive(cash) \/ OpenIds(position) # {}
  PROVE  LET st == IF ranked = NoState THEN [ActivateState(b, Positive(b)) EXCEPT !.version = 0] ELSE ranked IN
         /\ st \in RankedStates /\ (Positive(b) => HasSegment(st))
         /\ CalculateIndexBeforeMutation(st, b, Positive(b))
              = IF ranked = NoState THEN Hundred ELSE CalculateIndexBeforeMutation(ranked, b, Positive(b))
<1>0. Positive(b) \in BOOLEAN
  BY DEF Positive
<1>1. CASE ranked = NoState
  BY <1>0, <1>1, FirstState
<1>2. CASE ranked # NoState
  <2>1. Positive(b) => HasSegment(ranked)
    BY <1>2 DEF RankedInv, ValidateState, HasSegment, Active, Paused
  <2> QED
    BY <1>2, <2>1 DEF RankedInv
<1> QED
  BY <1>1, <1>2

\* A commit moves the live index by its return, and leaves an active state where
\* there is something left.
LEMMA CommitFollows ==
  ASSUME LedgerInv, ClosedInv, RankedInv,
         NEW kind \in Kinds, kind # "correct_sell", NEW p, applyLocked(kind, p), Facts(kind, p)
  PROVE  RankedInv' /\ CommitMovesIndexByItsReturn
<1>0. TypeInv /\ Zero \preceq cash /\ (ranked = NoState \/ ValidateState(ranked))
  BY DEF LedgerInv
<1>1. /\ PlanTyped(p) /\ Writable(p) /\ Commits(p) /\ p.open = OpenIds(p.pos) /\ p.atCost \cap p.open = {}
      /\ \A i \in OpenIds(position) : i \in p.atCost <=> ~Quoted(position[i].sym)
      /\ p.inv => p.atCost = {} /\ OpenIds(position) # {} /\ p.open # {}
      /\ p.ret # Zero => p.open # {}
  BY <1>0, PlanJudged
<1>2. p.pos \in Seq(Rows) /\ p.cash \in Rats /\ p.ret \in Rats /\ position \in Seq(Rows)
  BY <1>0, <1>1, PlanParts DEF TypeInv
<1> DEFINE b == ValueTracked(position, OpenIds(position), cash, p.atCost)
           a == IF p.inv THEN b ELSE ValueTracked(p.pos, p.open, p.cash, p.atCost)
           st == IF ranked = NoState THEN [ActivateState(b, Positive(b)) EXCEPT !.version = 0] ELSE ranked
           old == CalculateIndexBeforeMutation(st, b, Positive(b))
           mid == ApplyCheckpoint(st, b, Positive(b), a -- p.ret, Positive(a))
           charged == ApplyReturnCheckpoint(mid, a -- p.ret, Positive(a), a, Positive(a))
           earned == ApplyReturnCheckpoint(st, b, Positive(b), a, Positive(a))
           moved == ApplyCheckpoint(st, b, Positive(b), a, Positive(a))
<1>3. /\ b \in Rats /\ Zero \preceq b /\ (Positive(b) => Positive(cash) \/ OpenIds(position) # {})
      /\ p.atCost = {} /\ OpenIds(position) # {} => Positive(b)
  BY <1>0, <1>1, ValueBefore
<1>4. a \in Rats /\ Zero \preceq a /\ (Positive(p.cash) \/ p.open # {} => Positive(a))
  <2>1. CASE p.inv
    BY <1>1, <1>3, <2>1
  <2>2. CASE ~p.inv
    BY <1>0, <1>1, <2>2, ValueAfter
  <2> QED
    BY <2>1, <2>2
<1>5. PinnedValue = b
  <2>1. PinnedValue = ValueTracked(position, OpenIds(position), cash, {i \in OpenIds(position) : ~Quoted(position[i].sym)})
    BY DEF PinnedValue
  <2> QED
    BY <1>1, <1>2, <2>1, SameValuation
<1>6. a = IF p.inv THEN b ELSE PinnedValue'
  <2> SUFFICES ASSUME ~p.inv
               PROVE  ValueTracked(p.pos, p.open, p.cash, p.atCost) = PinnedValue'
    OBVIOUS
  <2>1. \A i \in p.open : i \in p.atCost <=> i \in {j \in OpenIds(p.pos) : ~Quoted(p.pos[j].sym)}
    BY <1>0, <1>1, ValueAfter
  <2> DEFINE U == {j \in OpenIds(p.pos) : ~Quoted(p.pos[j].sym)}
  <2>2. PinnedValue' = ValueTracked(p.pos, p.open, p.cash, U)
    BY <1>1, PinnedLater
  <2>3. \A i \in p.open : i \in p.atCost <=> i \in U
    BY <2>1
  <2> HIDE DEF U
  <2>4. ValueTracked(p.pos, p.open, p.cash, p.atCost) = ValueTracked(p.pos, p.open, p.cash, U)
    BY <1>2, <2>3, SameValuation
  <2> QED
    BY <2>2, <2>4
<1>7. /\ (p.ret # Zero => ranked' = charged /\ ValidateState(mid))
      /\ (p.ret = Zero /\ p.effect = Return => ranked' = earned)
      /\ (p.ret = Zero /\ p.effect # Return => ranked' = moved)
  BY DEF applyLocked, RankedStep
<1>8. audit'.effect = p.effect /\ audit'.ret = p.ret /\ audit'.inv = p.inv
  BY DEF applyLocked
<1> HIDE DEF b, a
<1>9. /\ st \in RankedStates /\ (Positive(b) => HasSegment(st))
      /\ old = IF ranked = NoState THEN Hundred ELSE CalculateIndexBeforeMutation(ranked, b, Positive(b))
  BY <1>0, <1>3, IndexBefore
<1> HIDE DEF st
<1>10. Positive(a) \in BOOLEAN /\ Positive(b) \in BOOLEAN
  BY DEF Positive
<1> DEFINE ret == CASE p.ret # Zero -> p.ret
                    [] p.ret = Zero /\ p.effect = Return -> a -- b
                    [] OTHER -> Zero
<1>11. /\ ranked' \in RankedStates /\ (Positive(a) => ranked'.status = Active)
       /\ IndexFollows(old, CalculateCurrentIndex(ranked', a), a, ret)
  <2>1. CASE p.ret # Zero
    <3>1. Positive(a) /\ ranked' = charged /\ ret = p.ret /\ ValidateState(mid)
      BY <1>1, <1>4, <1>7, <2>1
    <3>2. /\ charged \in RankedStates /\ charged.status = Active
          /\ IndexFollows(old, CalculateCurrentIndex(charged, a), a, p.ret)
      <4> DEFINE r == p.ret  ab == Positive(b)
      <4>1. r \in Rats /\ ab \in BOOLEAN /\ Positive(a) /\ a \in Rats /\ b \in Rats /\ st \in RankedStates
        BY <1>2, <1>3, <1>4, <1>9, <1>10, <3>1
      <4>2. ValidateState(ApplyCheckpoint(st, b, ab, a -- r, Positive(a)))
        BY <3>1
      <4> DEFINE m == ApplyCheckpoint(st, b, ab, a -- r, Positive(a))
                 n == ApplyReturnCheckpoint(m, a -- r, Positive(a), a, Positive(a))
                 o == CalculateIndexBeforeMutation(st, b, ab)
      <4> HIDE DEF r, ab
      <4>3. n \in RankedStates /\ n.status = Active /\ IndexFollows(o, CalculateCurrentIndex(n, a), a, r)
        BY <4>1, <4>2, ChargedFollows, Zenon
      <4> QED
        BY <4>3 DEF r, ab
    <3> QED
      BY <3>1, <3>2
  <2>2. CASE p.ret = Zero /\ p.effect = Return
    <3>1. ranked' = earned /\ ret = a -- b
      BY <1>7, <2>2
    <3>2. /\ earned \in RankedStates /\ (Positive(a) => earned.status = Active)
          /\ IndexFollows(old, CalculateCurrentIndex(earned, a), a, a -- b)
      BY <1>3, <1>4, <1>9, ReturnFollows
    <3> QED
      BY <3>1, <3>2
  <2>3. CASE p.ret = Zero /\ p.effect # Return
    <3>1. ranked' = moved /\ ret = Zero
      BY <1>7, <2>3
    <3>2. moved \in RankedStates /\ (Positive(a) => moved.status = Active) /\ moved.checkpoint = old
      BY <1>3, <1>4, <1>9, <1>10, CheckpointTyped
    <3>3. CalculateCurrentIndex(moved, a) = old
      BY <1>3, <1>4, <1>9, <1>10, NeutralKeepsIndex
    <3>4. old \in Rats
      BY <3>2 DEF RankedStates
    <3> HIDE DEF old, moved
    <3>5. IndexFollows(old, CalculateCurrentIndex(moved, a), a, Zero)
      BY <1>4, <3>3, <3>4, StandingFollows
    <3> QED
      BY <3>1, <3>2, <3>5
  <2> QED
    BY <2>1, <2>2, <2>3
<1>12. RankedInv'
  <2>1. OpenIds(position)' = p.open /\ cash' = p.cash
    BY <1>1 DEF Commits, OpenIds
  <2> QED
    BY <1>4, <1>11, <2>1 DEF RankedInv
<1>13. CommitMovesIndexByItsReturn
  <2>1. ret = CASE audit'.ret # Zero -> audit'.ret
                [] audit'.ret = Zero /\ audit'.effect = Return -> a -- b
                [] OTHER -> Zero
    BY <1>8
  <2>2. a = IF audit'.inv THEN b ELSE PinnedValue'
    BY <1>6, <1>8
  <2> HIDE DEF old, ret
  <2> QED
    BY <1>5, <1>9, <1>11, <2>1, <2>2 DEF CommitMovesIndexByItsReturn
<1> QED
  BY <1>12, <1>13

\* An empty portfolio has no ranked state yet.
LEMMA RankedInit == Init => RankedInv
BY ZeroIsRat DEF Init, RankedInv, RankedStates, NoState

\* The steps that commit nothing: a first state is active where there is
\* something to rank.
LEMMA RankedBackground ==
  ASSUME LedgerInv, RankedInv, Background
  PROVE  RankedInv'
<1>0. TypeInv /\ Zero \preceq cash /\ position \in Seq(Rows) /\ cash \in Rats
  BY DEF LedgerInv, TypeInv
<1>1. CASE EnsureRankedEpoch
  <2>1. BookQuoted /\ (cash = Zero \/ OpenIds(position) # {}) /\ ranked' = ActivateState(BookValue, Positive(BookValue))
        /\ position' = position /\ cash' = cash
    BY <1>1 DEF EnsureRankedEpoch
  <2> DEFINE o == ValueOpen(position, OpenIds(position), {})
  <2>2. \A i \in OpenIds(position) : i \in DOMAIN position /\ i \notin {} /\ Quoted(position[i].sym) /\ Positive(position[i].qty)
    BY <1>0, <2>1, Setting DEF BookQuoted
  <2>3. o \in Rats /\ (OpenIds(position) # {} => Positive(o))
    BY <1>0, <2>2, ValueFacts
  <2>4. BookValue = cash ++ o
    BY DEF BookValue, ValueTracked
  <2> HIDE DEF o
  <2>5. cash ++ o = o ++ cash /\ cash ++ o \in Rats
    BY <1>0, <2>3, AddCommutes, RatClosed
  <2>6. OpenIds(position) # {} => Positive(cash ++ o)
    BY <1>0, <2>3, <2>5, SignsOfRats
  <2> DEFINE v == BookValue
  <2>7. v \in Rats /\ (OpenIds(position) # {} => Positive(v)) /\ Positive(v) \in BOOLEAN
    BY <2>4, <2>5, <2>6 DEF Positive
  <2>8. ~Positive(Zero)
    BY DEF Positive, Zero, Rat
  <2> HIDE DEF v
  <2>9. ActivateState(v, Positive(v)) \in RankedStates /\ (ActivateState(v, Positive(v)).status = Active <=> Positive(v))
    BY <2>7, FirstState
  <2>10. OpenIds(position)' = OpenIds(position)
    BY <2>1 DEF OpenIds
  <2> QED
    BY <2>1, <2>7, <2>8, <2>9, <2>10 DEF RankedInv, v
<1>2. CASE ~EnsureRankedEpoch
  <2>1. ranked' = ranked /\ cash' = cash /\ position' = position
    BY <1>2 DEF Background, TakeSnapshot, SetAutoFundPurchases, MovePrice
  <2> QED
    BY <2>1 DEF RankedInv, OpenIds
<1> QED
  BY <1>1, <1>2

\* Every step keeps it, and those that commit follow their return.
LEMMA IndexStep ==
  ASSUME "correct_sell" \notin Kinds, LedgerInv, ClosedInv, RankedInv, [Next]_vars
  PROVE  RankedInv' /\ (version' # version => CommitMovesIndexByItsReturn)
<1>1. CASE Does
  <2>1. PICK kind \in Kinds : \E p : applyLocked(kind, p) /\ Facts(kind, p)
    BY <1>1 DEF Does
  <2>2. PICK p : applyLocked(kind, p) /\ Facts(kind, p)
    BY <2>1
  <2>3. kind # "correct_sell"
    BY <2>1
  <2> QED
    BY <2>2, <2>3, CommitFollows
<1>2. CASE Background
  <2>1. version' = version
    BY <1>2 DEF Background, EnsureRankedEpoch, TakeSnapshot, SetAutoFundPurchases, MovePrice
  <2> QED
    BY <1>2, <2>1, RankedBackground
<1>3. CASE UNCHANGED vars
  BY <1>3 DEF vars, RankedInv, OpenIds
<1> QED
  BY <1>1, <1>2, <1>3, Steps DEF LedgerInv

\* The live index moves by what a commit returns and by nothing else (applyLocked's two
\* checkpoints, calculator.go), where no sale is corrected: the correction of a sale that
\* closed an episode values the book without it (planCorrectSell), which may pause the
\* index although something is held, and a return after that is lost.
THEOREM IndexMovesByReturn ==
  ASSUME "correct_sell" \notin Kinds
  PROVE  Spec => IndexMovesByReturnOnly
<1>1. LedgerInv /\ ClosedInv /\ RankedInv /\ [Next]_vars
        => RankedInv' /\ [version' # version /\ ~Reopened => CommitMovesIndexByItsReturn]_vars
  BY IndexStep
<1>2. LedgerInv /\ RankedInv /\ ClosedInv /\ [Next]_vars => RankedInv'
  BY <1>1
<1> QED
  BY <1>1, RankedInit, ClosedInit, ClosedStep, LedgerAlways, PTL DEF Spec, IndexMovesByReturnOnly
=============================================================================
