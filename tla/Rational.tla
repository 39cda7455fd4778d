------------------------------ MODULE Rational ------------------------------
(***************************************************************************)
(* Exact arithmetic for amounts, quantities, prices and ranked indexes.    *)
(*                                                                         *)
(* internal/money keeps every financial value as an arbitrary-precision    *)
(* decimal: sums, differences and products are exact, a quotient is taken  *)
(* to a fixed number of places and rounded half-even at the posting        *)
(* boundary (12 to 18 places).  The properties of this project are         *)
(* identities between values, so the rounding step is abstracted away and  *)
(* a value is a rational <<numerator, denominator>> in lowest terms with a *)
(* positive denominator: two equal values have one representation.         *)
(***************************************************************************)
EXTENDS Integers

gcd[p \in Nat \X Nat] == IF p[2] = 0 THEN p[1] ELSE gcd[<<p[2], p[1] % p[2]>>]

Abs(n) == IF n < 0 THEN -n ELSE n

Fraction == Int \X Int

frac[f \in Fraction] ==
  LET g == gcd[<<Abs(f[1]), Abs(f[2])>>]
      s == IF f[2] < 0 THEN -1 ELSE 1
  IN  <<s * (f[1] \div g), s * (f[2] \div g)>>

Frac(n, d) == frac[<<n, d>>]

Rat(n) == <<n, 1>>
Zero   == Rat(0)
One    == Rat(1)

\* Functions of the pair of operands rather than operators, so that an operand
\* is evaluated once.
Operands == Fraction \X Fraction

plus[p \in Operands]    == frac[<<p[1][1] * p[2][2] + p[2][1] * p[1][2], p[1][2] * p[2][2]>>]
minus[p \in Operands]   == frac[<<p[1][1] * p[2][2] - p[2][1] * p[1][2], p[1][2] * p[2][2]>>]
times[p \in Operands]   == frac[<<p[1][1] * p[2][1], p[1][2] * p[2][2]>>]
over[p \in Operands]    == frac[<<p[1][1] * p[2][2], p[1][2] * p[2][1]>>]
compare[p \in Operands] == p[1][1] * p[2][2] - p[2][1] * p[1][2]

a ++ b == plus[<<a, b>>]
a -- b == minus[<<a, b>>]
a ** b == times[<<a, b>>]
a // b == over[<<a, b>>]

a \preceq b == compare[<<a, b>>] <= 0
a \prec b   == compare[<<a, b>>] < 0

Positive(a) == a[1] > 0

min[p \in Operands] == IF p[1] \preceq p[2] THEN p[1] ELSE p[2]

MinRat(a, b) == min[<<a, b>>]
MaxRat(a, b) == (a ++ b) -- min[<<a, b>>]

IsRat(a) ==
  /\ a \in Fraction /\ a[2] > 0
  /\ gcd[<<Abs(a[1]), a[2]>>] = 1
=============================================================================
