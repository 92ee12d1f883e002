------------------------------ MODULE Decimals ------------------------------
(***************************************************************************)
(* Amounts of money and of quota: YuanToFen (internal/epay/money.go) and   *)
(* creditedQuota (internal/app/refund.go) on the decimals and integers     *)
(* they compute with.  A decimal is a coefficient and a power of ten, as   *)
(* shopspring/decimal has it, so one amount has several notations; an      *)
(* integer has IntBits bits and wraps.                                     *)
(***************************************************************************)
EXTENDS Integers

CONSTANTS IntBits,        \* bits of an int64
          MantissaBits,   \* bits of the fraction of a float64, 53
          MaxWalletQuota  \* maxWalletQuota: 2^53 - 1

\* The powers of a number, and those of the two bases.
Power(b) == LET p[n \in Nat] == IF n = 0 THEN 1 ELSE b * p[n - 1] IN p
Two == Power(2)
Ten == Power(10)

\* An int64 is wider than the numbers a float64 holds exactly.
ASSUME WidthAssumption == /\ MantissaBits \in Nat \ {0}
                          /\ IntBits \in Nat /\ IntBits > MantissaBits + 2
                          /\ MaxWalletQuota \in 1..Two[IntBits - 1] - 1

\* coef * 10^exp.
Decimal == [coef : Int, exp : Int]

\* An int64 holds n only modulo 2^IntBits.
Wrap(n) == ((n + Two[IntBits - 1]) % Two[IntBits]) - Two[IntBits - 1]

Fits(n) == n \in -Two[IntBits - 1]..Two[IntBits - 1] - 1

Sign(n) == IF n < 0 THEN -1 ELSE 1
Abs(n) == n * Sign(n)

Quotient(n, k) == Sign(n) * (Abs(n) \div Ten[k])

\* rescale: the coefficient at another exponent, digits cut off towards zero.
Rescale(d, exp) ==
  IF exp <= d.exp THEN d.coef * Ten[d.exp - exp] ELSE Quotient(d.coef, exp - d.exp)

Truncate(d) == [coef |-> Rescale(d, 0), exp |-> 0]

Times(d, n) == [d EXCEPT !.coef = @ * n]

SameValue(d, e) ==
  LET low == IF d.exp < e.exp THEN d.exp ELSE e.exp
  IN Rescale(d, low) = Rescale(e, low)

\* Mutant of IntPart: an integer without a width.
IntPartUnbounded(d) == Rescale(d, 0)

IntPart(d) == Wrap(Rescale(d, 0))

\* Round(0) looks at the first digit after the point.
RoundDecimal(d) ==
  IF d.exp = 0 THEN d
  ELSE [coef |-> Quotient(Rescale(d, -1) + 5 * Sign(d.coef), 1), exp |-> 0]

\* What a conversion returns: a value, or an error.
Refused == [ok |-> FALSE, value |-> 0]
Value(n) == [ok |-> TRUE, value |-> n]

-----------------------------------------------------------------------------
\* Mutant of YuanToFen: what is finer than a fen is cut off.
YuanToFenCut(yuan) ==
  IF yuan.coef <= 0 THEN Refused ELSE Value(IntPart(Times(yuan, 100)))

YuanToFen(yuan) ==
  LET fen == Times(yuan, 100)
  IN IF yuan.coef <= 0 \/ ~ SameValue(fen, Truncate(fen))
     THEN Refused
     ELSE Value(IntPart(fen))

\* How NewAPI displays quota: the settings the adapter knows, and another.
DisplayTypes == {"TOKENS", "USD", "CNY", "CUSTOM", "other"}

\* Mutant of creditedQuota: the product is cut off, not rounded.
creditedQuotaCut(dollars, billing) ==
  LET q == IF billing.display = "TOKENS" THEN dollars
           ELSE IntPart(Times(billing.perUnit, dollars))
  IN IF billing.display = "other" \/ q <= 0 \/ q > MaxWalletQuota
     THEN Refused ELSE Value(q)

\* The range is checked after the product has become an integer.
creditedQuota(dollars, billing) ==
  LET q == IF billing.display = "TOKENS" THEN dollars
           ELSE IntPart(RoundDecimal(Times(billing.perUnit, dollars)))
  IN IF billing.display = "other" \/ q <= 0 \/ q > MaxWalletQuota
     THEN Refused ELSE Value(q)

\* A JSON number as a float64: exact below 2^MantissaBits, even up to twice
\* that; a number half way between two goes to the multiple of four.
Float(n) == CASE n < Two[MantissaBits] \/ n % 2 = 0 -> n
              [] n >= Two[MantissaBits] /\ n % 4 = 1 -> n - 1
              [] OTHER -> n + 1
=============================================================================
