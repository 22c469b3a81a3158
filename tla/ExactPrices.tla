---------------------------- MODULE ExactPrices ----------------------------
(***************************************************************************)
(* Exact decimals and rationals of the market reference providers          *)
(* (providers/market-reference/normalization.ts, bounds.ts): a price is    *)
(* never a float.  A decimal is an integer coefficient over a power of     *)
(* ten.                                                                    *)
(***************************************************************************)
EXTENDS Integers, Sequences, FiniteSets, FiniteSetsExt

CONSTANTS Absent,             \* null, and a value that is refused
          SourceScale,        \* MARKET_BOUNDS.primarySourceScale
          CoefficientDigits   \* MARKET_BOUNDS.primaryCoefficientDigits
ASSUME ShapeAssumption == SourceScale \in Nat /\ CoefficientDigits \in Nat \ {0}

Decimal(coefficient, scale) == <<coefficient, scale>>
Rational(numerator, denominator) == <<numerator, denominator>>

Abs(n) == IF n < 0 THEN -n ELSE n

validatePrimaryDecimalShape(d) ==
  /\ Abs(d[1]) < 10^CoefficientDigits
  /\ d[2] <= SourceScale

(* The token m / 10^s without the trailing zeros of its fraction.          *)
Trimmed(m, s) ==
  LET k == Max({j \in 0..s : m % 10^j = 0}) IN Decimal(m \div 10^k, s - k)

canonicalDecimalFromToken(m, s) ==
  LET d == Trimmed(m, s) IN IF m = 0 \/ validatePrimaryDecimalShape(d) THEN d ELSE Absent

validateCanonicalDecimal(d) ==
  /\ validatePrimaryDecimalShape(d)
  /\ d[2] >= 0
  /\ d[1] = 0 => d[2] = 0
  /\ d[2] > 0 => d[1] % 10 # 0

requirePositiveDecimal(d) == validateCanonicalDecimal(d) /\ d[1] > 0

decimalSignedCoefficient(d, scale) == d[1] * 10^(scale - d[2])

compareCanonicalDecimals(a, b) ==
  LET scale == Max({a[2], b[2]})
      x == decimalSignedCoefficient(a, scale)
      y == decimalSignedCoefficient(b, scale)
  IN IF x < y THEN -1 ELSE IF x > y THEN 1 ELSE 0

gcd[a \in Nat, b \in Nat] == IF b = 0 THEN a ELSE gcd[b, a % b]

(* BigInt division truncates; the divisor divides both, so \div is exact.  *)
reduceRational(numerator, denominator) ==
  LET sign == IF denominator < 0 THEN -1 ELSE 1
      divisor == gcd[Abs(numerator), Abs(denominator)]
  IN Rational((numerator \div divisor) * sign, (denominator \div divisor) * sign)

quoteMidpoint(bid, ask) ==
  LET scale == Max({bid[2], ask[2]})
  IN reduceRational(decimalSignedCoefficient(bid, scale) + decimalSignedCoefficient(ask, scale),
                    2 * 10^scale)

exactSplitAdjustedSensitivity(price, newShares, oldShares) ==
  reduceRational(price[1] * oldShares, 10^price[2] * newShares)

exactCashDistributionAdjustedSensitivity(price, cash) ==
  LET scale == Max({price[2], cash[2]})
      adjusted == decimalSignedCoefficient(price, scale) - decimalSignedCoefficient(cash, scale)
  IN IF adjusted <= 0 THEN Absent ELSE reduceRational(adjusted, 10^scale)

(* toFraction: a decimal as the two components of a fraction.              *)
toFraction(d) == Rational(d[1], 10^d[2])

exactReturn(origin, destination) ==
  reduceRational(destination[1] * origin[2] - origin[1] * destination[2],
                 destination[2] * origin[1])

equalExactPrices(p, q) == p[1] * q[2] = q[1] * p[2]

(* compareIndependentSourceReferences: prices by source, Absent if none.   *)
compareIndependentSourceReferences(prices) ==
  IF \E i \in DOMAIN prices : prices[i] = Absent THEN "not-comparable"
  ELSE IF \A i \in 2..Len(prices) : equalExactPrices(prices[1], prices[i]) THEN "agree"
  ELSE "disagree"

-----------------------------------------------------------------------------
Same(p, q) == p[1] * q[2] = q[1] * p[2]

(* What the identities of market facts rest on: the same number always has *)
(* one spelling, and no operation rounds.  Tokens x, y, z are <<m, s>>     *)
(* pairs, one number whatever their trailing zeros.                        *)
ArithmeticExact(x, y, z) ==
  LET a == canonicalDecimalFromToken(x[1], x[2])
      b == canonicalDecimalFromToken(y[1], y[2])
      c == canonicalDecimalFromToken(z[1], z[2])
      Number(t) == Rational(t[1], 10^t[2])
      Plus1(r) == Rational(r[1] + r[2], r[2])
      Times(p, q) == Rational(p[1] * q[1], p[2] * q[2])
      F(d) == reduceRational(d[1], 10^d[2])
      mid == quoteMidpoint(a, b)
  IN (Absent \notin {a, b, c} /\ a[1] > 0 /\ b[1] > 0 /\ c[1] > 0) =>
     /\ (a = b) <=> Same(Number(x), Number(y))
     /\ \A d \in {a, b, c} : requirePositiveDecimal(d)
     /\ (compareCanonicalDecimals(a, b) < 0) <=> (x[1] * 10^y[2] < y[1] * 10^x[2])
     /\ (F(a) = F(b)) <=> (a = b)
     /\ Same(Rational(2 * mid[1], mid[2]), Rational(a[1] * 10^b[2] + b[1] * 10^a[2], 10^(a[2] + b[2])))
     /\ gcd[Abs(mid[1]), mid[2]] = 1
     /\ Same(Times(Plus1(exactReturn(F(a), F(b))), Plus1(exactReturn(F(b), F(c)))),
             Plus1(exactReturn(F(a), F(c))))
     /\ Same(Times(exactSplitAdjustedSensitivity(a, 2, 3), Rational(2, 3)), F(a))
     /\ LET cash == exactCashDistributionAdjustedSensitivity(a, b)
        IN (cash = Absent) <=> compareCanonicalDecimals(a, b) <= 0
     /\ (compareIndependentSourceReferences(<<F(a), F(b), F(c)>>) = "agree") <=> (a = b /\ b = c)
=============================================================================
