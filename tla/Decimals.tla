------------------------------ MODULE Decimals ------------------------------
(***************************************************************************)
(* src/src/decimal.rs and src/src/host/bignum.rs: java.math.BigDecimal as  *)
(* a pair of an unscaled integer u and a scale s, standing for u / 10^s,   *)
(* and java.math.BigInteger as a decimal of scale 0.                       *)
(*                                                                         *)
(* The code's digit budgets (ten extra digits of a quotient that does not  *)
(* terminate, thirty guard digits, words of 32 bits) are parameters, so    *)
(* that small numbers reach them.                                          *)
(***************************************************************************)
EXTENDS Integers, Sequences, FiniteSets, FiniteSetsExt

CONSTANTS ExtraPrecision,    \* DIVISION_EXTRA_PRECISION, 10
          MinScale,          \* DIVISION_MIN_SCALE, 10
          ScaleMargin,       \* the digits `divide` works past its scale, 4
          GuardDigits,       \* the digits `divide` works past a MathContext, 30
          WordBits,          \* the bits of an int, 32
          WitnessBases       \* the bases of the primality test, as a sequence

Dec(u, s) == [u |-> u, s |-> s]
Magnitude(n) == IF n < 0 THEN -n ELSE n
Signum(n) == CASE n < 0 -> -1 [] n = 0 -> 0 [] n > 0 -> 1
\* Division of integers truncates towards zero.
Quot(a, b) == IF (a < 0) = (b < 0) THEN Magnitude(a) \div Magnitude(b) ELSE -(Magnitude(a) \div Magnitude(b))
Rem(a, b) == a - b * Quot(a, b)
DigitCount(n) == Min({k \in 1 .. 10 : k = 10 \/ Magnitude(n) < 10^k})

\* The operators.
AlignedTo(d, scale) == d.u * 10^(scale - d.s)
AddDec(a, b) == LET scale == Max({a.s, b.s}) IN Dec(AlignedTo(a, scale) + AlignedTo(b, scale), scale)
SubDec(a, b) == LET scale == Max({a.s, b.s}) IN Dec(AlignedTo(a, scale) - AlignedTo(b, scale), scale)
MulDec(a, b) == Dec(a.u * b.u, a.s + b.s)
NegDec(a) == Dec(-a.u, a.s)
AbsDec(a) == Dec(Magnitude(a.u), a.s)
Order(a, b) == Signum(SubDec(a, b).u)

RECURSIVE Squarings(_, _, _)
Squarings(acc, base, e) ==
    IF e = 0 THEN acc
    ELSE Squarings(IF e % 2 = 1 THEN MulDec(acc, base) ELSE acc, IF e \div 2 > 0 THEN MulDec(base, base) ELSE base, e \div 2)
PowDec(a, e) == Squarings(Dec(1, 0), a, e)

RECURSIVE StripZeros(_, _, _)
StripZeros(u, s, floor) == IF s > floor /\ u # 0 /\ u % 10 = 0 THEN StripZeros(Quot(u, 10), s - 1, floor) ELSE Dec(u, s)
StripTrailingZeros(d) == IF d.u = 0 THEN Dec(0, 0) ELSE StripZeros(d.u, d.s, -100)
AtPreferredScale(u, s, preferred) ==
    LET d == StripZeros(u, s, preferred) IN IF d.s < preferred THEN Dec(AlignedTo(d, preferred), preferred) ELSE d

\* Rounding, which the bigdecimal crate does.
RoundingModes == {"UP", "DOWN", "CEILING", "FLOOR", "HALF_UP", "HALF_DOWN", "HALF_EVEN"}
RoundAt(d, scale, mode) ==
    LET unit == 10^(d.s - scale)
        kept == Magnitude(d.u) \div unit
        twice == 2 * (Magnitude(d.u) % unit)
        away == CASE mode = "UP" -> twice > 0
                  [] mode = "DOWN" -> FALSE
                  [] mode = "CEILING" -> twice > 0 /\ d.u > 0
                  [] mode = "FLOOR" -> twice > 0 /\ d.u < 0
                  [] mode = "HALF_UP" -> twice >= unit
                  [] mode = "HALF_DOWN" -> twice > unit
                  [] mode = "HALF_EVEN" -> twice > unit \/ (twice = unit /\ kept % 2 = 1)
    IN  IF scale >= d.s THEN Dec(AlignedTo(d, scale), scale)
        ELSE Dec(Signum(d.u) * (IF away THEN kept + 1 ELSE kept), scale)
SameValue(a, b) == Order(a, b) = 0
FitsAtScale(d, scale) == scale >= d.s \/ SameValue(RoundAt(d, scale, "DOWN"), d)
NoDec == Dec(0, 99)
WithScale(d, scale, mode) ==
    CASE mode # "UNNECESSARY" -> RoundAt(d, scale, mode)
      [] mode = "UNNECESSARY" /\ FitsAtScale(d, scale) -> RoundAt(d, scale, "DOWN")
      [] OTHER -> NoDec
ToBigInteger(d) == RoundAt(d, 0, "DOWN")

\* Quotients.
IntegralQuotient(a, b) ==
    IF b.s >= a.s THEN Quot(a.u * 10^(b.s - a.s), b.u) ELSE Quot(a.u, b.u * 10^(a.s - b.s))
\* The scale is the preferred one even when the quotient does not fit it.
DivideToIntegralAtScale(a, b) == Dec(IntegralQuotient(a, b), a.s - b.s)
DivideToIntegral(a, b) ==
    IF Order(AbsDec(a), AbsDec(b)) < 0 THEN Dec(0, a.s - b.s) ELSE AtPreferredScale(IntegralQuotient(a, b), 0, a.s - b.s)
Remainder(a, b) == SubDec(a, MulDec(DivideToIntegral(a, b), b))
FlooredMod(a, b) == LET r == Remainder(a, b) IN IF r.u < 0 THEN AddDec(r, b) ELSE r

RECURSIVE FactorsOf(_, _)
FactorsOf(n, p) == IF n % p = 0 THEN 1 + FactorsOf(n \div p, p) ELSE 0
ExactDivide(a, b) ==
    LET twos == FactorsOf(Magnitude(b.u), 2)
        fives == FactorsOf(Magnitude(b.u), 5)
        rest == Magnitude(b.u) \div (2^twos * 5^fives)
        k == Max({twos, fives})
    IN  CASE a.u = 0 -> Dec(0, a.s - b.s)
          [] a.u # 0 /\ Rem(a.u, rest) # 0 -> NoDec
          [] OTHER -> AtPreferredScale(Signum(b.u) * Quot(Quot(a.u, rest) * 10^k, 2^twos * 5^fives), k + a.s - b.s, a.s - b.s)

DivideToPrecision(a, b, precision) ==
    LET shift == Max({precision + 2 + DigitCount(b.u) - DigitCount(a.u), 0})
        q == (Magnitude(a.u) * 10^shift) \div Magnitude(b.u)
        drop == DigitCount(q) - precision
        cut == q \div 10^drop
        rounded == IF (q % 10^drop) * 2 >= 10^drop THEN cut + 1 ELSE cut
        carried == DigitCount(rounded) > precision
    IN  Dec(Signum(a.u) * Signum(b.u) * IF carried THEN rounded \div 10 ELSE rounded,
            shift - (IF carried THEN drop + 1 ELSE drop) + a.s - b.s)
Divide(a, b) ==
    LET exact == ExactDivide(a, b)
        q == DivideToPrecision(a, b, Max({DigitCount(a.u), DigitCount(b.u)}) + ExtraPrecision)
        cap == Max({a.s, b.s, MinScale})
    IN  IF exact # NoDec THEN exact ELSE IF q.s > cap THEN RoundAt(q, cap, "HALF_UP") ELSE q
DivideToScale(a, b, scale) ==
    LET exact == ExactDivide(a, b)
    IN  IF exact # NoDec THEN exact ELSE DivideToPrecision(a, b, DigitCount(a.u) + Max({scale, 0}) + ExtraPrecision)

\* The methods: `divide` of a BigInteger, of a BigDecimal to a scale, and
\* under a MathContext; the remainder and modulus of a BigInteger.
BigDivide(a, b) == ToBigInteger(Divide(a, b))
DivideScaled(a, b, scale, mode) == WithScale(DivideToScale(a, b, scale + ScaleMargin), scale, mode)
RoundTo(d, precision, mode) ==
    LET over == DigitCount(d.u) - precision
        rounded == RoundAt(d, d.s - over, mode)
    IN  CASE precision = 0 \/ over <= 0 -> d
          [] precision # 0 /\ over > 0 /\ DigitCount(rounded.u) > precision -> RoundAt(rounded, rounded.s - 1, mode)
          [] OTHER -> rounded
DivideIn(a, b, precision, mode) ==
    LET exact == ExactDivide(a, b)
    IN  RoundTo(IF exact # NoDec THEN exact ELSE DivideToPrecision(a, b, precision + GuardDigits), precision, mode)
BigMod(a, b) == LET r == Remainder(a, b) IN IF r.u < 0 THEN AddDec(r, b) ELSE r
MovePoint(d, n) == LET moved == Dec(d.u, d.s + n) IN IF moved.s < 0 THEN RoundAt(moved, 0, "DOWN") ELSE moved
ScaleByPowerOfTen(d, n) == Dec(d.u, d.s - n)
DivideToIntegralMethod(a, b) == RoundAt(DivideToIntegral(a, b), Max({a.s - b.s, 0}), "DOWN")
MaxOf(a, b) == IF Order(a, b) >= 0 THEN a ELSE b
MinOf(a, b) == IF Order(a, b) <= 0 THEN a ELSE b

\* The texts: the digits written, how many of them follow the point, and the
\* exponent.
TextOf(digits, fraction, exponent) == [digits |-> digits, fraction |-> fraction, exponent |-> exponent]
ParseDec(t) == Dec(t.digits, t.fraction - t.exponent)
Adjusted(d) == DigitCount(d.u) - 1 - d.s
WrittenPlainly(d) == d.s = 0 \/ (d.s > 0 /\ Adjusted(d) >= -6)
ToText(d) == IF WrittenPlainly(d) THEN TextOf(d.u, d.s, 0) ELSE TextOf(d.u, DigitCount(d.u) - 1, Adjusted(d))
ToPlainText(d) == IF d.s <= 0 THEN TextOf(AlignedTo(d, 0), 0, 0) ELSE TextOf(d.u, d.s, 0)
ToEngineeringText(d) ==
    LET need == (Adjusted(d) % 3) + 1
        padded == d.u * 10^Max({need - DigitCount(d.u), 0})
    IN  IF WrittenPlainly(d) \/ d.u = 0 THEN ToText(d)
        ELSE TextOf(padded, Max({DigitCount(d.u) - need, 0}), Adjusted(d) - (Adjusted(d) % 3))

\* java.math.BigInteger.
LowBits(d, width) ==
    LET n == ToBigInteger(d).u
        magnitude == Magnitude(n) % 2^(2 * WordBits)
        wrapped == IF n < 0 THEN -magnitude ELSE magnitude
        low == wrapped % 2^width
    IN  IF low >= 2^(width - 1) THEN low - 2^width ELSE low
BitNot(n) == -n - 1
Unsigned(n) == IF n < 0 THEN BitNot(n) ELSE n
BitLength(n) == Min({k \in 0 .. 30 : Unsigned(n) < 2^k})
BitCount(n) == Cardinality({i \in 0 .. 29 : (Unsigned(n) \div 2^i) % 2 = 1})
ShiftLeft(n, k) == IF k >= 0 THEN n * 2^k ELSE n \div 2^(-k)
TestBit(n, i) == (n \div 2^i) % 2 = 1
SetBit(n, i) == IF TestBit(n, i) THEN n ELSE n + 2^i
ClearBit(n, i) == IF TestBit(n, i) THEN n - 2^i ELSE n
LowestSetBit(n) == IF n = 0 THEN -1 ELSE Min({i \in 0 .. 29 : TestBit(n, i)})

RECURSIVE EuclidGcd(_, _)
EuclidGcd(a, b) == IF b = 0 THEN a ELSE EuclidGcd(b, a % b)
Gcd(a, b) == EuclidGcd(Magnitude(a), Magnitude(b))
RECURSIVE Bezout(_, _, _, _)
Bezout(oldR, r, oldS, s) == IF r = 0 THEN <<oldR, oldS>> ELSE LET q == oldR \div r IN Bezout(r, oldR - q * r, s, oldS - q * s)
NotInvertible == -1
ModInverse(a, m) == LET end == Bezout(a % m, m, 1, 0) IN IF end[1] # 1 THEN NotInvertible ELSE ((end[2] % m) + m) % m
RECURSIVE PowMod(_, _, _)
PowMod(base, e, m) == IF e = 0 THEN 1 % m ELSE LET half == PowMod((base * base) % m, e \div 2, m) IN IF e % 2 = 1 THEN (half * base) % m ELSE half
ModPow(n, e, m) ==
    IF e < 0 THEN (LET inv == ModInverse(n, m) IN IF inv = NotInvertible THEN NotInvertible ELSE PowMod(inv, -e, m)) ELSE PowMod(n % m, e, m)
IsProbablePrime(m) ==
    LET n == Magnitude(m)
        bases == {WitnessBases[i] : i \in DOMAIN WitnessBases}
        r == FactorsOf(n - 1, 2)
        odd == (n - 1) \div 2^r
        passes(a) == \/ PowMod(a, odd, n) = 1
                     \/ \E i \in 0 .. r - 1 : PowMod(a, odd * 2^i, n) = n - 1
    IN  CASE n < 2 -> FALSE
          [] n >= 2 /\ n \in bases -> TRUE
          [] n >= 2 /\ n \notin bases /\ (\E p \in bases : n % p = 0) -> FALSE
          [] OTHER -> \A a \in bases : passes(a)
RECURSIVE NextProbablePrime(_)
NextProbablePrime(n) == IF IsProbablePrime(n + 1) THEN n + 1 ELSE NextProbablePrime(n + 1)
=============================================================================
