---------------------------- MODULE DecimalLaws ----------------------------
(***************************************************************************)
(* What the arithmetic of decimals is for, said over the rational numbers  *)
(* the pairs stand for.                                                    *)
(***************************************************************************)
EXTENDS Decimals

CONSTANTS Unscaleds, Scales,   \* the operands
          AskedIntegers            \* the integers the number theory is asked about

VARIABLES decs,                \* <<a, b>>: the operands, or <<>>
          asked                \* an integer of AskedIntegers, or NotAsked
numberVars == <<decs, asked>>
NotAsked == 1000000

NumberInit == decs = <<>> /\ asked = NotAsked
WriteDecimals ==
    /\ decs = <<>> /\ asked = NotAsked
    /\ \E u, v \in Unscaleds, s, t \in Scales : decs' = <<Dec(u, s), Dec(v, t)>>
    /\ UNCHANGED asked
WriteInteger ==
    /\ decs = <<>> /\ asked = NotAsked
    /\ \E n \in AskedIntegers : asked' = n
    /\ UNCHANGED decs

\* q is a / b rounded at q's own scale in the given mode.
RoundedQuotient(q, a, b, mode) ==
    LET left == SubDec(a, MulDec(q, b))
        unit == MulDec(AbsDec(b), Dec(1, q.s))
        half == Order(MulDec(Dec(2, 0), AbsDec(left)), unit)
        beyond == Signum(left.u) = -Signum(a.u)        \* rounded away from zero
        halves == half <= 0
    IN  /\ Order(AbsDec(left), unit) < 0
        /\ mode = "DOWN" => left.u = 0 \/ ~beyond
        /\ mode = "UP" => left.u = 0 \/ beyond
        /\ mode = "FLOOR" => Signum(left.u) * Signum(b.u) >= 0
        /\ mode = "CEILING" => Signum(left.u) * Signum(b.u) <= 0
        /\ mode = "HALF_UP" => halves /\ (half = 0 => beyond)
        /\ mode = "HALF_DOWN" => halves /\ (half = 0 => ~beyond)
        /\ mode = "HALF_EVEN" => halves /\ (half = 0 => q.u % 2 = 0)
DecOne == Dec(1, 0)
Terminates(a, b) == \E k \in 0 .. 4 : (a.u * 10^k) % Magnitude(b.u) = 0
LeastScale(a, b) ==      \* the smallest scale that holds a / b
    a.s - b.s + Min({j \in -6 .. 3 : IF j >= 0 THEN (a.u * 10^j) % Magnitude(b.u) = 0 ELSE a.u % (Magnitude(b.u) * 10^(-j)) = 0})

\* Sums, products, powers, remainders and texts are exact, with Java's
\* scales; a quotient is exact when one exists, at the scale nearest the
\* preferred one, and otherwise the nearest decimal of its digits.
DecimalsExact ==
    decs # <<>> =>
        LET a == decs[1]
            b == decs[2]
            t == ToText(a)
            e == ToEngineeringText(a)
        IN  /\ AddDec(a, b).u = a.u * 10^(AddDec(a, b).s - a.s) + b.u * 10^(AddDec(a, b).s - b.s)
            /\ SameValue(SubDec(AddDec(a, b), b), a)
            /\ PowDec(a, 0) = DecOne /\ \A k \in 0 .. 3 : PowDec(a, k + 1) = MulDec(PowDec(a, k), a)
            /\ LET z == StripTrailingZeros(a) IN SameValue(z, a) /\ (z.u % 10 = 0 => z = Dec(0, 0))
            /\ ParseDec(t) = a /\ SameValue(ParseDec(ToPlainText(a)), a)
            /\ SameValue(ParseDec(e), a) /\ (a.u # 0 => e.exponent % 3 = 0)
            /\ SameValue(MovePoint(a, 1), MulDec(a, Dec(1, 1))) /\ SameValue(ScaleByPowerOfTen(a, 2), MulDec(a, Dec(100, 0)))
            /\ \A mode \in RoundingModes : \A p \in 1 .. 2 :
                 LET r == RoundTo(a, p, mode)
                 IN  DigitCount(r.u) <= p /\ (r # a => r.u # 0 /\ Order(AbsDec(SubDec(a, r)), Dec(1, r.s)) < 0)
            /\ Order(MaxOf(a, b), MinOf(a, b)) >= 0
            /\ b.u # 0 =>
                 LET r == Remainder(a, b)
                     m == FlooredMod(a, b)
                     q == Divide(a, b)
                     x == ExactDivide(a, b)
                 IN  /\ RoundedQuotient(Dec(IntegralQuotient(a, b), 0), a, b, "DOWN")
                     /\ Order(AbsDec(r), AbsDec(b)) < 0 /\ Signum(r.u) \in {0, Signum(a.u)}
                     /\ SameValue(AddDec(MulDec(DivideToIntegral(a, b), b), r), a)
                     /\ b.u > 0 => m.u >= 0 /\ Order(m, b) < 0
                     /\ SameValue(DivideToIntegralMethod(a, b), DivideToIntegral(a, b))
                     /\ (x # NoDec) = Terminates(a, b)
                     /\ x # NoDec => SameValue(MulDec(x, b), a) /\ (a.u # 0 => x.s = Max({a.s - b.s, LeastScale(a, b)})) /\ q = x
                     /\ x = NoDec => /\ q.s <= Max({a.s, b.s, MinScale})
                                     /\ Order(AbsDec(SubDec(a, MulDec(q, b))), MulDec(AbsDec(b), Dec(1, q.s))) < 0
                     /\ \A p \in 1 .. 2 :
                          LET y == DivideToPrecision(a, b, p)
                          IN  /\ a.u # 0 => DigitCount(y.u) = p /\ RoundedQuotient(y, a, b, "HALF_UP")
                              /\ \A mode \in RoundingModes :
                                   LET c == DivideIn(a, b, p, mode)
                                   IN  x = NoDec => RoundedQuotient(c, a, b, mode)
                     /\ a.s >= b.s => \A mode \in RoundingModes : \A k \in 0 .. 1 : RoundedQuotient(DivideScaled(a, b, k, mode), a, b, mode)

Prime(n) == Magnitude(n) >= 2 /\ \A k \in 2 .. 40 : k < Magnitude(n) => Magnitude(n) % k # 0

\* The integer methods answer what they are named for: divisors, inverses,
\* powers, primes and the bits of two's complement.
IntegersExact ==
    asked # NotAsked =>
        LET n == asked
            near == 0 .. 12
        IN  /\ \A m \in near : LET g == Gcd(n, m) IN (n # 0 \/ m # 0) => g > 0 /\ n % g = 0 /\ m % g = 0 /\ \A k \in 1 .. 12 : (n % k = 0 /\ m % k = 0) => g % k = 0
            /\ \A m \in 1 .. 12 :
                 LET i == ModInverse(n, m)
                 IN  /\ (i = NotInvertible) = (Gcd(n, m) # 1)
                     /\ i # NotInvertible => i \in 0 .. m - 1 /\ (i * n) % m = 1 % m
                     /\ (n % m > 0) => ModPow(n, 5, m) = (n % m)^5 % m
                     /\ BigMod(Dec(n, 0), Dec(m, 0)) = Dec(n % m, 0)
            /\ IsProbablePrime(n) = Prime(n)
            /\ n >= 0 => LET p == NextProbablePrime(n) IN p > n /\ Prime(p) /\ \A m \in n + 1 .. p - 1 : ~Prime(m)
            /\ \A width \in {WordBits, 2 * WordBits} :
                 LET low == LowBits(Dec(n, 0), width) IN low \in -(2^(width - 1)) .. 2^(width - 1) - 1 /\ (low - n) % 2^width = 0
            /\ LET w == BitLength(n) IN n \in -(2^w) .. 2^w - 1 /\ (w > 0 => n \notin -(2^(w - 1)) .. 2^(w - 1) - 1)
            /\ BitCount(n) = BitCount(BitNot(n))
            /\ \A i \in 0 .. 4 : /\ TestBit(SetBit(n, i), i) /\ ~TestBit(ClearBit(n, i), i)
                                 /\ \A j \in 0 .. 6 \ {i} : TestBit(SetBit(n, i), j) = TestBit(n, j) /\ TestBit(ClearBit(n, i), j) = TestBit(n, j)
                                 /\ ShiftLeft(ShiftLeft(n, i), -i) = n
            /\ n # 0 => n % 2^LowestSetBit(n) = 0 /\ (n \div 2^LowestSetBit(n)) % 2 = 1

\* Both: an answer of decimal.rs or bignum.rs is the number the operation is
\* named for, however its operands are scaled or signed.
ArithmeticIsExact == DecimalsExact /\ IntegersExact

\* decimal.rs: "Reaching it through `divide` and truncating instead reads a
\* rounded quotient": a BigInteger divides towards zero.
BigIntegersDivideTowardZero ==
    decs # <<>> => LET a == decs[1]
                       b == decs[2]
                   IN  (a.s = 0 /\ b.s = 0 /\ b.u # 0) => BigDivide(a, b).u = Quot(a.u, b.u)
=============================================================================
