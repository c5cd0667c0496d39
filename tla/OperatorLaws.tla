---------------------------- MODULE OperatorLaws ----------------------------
(***************************************************************************)
(* What an operator answers, said over the numbers its operands stand for  *)
(* and the rules of Java's NumberMath, whatever way it took.               *)
(***************************************************************************)
EXTENDS Operators

CONSTANTS Numbers,         \* the operands that are numbers, and of them
          Integers4, Small, Exponents,    \*   plain and boxed integers, bases and exponents
          Rest             \* and those that are not

VARIABLES operation,       \* the operation written, or NoOperation
          result           \* what it answered
operationVars == <<operation, result>>

NoOperation == [op |-> "none"]

OperationInit == operation = NoOperation /\ result = <<"none">>
Op(op, l, r, lw, rw) == [op |-> op, l |-> l, r |-> r, lw |-> lw /\ Kind(l) = "int", rw |-> rw /\ Kind(r) = "int"]
Arithmetic == {"+", "-", "*", "/", "%", "<<", ">>", ">>>", "and", "or", "xor"}
\* Any two operands, and any two integers whose width the compiler may know.
WriteArithmetic ==
    \E op \in Arithmetic :
        \/ \E l \in Numbers \cup Rest, r \in Numbers \cup Rest : operation' = Op(op, l, r, FALSE, FALSE)
        \/ \E l, r \in Integers4, lw, rw \in BOOLEAN : operation' = Op(op, l, r, lw, rw)
WritePower ==
    \E l \in Small \cup Rest, r \in Exponents, lw, rw \in BOOLEAN : operation' = Op("**", l, r, lw, rw)
WriteUnary == \E op \in {"neg", "~"}, v \in Numbers \cup Rest : operation' = Op(op, v, v, FALSE, FALSE)
WriteComparison == \E op \in Comparisons, l \in Numbers, r \in Numbers : operation' = Op(op, l, r, FALSE, FALSE)
WriteOperation ==
    /\ operation = NoOperation
    /\ WriteArithmetic \/ WritePower \/ WriteUnary \/ WriteComparison
    /\ result' = Evaluate(operation')

-----------------------------------------------------------------------------
\* The class a reader of the program sees, and the number behind it.
JavaClass(v, wide) ==
    CASE Kind(v) \in {"dbl", "nan", "infinite"} -> "Double"
      [] Kind(v) = "flt" -> "Float"
      [] Kind(v) = "dec" -> "BigDecimal"
      [] Kind(v) = "big" -> "BigInteger"
      [] Kind(v) \in {"int", "long", "short", "char"} -> IF Kind(v) = "long" \/ BeyondInteger(v) \/ (wide /\ Kind(v) = "int") THEN "Long" ELSE "Integer"
      [] OTHER -> "none"
NumberOf(v) == IF Kind(v) = "char" THEN Dec(v[2], 0) ELSE v[2]
IntClasses == {"Integer", "Long"}
Promoted(p, q) ==
    CASE {p, q} \cap {"Double", "Float"} # {} -> "Double"
      [] {p, q} \cap {"Double", "Float"} = {} /\ "BigDecimal" \in {p, q} -> "BigDecimal"
      [] {p, q} \subseteq IntClasses -> IF "Long" \in {p, q} THEN "Long" ELSE "Integer"
      [] OTHER -> "BigInteger"
\* A Long past the Integers that is in no box and of no width the compiler
\* knows is told by its magnitude alone: of what it makes only the number is
\* asked, its class being lost where that fits an Integer.
LongSite(o) == o.lw \/ o.rw \/ BeyondInteger(o.l) \/ BeyondInteger(o.r)
LeftLong(o) == o.lw \/ BeyondInteger(o.l)
WidthOf(class) == IF class = "Long" THEN LongWidth ELSE IntegerWidth
InClass(d, class) == IF class \in IntClasses THEN Dec(Wrapped(d.u, WidthOf(class)), 0) ELSE d
Is(r, class, d, wide) == JavaClass(r, wide) = class /\ SameValue(r[2], d)

\* Where this code does not answer as Java does, and what it answers there:
\*  - a box beside a Character: `+` joins the texts after a Character, the
\*    rest is refused, and `==` and the orders go by the texts;
\*  - a box beside an Integer, another box or a Character is ordered by its
\*    text, and its remainder is refused, unless the divisor is zero;
\*  - a Character has no quotient and, beside an integer, no remainder; one
\*    by an exact zero is an error no script can catch;
\*  - a Long of no known width is shifted as an Integer;
\*  - a BigInteger has bits in common with a whole BigDecimal.
HasChar(o) == "char" \in {Kind(o.l), Kind(o.r)}
BoxMeetsChar(o) == HasChar(o) /\ (IsBox(o.l) \/ IsBox(o.r))
IsRaised(r) == Kind(r) = "raises"
JoinedOrRefused(o, r) == IF o.op = "+" /\ Kind(o.l) = "char" THEN r = <<"str", Codes(o.l) \o Codes(Unbox(o.r))>> ELSE IsRaised(r)
NoQuotient(p, q, r) == IF Promoted(p, q) = "Double" THEN r = NaN ELSE IsRaised(r)
RemainderIsRefused(o, p, q) == {p, q} \subseteq IntClasses /\ (HasChar(o) \/ ((IsBox(o.l) \/ IsBox(o.r)) /\ NumberOf(o.r).u # 0))
ZeroUnderChar(o, p, q) == Kind(o.l) = "char" /\ Promoted(p, q) \in {"BigInteger", "BigDecimal"} /\ NumberOf(o.r).u = 0
ShiftedAs(o, p) == IF BeyondInteger(o.l) /\ ~o.lw THEN "Integer" ELSE p
WholeDecimal(v) == IsDecHandle(v) /\ SameValue(v[2], ToBigInteger(v[2]))
BigMeetsWholeDecimal(o, p, q) == {p, q} = {"BigInteger", "BigDecimal"} /\ WholeDecimal(o.l) /\ WholeDecimal(o.r)

SumLike(op, x, y) == CASE op = "+" -> AddDec(x, y) [] op = "-" -> SubDec(x, y) [] op = "*" -> MulDec(x, y)
SumsPromote(o, p, q, r) ==
    LET class == Promoted(p, q)
        x == IF class = "Double" THEN ToDouble(NumberOf(o.l)) ELSE NumberOf(o.l)
        y == IF class = "Double" THEN ToDouble(NumberOf(o.r)) ELSE NumberOf(o.r)
        exact == SumLike(o.op, x, y)
    IN  Is(r, class, IF class = "Double" THEN ToDouble(exact) ELSE InClass(exact, class), LongSite(o))
\* A quotient is a BigDecimal unless a double takes part; by zero there is
\* none.  It is exact where its digits end, and else the nearest of as many
\* digits as the longer operand has and ExtraPrecision more, unless that is
\* finer than the scale a quotient may have.  Divisors are below 2^LastPlace.
LastPlace == 6
HasLastDigit(x, y) == \E k \in 0 .. LastPlace : (x.u * 10^k) % Magnitude(y.u) = 0
LeftOver(x, y, q) == AbsDec(SubDec(x, MulDec(q, y)))
IsNearest(x, y, q) == Order(MulDec(Dec(2, 0), LeftOver(x, y, q)), MulDec(Dec(1, q.s), AbsDec(y))) <= 0
IsQuotient(x, y, q) ==
    LET finest == Max({x.s, y.s, MinScale})
    IN  IF HasLastDigit(x, y) THEN LeftOver(x, y, q).u = 0
        ELSE /\ IsNearest(x, y, q)
             /\ \/ q.s = finest
                \/ q.s < finest /\ DigitCount(q.u) = Max({DigitCount(x.u), DigitCount(y.u)}) + ExtraPrecision
IsDoubleQuotient(x, y, r) ==
    IF y.u = 0 THEN Kind(r) = IF x.u = 0 THEN "nan" ELSE "infinite"
    ELSE /\ Kind(r) = "dbl" /\ SameValue(r[2], ToDouble(r[2]))
         /\ IF Magnitude(ToBigInteger(r[2]).u) < DoubleExact THEN IsQuotient(x, y, r[2])
            ELSE Order(LeftOver(x, y, r[2]), MulDec(Dec(2, 0), AbsDec(y))) < 0
QuotientsDivide(o, p, q, r) ==
    LET x == NumberOf(o.l)
        y == NumberOf(o.r)
    IN  CASE Promoted(p, q) = "Double" -> IsDoubleQuotient(ToDouble(x), ToDouble(y), r)
          [] Promoted(p, q) # "Double" /\ y.u = 0 -> r = ByZero
          [] OTHER -> JavaClass(r, FALSE) = "BigDecimal" /\ IsQuotient(x, y, r[2])
\* A remainder has the dividend's sign, is below the divisor, and leaves a multiple of it.
RemaindersTruncate(o, p, q, r) ==
    LET exact == p = "BigDecimal" /\ q \in {"Double", "Float"}      \* the one mixed pair that stays exact
        class == IF exact THEN "BigDecimal" ELSE Promoted(p, q)
        x == IF class = "Double" THEN ToDouble(NumberOf(o.l)) ELSE NumberOf(o.l)
        y == IF class = "Double" THEN ToDouble(NumberOf(o.r)) ELSE NumberOf(o.r)
    IN  IF y.u = 0 THEN IF Promoted(p, q) = "Double" /\ ~exact THEN r = NaN ELSE r = ByZero
        ELSE /\ JavaClass(r, LongSite(o)) = class
             /\ Order(AbsDec(r[2]), AbsDec(y)) < 0 /\ Signum(r[2].u) * Signum(x.u) >= 0
             /\ \E k \in -300 .. 300 : SameValue(SubDec(x, r[2]), MulDec(Dec(k, 0), y))
\* `<<` multiplies, `>>` divides and rounds down, `>>>` divides the unsigned
\* number, at the width of what is shifted, the count masked to that width.
\* That width is the compiler's or the box's alone: no magnitude stands in.
ShiftsAtTheLeftWidth(o, p, r) ==
    LET n == IF p \in IntClasses THEN Wrapped(NumberOf(o.l).u, WidthOf(p)) ELSE NumberOf(o.l).u
        k == NumberOf(o.r).u % WidthOf(p)
        far == Wrapped(NumberOf(o.r).u, IntegerWidth)
        exact == CASE o.op = "<<" -> n * 2^k [] o.op = ">>" -> n \div 2^k [] o.op = ">>>" -> (n % 2^WidthOf(p)) \div 2^k
        times == IF (o.op = "<<") = (far >= 0) THEN n * 2^Magnitude(far) ELSE n \div 2^Magnitude(far)
    IN  IF p \in IntClasses THEN Is(r, p, InClass(Dec(exact, 0), p), o.lw)
        ELSE IF o.op = ">>>" THEN r[1] = "raises" ELSE Is(r, "BigInteger", Dec(times, 0), FALSE)
\* x and y, x or y, x xor y are what adding would carry, and what is left of it.
BitsAdd(o, class, r) ==
    LET x == ToBigInteger(NumberOf(o.l)).u
        y == ToBigInteger(NumberOf(o.r)).u
        common == BitOp("and", x, y)
    IN  /\ JavaClass(r, LongSite(o)) = class
        /\ CASE o.op = "and" -> SameValue(r[2], Dec(x + y - BitOp("or", x, y), 0))
             [] o.op = "or" -> r[2].u = x + y - common
             [] o.op = "xor" -> r[2].u = x + y - 2 * common
\* A power is exact while its base and exponent are, and as narrow as the base.
PowersNarrow(o, p, q, r) ==
    LET x == NumberOf(o.l)
        e == NumberOf(o.r).u
        leaves == \/ q \in {"Long", "BigInteger"} /\ p # "BigInteger"
                  \/ p \in {"Double", "Float"} \/ q \notin {"Integer", "Long", "BigInteger"}
                  \/ e < 0 /\ ~(p = "BigInteger" /\ q = "BigInteger")
        wide == ResultIsWide(o) \/ LeftLong(o)
    IN  IF leaves THEN JavaClass(r, wide) \in {"Integer", "Long", "Double"} /\ (Kind(r) = "dbl" => ~SameValue(r[2], ToBigInteger(r[2])))
        ELSE IF e < 0 THEN Kind(r) \in {"big", "raises"}
        ELSE LET exact == PowDec(x, e)
                 fits == p \in IntClasses /\ Wrapped(exact.u, WidthOf(p)) = exact.u
             IN  Is(r, IF p \in IntClasses THEN (IF fits THEN p ELSE "BigInteger") ELSE p, exact, wide)

\* Numbers are in the order of their doubles where a double takes part, and
\* else in their own.
OrderOfNumbers(o, p, q) ==
    IF Promoted(p, q) = "Double" THEN Order(ToDouble(NumberOf(o.l)), ToDouble(NumberOf(o.r))) ELSE Order(NumberOf(o.l), NumberOf(o.r))
OrderOfTexts(o) == CompareCodes(Codes(Unbox(o.l)), Codes(Unbox(o.r)))
SignHolds(op, sign) ==
    CASE op = "==" -> sign = 0 [] op = "!=" -> sign # 0 [] op = "<" -> sign < 0
      [] op = "<=" -> sign <= 0 [] op = ">" -> sign > 0 [] op = ">=" -> sign >= 0
Whole(p) == p \in {"Integer", "Long", "BigInteger"}
WholeNumbers(o, p, q) == ~HasChar(o) /\ Whole(p) /\ Whole(q)
Answers4(o, p, q, r) ==
    CASE o.op \in {"+", "-", "*"} -> IF BoxMeetsChar(o) THEN JoinedOrRefused(o, r) ELSE SumsPromote(o, p, q, r)
      [] o.op = "/" -> IF HasChar(o) THEN NoQuotient(p, q, r) ELSE QuotientsDivide(o, p, q, r)
      [] o.op = "%" ->
           IF RemainderIsRefused(o, p, q) THEN IsRaised(r) ELSE IF ZeroUnderChar(o, p, q) THEN r = Faults ELSE RemaindersTruncate(o, p, q, r)
      [] o.op \in {"<<", ">>", ">>>"} -> IF WholeNumbers(o, p, q) THEN ShiftsAtTheLeftWidth(o, ShiftedAs(o, p), r) ELSE IsRaised(r)
      [] o.op \in {"and", "or", "xor"} ->
           IF WholeNumbers(o, p, q) \/ BigMeetsWholeDecimal(o, p, q)
           THEN BitsAdd(o, IF Whole(p) /\ Whole(q) THEN Promoted(p, q) ELSE "BigInteger", r)
           ELSE IsRaised(r)
      [] o.op = "**" -> IF HasChar(o) THEN IsRaised(r) ELSE PowersNarrow(o, p, q, r)
      [] o.op = "neg" -> Is(r, p, InClass(NegDec(NumberOf(o.l)), p), LeftLong(o))
      [] o.op = "~" -> IF WholeNumbers(o, p, p) THEN Is(r, p, Dec(-NumberOf(o.l).u - 1, 0), LeftLong(o)) ELSE IsRaised(r)
      [] o.op \in Comparisons -> r = BoolOf(SignHolds(o.op, IF UnboxedPair(o.l, o.r) THEN OrderOfTexts(o) ELSE OrderOfNumbers(o, p, q)))
\* Every operator on two numbers answers the number Java's NumberMath answers,
\* of Java's class and width, or refuses the pair as Groovy does; but for the
\* cases listed above (HasChar to BigMeetsWholeDecimal), where it answers what
\* is said there.  Of a Long known by its magnitude alone only the number is
\* asked, and of a power that leaves the exact numbers only the class.
ComputesAsJava ==
    LET o == operation
    IN  (o # NoOperation /\ IsNumberOrChar(o.l) /\ IsNumberOrChar(o.r) /\ NaN \notin {o.l, o.r}) =>
            Answers4(o, JavaClass(o.l, o.lw), JavaClass(o.r, o.rw), result)

TextFrom(o, r) ==
    /\ Kind(r) \in {"str", "gstr", "buffer", "pattern"} => IsText(o.l) \/ IsText(o.r)
    /\ (o.op = "+" /\ Kind(o.l) = "str") => Kind(r) = "str" /\ SubSeq(r[2], 1, Len(o.l[2])) = o.l[2]
    /\ (o.op = "+" /\ Kind(o.l) = "null" /\ ~IsText(o.r)) => Kind(r) = "raises"
\* An operator answers a text only where a text took part, but for a box after
\* a Character (see above): what has no overload for its operand is refused,
\* never written out and joined.
TextComesFromText == (operation # NoOperation /\ ~BoxMeetsChar(operation)) => TextFrom(operation, result)

\* host.rs: arithmetic with a Long, Short or Byte box taking part runs "on the
\* numbers".  An operand that is boxed compares and divides as its number does.
BoxesComputeOnTheNumbers ==
    (operation # NoOperation /\ operation.op \in Comparisons \cup {"+", "-", "*", "%"} /\ {Kind(operation.l), Kind(operation.r)} \subseteq {"int", "short", "char"}) =>
        result = Evaluate([operation EXCEPT !.l = Unbox(@), !.r = Unbox(@)])
=============================================================================
