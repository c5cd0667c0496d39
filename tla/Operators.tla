------------------------------ MODULE Operators ------------------------------
(***************************************************************************)
(* The binary and unary operators of a script: which way Compiler::binary  *)
(* lowers one, and what the numeric hook and the builtins of               *)
(* src/src/host.rs answer for a pair of operands.                          *)
(*                                                                         *)
(* The virtual machine has one integer, so an Integer and a Long are told  *)
(* apart three ways: by a box (<<"long", d>>, <<"short", d>>), by the      *)
(* magnitude of a plain <<"int", d>>, and by the width the compiler knows  *)
(* of an expression (lw, rw).  Each operator has to carry all three over.  *)
(***************************************************************************)
EXTENDS Equality

CONSTANTS IntegerWidth, LongWidth      \* the bits of an Integer and of a Long, 32 and 64

BoolOf(b) == <<"bool", b>>
Double(d) == <<"dbl", ToDouble(d)>>
NaN == <<"nan">>
Throws(class) == <<"raises", class>>
MissingMethod == Throws("MissingMethodException")
ByZero == Throws("ArithmeticException")
Faults == <<"faults">>                 \* an error no script can catch
Declined == <<"declined">>
Dispatched(method) == <<"dispatched", method>>     \* the method of that name answers

\* Integers: their widths and their boxes.
Wrapped(n, width) == ((n + 2^(width - 1)) % 2^width) - 2^(width - 1)
FitsInteger(n) == Wrapped(n, IntegerWidth) = n
IntegerOf(v) == v[2].u
WrapToWidth(n, wide) == IntOf(Wrapped(n, IF wide THEN LongWidth ELSE IntegerWidth))
LongValue(n) == IF FitsInteger(n) THEN <<"long", Dec(n, 0)>> ELSE IntOf(n)
IsLongBox(v) == Kind(v) = "long"
Rebox(long, v) == IF long /\ Kind(v) = "int" THEN LongValue(IntegerOf(v)) ELSE v
BeyondInteger(v) == Kind(v) = "int" /\ ~FitsInteger(IntegerOf(v))
ArithIsWide(site, a, b) == site \/ BeyondInteger(a) \/ BeyondInteger(b)
IsPlainInt(v) == Kind(v) = "int"
IsBig(v) == Kind(v) = "big"
IsIntegral(v) == Kind(v) \in {"int", "bool", "big"} \/ IsBox(v)
CharAsInt(v) == IF Kind(v) = "char" THEN IntOf(v[2]) ELSE v
IsNumberOrChar(v) == Kind(v) = "char" \/ IsNumber(v)
Widened(v) == IF Kind(v) = "flt" THEN <<"dbl", v[2]>> ELSE v

Names == [op \in {"+", "-", "*", "/", "%", "pow", "neg", "<<", ">>", ">>>", "and", "or", "xor", "~"} |->
            CASE op = "+" -> "plus" [] op = "-" -> "minus" [] op = "*" -> "multiply" [] op = "/" -> "div" [] op = "%" -> "remainder"
              [] op = "pow" -> "power" [] op = "neg" -> "negative" [] op = "<<" -> "leftShift" [] op = ">>" -> "rightShift"
              [] op = ">>>" -> "rightShiftUnsigned" [] op = "~" -> "bitwiseNegate" [] OTHER -> op]

\* raise_operator_operand: what no overload of the operator accepts.
RaiseOperand(op, l, r) ==
    CASE Kind(l) = "null" -> Throws("NullPointerException")
      [] Kind(l) # "null" /\ (~IsNumber(l) \/ ~IsNumber(r) \/ op = "pow") -> MissingMethod
      [] OTHER -> Throws("UnsupportedOperationException")

-----------------------------------------------------------------------------
\* Arithmetic on doubles, on two integers and on decimals.
PowDouble(d, e) ==         \* the exponent is an integer; a power of zero below 0 is infinite
    IF e.u >= 0 THEN Double(PowDec(d, e.u)) ELSE IF d.u = 0 THEN <<"infinite">> ELSE Double(Divide(Dec(1, 0), PowDec(d, -e.u)))
OnDoubles(op, x, y) ==
    CASE op = "+" -> Double(AddDec(x, y))
      [] op = "-" -> Double(SubDec(x, y))
      [] op = "*" -> Double(MulDec(x, y))
      [] op = "/" -> IF y.u # 0 THEN Double(Divide(x, y)) ELSE IF x.u = 0 THEN NaN ELSE <<"infinite">>
      [] op = "%" -> IF y.u = 0 THEN NaN ELSE Double(Remainder(x, y))
      [] op = "pow" -> PowDouble(x, ToBigInteger(y))
DoubleOperator(op, f, g) ==
    CASE NaN \in {f, g} -> NaN
      [] NaN \notin {f, g} /\ op = "neg" -> Double(NegDec(Plain(f)))
      [] OTHER -> OnDoubles(op, Plain(f), Plain(g))

IntArith(op, a, b, wide) ==
    IF op = "neg" /\ IsPlainInt(a) THEN WrapToWidth(-IntegerOf(a), wide)
    ELSE IF op \notin {"+", "-", "*"} \/ ~IsPlainInt(a) \/ ~IsPlainInt(b) THEN Declined
    ELSE WrapToWidth(CASE op = "+" -> IntegerOf(a) + IntegerOf(b) [] op = "-" -> IntegerOf(a) - IntegerOf(b) [] op = "*" -> IntegerOf(a) * IntegerOf(b), wide)

ExactResult(a, b, d) == IF (IsBig(a) \/ IsBig(b)) /\ IsIntegral(a) /\ IsIntegral(b) THEN <<"big", d>> ELSE <<"dec", d>>
ExactPower(a, b, e) ==
    IF SameValue(ExactOf(b), e) /\ e.u >= 0 THEN ExactResult(a, b, PowDec(ExactOf(a), e.u)) ELSE PowDouble(ToDouble(ExactOf(a)), e)
ExactOperator(op, a, b) ==
    CASE op = "+" -> ExactResult(a, b, AddDec(ExactOf(a), ExactOf(b)))
      [] op = "-" -> ExactResult(a, b, SubDec(ExactOf(a), ExactOf(b)))
      [] op = "*" -> ExactResult(a, b, MulDec(ExactOf(a), ExactOf(b)))
      [] op = "/" -> IF ExactOf(b).u = 0 THEN Faults ELSE <<"dec", Divide(ExactOf(a), ExactOf(b))>>
      [] op = "%" -> IF ExactOf(b).u = 0 THEN Faults ELSE ExactResult(a, b, Remainder(ExactOf(a), ExactOf(b)))
      [] op = "pow" -> ExactPower(a, b, ToBigInteger(ExactOf(b)))
RemainderStaysExact(op, a, b) == op = "%" /\ Kind(a) = "dec" /\ Kind(b) = "dbl"
DecimalOperator(op, a, b) ==
    CASE op = "neg" -> IF IsDecHandle(a) THEN <<Kind(a), NegDec(a[2])>> ELSE Declined
      [] op # "neg" /\ (~(IsDecHandle(a) \/ IsDecHandle(b)) \/ Kind(a) = "str" \/ Kind(b) = "str") -> Declined
      [] RemainderStaysExact(op, a, b) -> IF b[2].u = 0 THEN Faults ELSE <<"dec", Remainder(a[2], b[2])>>
      [] op # "neg" /\ (IsDecHandle(a) \/ IsDecHandle(b)) /\ (IsDoubleValue(a) \/ IsDoubleValue(b)) /\ ~RemainderStaysExact(op, a, b)
           /\ "str" \notin {Kind(a), Kind(b)} -> DoubleOperator(op, AsF64(a), AsF64(b))
      [] OTHER -> IF IsExact(a) /\ IsExact(b) THEN ExactOperator(op, a, b) ELSE Declined
-----------------------------------------------------------------------------
\* Texts and collections under `+` and `-`.  A text is a sequence of
\* characters; that of a collection, a closure or an object is its bracket.
Bracket == 91
Rendered(v) == IF Kind(v) \in {"list", "range", "set", "map", "entry", "closure", "instance"} THEN <<Bracket>> ELSE Codes(v)
ElementsOf(v) == CASE Kind(v) \in {"list", "set"} -> v[2] [] Kind(v) = "range" -> [i \in 1 .. v[3] - v[2] + 1 |-> IntOf(v[2] + i - 1)]
AsList(v) == IF Kind(v) = "range" THEN <<"list", ElementsOf(v)>> ELSE v
AppendNew(s, x) == IF x \in ToSet(s) THEN s ELSE Append(s, x)
PutEntry(s, e) == IF \E i \in DOMAIN s : s[i][2] = e[2] THEN [i \in DOMAIN s |-> IF s[i][2] = e[2] THEN e ELSE s[i]] ELSE Append(s, e)
MapPlus(a, b) ==
    CASE Kind(b) = "map" -> <<"map", FoldLeft(PutEntry, a[2], b[2])>>
      [] IsText(b) -> <<"str", Rendered(a) \o b[2]>>
      [] Kind(b) = "list" ->
           IF \A i \in DOMAIN b[2] : Kind(b[2][i]) = "entry" THEN <<"map", FoldLeft(PutEntry, a[2], b[2])>> ELSE Throws("ClassCastException")
      [] Kind(b) = "null" -> Throws("GroovyRuntimeException")
      [] OTHER -> MissingMethod
GroovyAdd(a, b) ==
    CASE Kind(a) = "set" -> <<"set", FoldLeft(AppendNew, a[2], IF Kind(b) \in {"list", "set", "range"} THEN ElementsOf(b) ELSE <<b>>)>>
      [] Kind(a) = "list" -> <<"list", a[2] \o IF Kind(b) \in {"list", "set", "range"} THEN ElementsOf(b) ELSE <<b>>>>
      [] Kind(a) = "map" -> MapPlus(a, b)
      [] OTHER -> <<"str", Rendered(a) \o Rendered(b)>>
IsScalar(v) == Kind(v) \in {"null", "bool", "str", "gstr"} \/ IsNumberOrChar(v)
SameElement(a, b) == IF IsScalar(a) /\ IsScalar(b) THEN ValuesEqual(<<>>, a, b).eq ELSE a = b
TakesOut(s, t) == {i \in 1 .. Len(s) - Len(t) + 1 : SubSeq(s, i, i + Len(t) - 1) = t}
GroovySub(a, b) ==
    IF Kind(a) = "list"
    THEN LET drop == IF Kind(b) = "list" THEN b[2] ELSE <<b>>
         IN  <<"list", SelectSeq(a[2], LAMBDA v : \A i \in DOMAIN drop : ~SameElement(v, drop[i]))>>
    ELSE LET at == TakesOut(a[2], Rendered(b))
         IN  <<"str", IF at = {} THEN a[2] ELSE SubSeq(a[2], 1, Min(at) - 1) \o SubSeq(a[2], Min(at) + Len(Rendered(b)), Len(a[2]))>>

-----------------------------------------------------------------------------
\* The numeric hook.
IsText2(a, b) == Kind(a) = "str" \/ Kind(b) = "str"
Comparisons == {"==", "!=", "<", "<=", ">", ">="}
\* `==` and the orders of OperatorOrder, which tells an integer out of a box
\* from another.  NaN is in no order.
InOrderBy(op, order) ==
    CASE order = Refused -> Throws("IllegalArgumentException")
      [] order # Refused /\ op = "<" -> BoolOf(order < 0)
      [] order # Refused /\ op = "<=" -> BoolOf(order <= 0)
      [] order # Refused /\ op = ">" -> BoolOf(order > 0)
      [] order # Refused /\ op = ">=" -> BoolOf(order >= 0)
Compare(op, a, b) ==
    CASE op \in {"==", "!="} -> BoolOf(OperatorEquals(<<>>, a, b) = (op = "=="))
      [] op \notin {"==", "!="} /\ NaN \in {a, b} /\ IsNumber(a) /\ IsNumber(b) -> BoolOf(FALSE)
      [] OTHER -> InOrderBy(op, OperatorOrder(a, b))

NullOperand(op, b) == IF op = "+" /\ Kind(b) = "str" THEN <<"str", Codes(<<"null">>) \o b[2]>> ELSE Throws("NullPointerException")
HasNoPlusOfNumbers(a, b) == IsNumber(a) /\ ~IsNumber(b) /\ Kind(b) # "str"
HasNoPlus(a, b) == Kind(a) \in {"bool", "closure"} \/ (IsNumber(a) /\ ~IsNumber(b) /\ Kind(b) # "str")
GStringText(v) == IF Kind(v) = "gstr" THEN <<"str", v[2]>> ELSE v
IsOneElementList(v) == Kind(v) = "list" /\ Len(v[2]) = 1
LastArms(op, a, b) ==      \* what no gate above decided
    CASE op = "+" -> GroovyAdd(a, b)
      [] op = "-" /\ Kind(a) \in {"str", "list"} -> GroovySub(a, b)
      [] op = "-" /\ Kind(a) \in {"set", "map"} -> Dispatched("minus")
      [] op = "*" /\ Kind(a) \in {"str", "list"} -> Dispatched("multiply")
      [] OTHER -> RaiseOperand(op, a, IF op = "neg" THEN a ELSE b)
InDoubles(op, a, b) ==
    \/ IsDoubleValue(a) /\ (IsDoubleValue(b) \/ IsPlainInt(b) \/ op = "neg")
    \/ IsPlainInt(a) /\ IsDoubleValue(b)
OrElse(answer, op, a, b) ==       \* what decimal_operator answered, if it did not decline
    IF answer # Declined THEN answer
    ELSE IF InDoubles(op, a, b) THEN DoubleOperator(op, AsF64(a), IF op = "neg" THEN AsF64(a) ELSE AsF64(b)) ELSE LastArms(op, a, b)
Decided(op, a, b) == OrElse(DecimalOperator(op, a, b), op, a, b)
\* Below the gates a float is a double, but in a text it is written as it is.
OnNumbers(op, a, b) ==
    LET written == op = "+" /\ IsText2(a, b)
    IN  Decided(op, IF written THEN a ELSE Widened(a), IF written THEN b ELSE Widened(b))

\* The gates in their order, a GString read as its text and a range as its
\* list first: each takes the pairs the ones above leave.
Gates(op, a, b) ==
    CASE op = "neg" /\ Kind(a) = "flt" -> <<"flt", NegDec(a[2])>>
      [] Kind(a) = "instance" -> Dispatched(Names[op])
      [] Kind(a) = "null" -> NullOperand(op, b)
      [] op = "+" /\ HasNoPlus(a, b) -> IF Kind(b) = "null" /\ IsNumber(a) THEN Throws("GroovyRuntimeException") ELSE RaiseOperand("+", a, b)
      [] OTHER -> OnNumbers(op, a, b)
Read(op, l, v) == IF op = "+" /\ IsText(l) THEN GStringText(v) ELSE AsList(GStringText(v))
\* 7.plus(2), 7.remainder(2): the operators under the names of their methods.
NumberMethod(op, recv, arg) ==
    CASE ~IsPlainInt(recv) \/ ~IsPlainInt(arg) \/ op = "pow" -> Dispatched(Names[op])
      [] IsPlainInt(recv) /\ IsPlainInt(arg) /\ op = "%" -> IF IntegerOf(arg) = 0 THEN ByZero ELSE IntOf(Rem(IntegerOf(recv), IntegerOf(arg)))
      [] OTHER -> IntArith(op, recv, arg, ArithIsWide(FALSE, recv, arg))
TakesAList == {"+", "-", "*", "%", "pow"}      \* the operators a number reads a list of one operand for
NumericHookPlain(op, a, b) ==
    CASE op = "+" /\ Kind(a) = "gstr" /\ IsText(b) -> <<"gstr", a[2] \o b[2]>>
      [] op \in TakesAList /\ IsNumber(a) /\ IsOneElementList(AsList(b)) -> NumberMethod(op, a, AsList(b)[2][1])
      [] OTHER -> Gates(op, Read(op, a, a), Read(op, a, b))
\* sited_numeric_hook at the site of an operator, and numeric_hook below it
\* (sited FALSE).  A site looks for a box before it looks for a character.
HasBox(a, b) == IsBox(a) \/ IsBox(b)
CharOperator(a, b, sited) == "char" \in {Kind(a), Kind(b)} /\ ~(sited /\ HasBox(a, b))
Coded(a, b, sited) == CharOperator(a, b, sited) /\ IsNumberOrChar(a) /\ IsNumberOrChar(b)     \* a character beside a number is its code
OwnOr(own, op, x, y) == IF own # Declined THEN own ELSE NumericHookPlain(op, x, y)
OnItsNumbers(op, x, y, width) == OwnOr(IF width = "none" THEN Declined ELSE IntArith(op, x, y, width = "long" \/ ArithIsWide(FALSE, x, y)), op, x, y)
NumericHook(op, a, b, sited, wide) ==
    LET coded == Coded(a, b, sited)
        long == IsLongBox(a) \/ IsLongBox(b)
        width == IF long \/ (wide /\ ~coded) THEN "long" ELSE IF sited \/ coded \/ HasBox(a, b) THEN "int" ELSE "none"
    IN  CASE op \in Comparisons -> Compare(op, a, b)
          [] op \notin Comparisons /\ CharOperator(a, b, sited) /\ ~coded /\ Kind(a) = "char" -> RaiseOperand(op, a, b)
          [] OTHER -> Rebox(long, OnItsNumbers(op, Unbox(IF coded THEN CharAsInt(a) ELSE a), Unbox(IF coded THEN CharAsInt(b) ELSE b), width))

-----------------------------------------------------------------------------
\* The builtins: `/`, `%` by zero, `**`, the shifts and the bits.
DivideValues(a, b) ==
    CASE Kind(a) = "instance" -> Dispatched("div")
      [] Kind(a) = "null" -> Throws("NullPointerException")
      [] Kind(a) \notin {"instance", "null"} /\ (IsDoubleValue(a) \/ IsDoubleValue(b)) ->
           IF IsNum(a) /\ IsNum(b) THEN DoubleOperator("/", AsF64(a), AsF64(b)) ELSE NaN
      [] OTHER -> IF ~IsExact(a) \/ ~IsExact(b) THEN RaiseOperand("/", a, b)
                  ELSE IF ExactOf(b).u = 0 THEN ByZero ELSE <<"dec", Divide(ExactOf(a), ExactOf(b))>>
Div(l, r) == DivideValues(Widened(Unbox(l)), Widened(IF IsNumber(l) /\ IsOneElementList(r) THEN r[2][1] ELSE Unbox(r)))

IsZero(v) == IsNumber(v) /\ Kind(v) # "nan" /\ Plain(v).u = 0
NoDecimal(a, b) ==
    IF Kind(a) \in {"dbl", "nan", "flt"} \/ Kind(b) \in {"dbl", "flt"} THEN NaN ELSE NumericHook("%", a, b, FALSE, FALSE)
NotFaulted(answer, a, b) == IF answer = Declined THEN NoDecimal(a, b) ELSE IF answer = Faults THEN ByZero ELSE answer
ModByZero(a, b) ==         \* b_mod: the divisor is zero
    CASE Kind(a) = "instance" -> Dispatched("remainder")
      [] (Kind(a) \in {"int", "bool"} \/ IsBox(a)) /\ (IsPlainInt(b) \/ IsBox(b)) -> ByZero
      [] OTHER -> NotFaulted(DecimalOperator("%", a, b), a, b)

Narrowed(p) ==            \* a double as the integer it is
    IF Kind(p) # "dbl" \/ ~SameValue(p[2], ToBigInteger(p[2])) THEN p ELSE IntOf(ToBigInteger(p[2]).u)
PowerDouble(base, e) == Narrowed(PowDouble(ToDouble(base[2]), e))
IntegerPower(p, wide) == IF FitsInteger(p) \/ (wide /\ Wrapped(p, LongWidth) = p) THEN IntOf(p) ELSE <<"big", Dec(p, 0)>>
ExactlyRaised(base, exp, e, wide) ==
    CASE e < 0 /\ IsBig(base) /\ IsBig(exp) ->
           IF base[2].u = 0 THEN Throws("NumberFormatException") ELSE <<"big", DivideToIntegral(Dec(1, 0), PowDec(base[2], -e))>>
      [] (e < 0 /\ ~(IsBig(base) /\ IsBig(exp))) \/ Kind(base) \in {"dbl", "flt"} -> PowerDouble(base, Dec(e, 0))
      [] OTHER -> IF IsDecHandle(base) THEN <<Kind(base), PowDec(base[2], e)>> ELSE IntegerPower(PowDec(base[2], e).u, wide)
LeavesExact(base, exp, expWide) == (expWide /\ ~IsBig(base)) \/ ~(IsPlainInt(exp) \/ (IsBig(base) /\ IsBig(exp)))
PowerOf(base, exp, wide, expWide) ==
    CASE ~IsNumber(base) \/ ~IsNumber(exp) -> RaiseOperand("pow", base, exp)
      [] IsNumber(base) /\ IsNumber(exp) /\ NaN \in {base, exp} -> NaN
      [] IsNumber(base) /\ IsNumber(exp) /\ NaN \notin {base, exp} /\ LeavesExact(base, exp, expWide) -> PowerDouble(base, ToBigInteger(exp[2]))
      [] OTHER -> ExactlyRaised(base, exp, ToBigInteger(exp[2]).u, wide)
Power(l, r, lw, rw) == Rebox(IsLongBox(l) /\ ~IsLongBox(r), PowerOf(Unbox(l), Unbox(r), lw \/ IsLongBox(l), rw \/ IsLongBox(r)))

JavaShiftIntMask(op, wide, a, count) ==
    LET width == IF wide THEN LongWidth ELSE IntegerWidth
        n == Wrapped(a, width)
        k == count % IntegerWidth
    IN  IntOf(Wrapped(CASE op = "<<" -> n * 2^k [] op = ">>" -> n \div 2^k [] op = ">>>" -> (n % 2^width) \div 2^k, width))
JavaShift(op, wide, a, count) ==
    LET width == IF wide THEN LongWidth ELSE IntegerWidth
        n == Wrapped(a, width)
        k == count % width
    IN  IntOf(Wrapped(CASE op = "<<" -> n * 2^k [] op = ">>" -> n \div 2^k [] op = ">>>" -> (n % 2^width) \div 2^k, width))
ShiftCount(r) == IF IsBig(r) THEN Wrapped(r[2].u, IntegerWidth) ELSE IntegerOf(r)
ShiftValues(op, wide, l, r) ==
    LET count == Wrapped(ShiftCount(r), IntegerWidth)
    IN  CASE op # ">>>" /\ Kind(l) = "closure" /\ Kind(r) = "closure" -> <<"closure">>
          [] op # ">>>" /\ Kind(l) = "instance" -> Dispatched(Names[op])
          [] op = "<<" /\ Kind(l) \in {"list", "set", "map"} -> Dispatched("leftShift")
          [] op = "<<" /\ Kind(l) = "str" -> <<"buffer", l[2] \o Rendered(r)>>
          [] op # ">>>" /\ IsBig(l) /\ Kind(r) \in {"int", "big"} -> <<"big", Dec(ShiftLeft(l[2].u, IF op = "<<" THEN count ELSE -count), 0)>>
          [] IsPlainInt(l) /\ Kind(r) \in {"int", "big"} -> JavaShift(op, wide, IntegerOf(l), ShiftCount(r))
          [] OTHER -> RaiseOperand(op, l, r)
Shift(op, l, r, lw) ==
    LET x == Unbox(l)
        y == IF IsNumber(x) THEN Unbox(r) ELSE r
    IN  Rebox(IsLongBox(l), ShiftValues(op, lw \/ IsLongBox(l), x, y))

BitAt(n, i) == (n \div 2^i) % 2
BitOf(op, p, q) == CASE op = "and" -> p * q [] op = "or" -> IF p + q > 0 THEN 1 ELSE 0 [] op = "xor" -> (p + q) % 2
BitOp(op, m, n) ==         \* two's complement at a width beyond both operands
    LET top == LongWidth + 1
    IN  FoldLeft(LAMBDA sum, i : sum + 2^(i - 1) * BitOf(op, BitAt(m, i - 1), BitAt(n, i - 1)), 0, [i \in 1 .. top |-> i])
          - 2^top * BitOf(op, BitAt(m, top), BitAt(n, top))
BoolBits(op, p, q) == CASE op = "and" -> p /\ q [] op = "or" -> p \/ q [] op = "xor" -> p # q
HasBits(v) == IsExact(v) /\ SameValue(ExactOf(v), ToBigInteger(ExactOf(v)))
BitValues(op, l, r) ==
    CASE Kind(l) = "bool" /\ Kind(r) = "bool" -> BoolOf(BoolBits(op, l[2], r[2]))
      [] IsPlainInt(l) /\ IsPlainInt(r) -> IntOf(BitOp(op, IntegerOf(l), IntegerOf(r)))
      [] (IsBig(l) \/ IsBig(r)) /\ HasBits(l) /\ HasBits(r) ->
           <<"big", Dec(BitOp(op, ToBigInteger(ExactOf(l)).u, ToBigInteger(ExactOf(r)).u), 0)>>
      [] OTHER -> RaiseOperand(op, l, r)
Bits(op, l, r) == Rebox(IsLongBox(l) \/ IsLongBox(r), BitValues(op, Unbox(l), Unbox(r)))
RECURSIVE BitNotValue(_)
BitNotValue(v) ==
    CASE Kind(v) = "list" ->
           LET negated == [i \in DOMAIN v[2] |-> BitNotValue(v[2][i])]
               amiss == {i \in DOMAIN negated : Kind(negated[i]) = "raises"}
           IN  IF amiss = {} THEN <<"list", negated>> ELSE negated[Min(amiss)]
      [] Kind(v) \in {"int", "big"} -> <<Kind(v), Dec(BitNot(v[2].u), 0)>>
      [] Kind(v) = "str" -> <<"pattern", v[2]>>
      [] OTHER -> IF Kind(v) # "null" /\ ~IsNumber(v) THEN MissingMethod ELSE RaiseOperand("~", v, v)
BitNegated(v) == Rebox(IsLongBox(v), BitNotValue(Unbox(v)))

-----------------------------------------------------------------------------
\* Compiler::binary and the site it leaves: an operation [op, l, r, lw, rw]
\* has two operands and, of each, whether the compiler knows it for a Long.
ResultIsWide(o) ==
    CASE o.op \in {"<<", ">>", ">>>"} -> o.lw
      [] o.op = "**" -> o.lw /\ ~o.rw /\ ~(IsDecHandle(o.r))
      [] OTHER -> o.lw \/ o.rw
Native(o) == IsPlainInt(o.l) /\ IsPlainInt(o.r)
Evaluate(o) ==
    CASE o.op = "/" -> Div(o.l, o.r)
      [] o.op = "**" -> Power(o.l, o.r, o.lw, o.rw)
      [] o.op \in {"<<", ">>>"} \/ (o.op = ">>" /\ ~Native(o)) -> Shift(o.op, o.l, o.r, o.lw)
      [] o.op = ">>" /\ Native(o) -> JavaShift(">>", o.lw, IntegerOf(o.l), IntegerOf(o.r))
      [] o.op \in {"and", "or", "xor"} -> Bits(o.op, o.l, o.r)
      [] o.op = "~" -> BitNegated(o.l)
      [] o.op = "%" /\ IsZero(o.r) -> ModByZero(o.l, o.r)
      [] o.op = "%" /\ ~IsZero(o.r) /\ Native(o) -> IntOf(Rem(IntegerOf(o.l), IntegerOf(o.r)))
      [] o.op \in {"<", "<=", ">", ">="} /\ Native(o) ->
           BoolOf(CASE o.op = "<" -> IntegerOf(o.l) < IntegerOf(o.r) [] o.op = "<=" -> IntegerOf(o.l) <= IntegerOf(o.r)
                    [] o.op = ">" -> IntegerOf(o.l) > IntegerOf(o.r) [] o.op = ">=" -> IntegerOf(o.l) >= IntegerOf(o.r))
      [] OTHER -> NumericHook(o.op, o.l, o.r, TRUE, o.lw \/ o.rw)
=============================================================================
