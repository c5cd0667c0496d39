------------------------------ MODULE Equality ------------------------------
(***************************************************************************)
(* src/src/host.rs: when two values are one.  `==` asks it with coercion,  *)
(* the collections of Java without; a hash set asks a hash first, a map    *)
(* the text a key is stored under, and `<`, `<=>` and sort an order.       *)
(*                                                                         *)
(* A value is a tuple whose first element names its class, and a           *)
(* collection a handle <<"obj", h>> into a heap: its members may be        *)
(* handles again, the handle itself among them.                            *)
(***************************************************************************)
EXTENDS Decimals, SequencesExt

CONSTANT DoubleExact       \* integers up to this one are doubles of their own

IntOf(n) == <<"int", Dec(n, 0)>>
Kind(v) == v[1]
IsDoubleValue(v) == Kind(v) \in {"dbl", "nan", "negzero"}
IsDecHandle(v) == Kind(v) \in {"dec", "big"}
IsBox(v) == Kind(v) \in {"long", "short"}
IsNumber(v) == Kind(v) \in {"int", "flt"} \/ IsBox(v) \/ IsDecHandle(v) \/ IsDoubleValue(v)
IsText(v) == Kind(v) \in {"str", "gstr"}
IsObj(v) == Kind(v) = "obj"
Unbox(v) == IF IsBox(v) THEN <<"int", v[2]>> ELSE v

\* as_f64: the double nearest a number, the even one of two.
ToDouble(d) ==
    LET n == ToBigInteger(d).u
    IN  IF Magnitude(n) <= DoubleExact \/ n % 2 = 0 THEN d ELSE Dec(IF n % 4 = 1 THEN n - 1 ELSE n + 1, 0)
AsF64(v) == CASE Kind(v) \in {"nan", "negzero"} -> v
              [] Kind(v) = "bool" -> <<"dbl", Dec(IF v[2] THEN 1 ELSE 0, 0)>>
              [] OTHER -> <<"dbl", ToDouble(v[2])>>
Plain(f) == IF Kind(f) = "negzero" THEN Dec(0, 0) ELSE f[2]
DoublesEqual(f, g) == Kind(f) # "nan" /\ Kind(g) # "nan" /\ SameValue(Plain(f), Plain(g))
\* Double.compare: NaN above everything, -0.0 below 0.0.
JavaCompareF64(f, g) ==
    LET rank(x) == CASE Kind(x) = "negzero" -> 0 [] Kind(x) = "dbl" -> 1 [] Kind(x) = "nan" -> 2
    IN  IF Kind(f) # "nan" /\ Kind(g) # "nan" /\ ~SameValue(Plain(f), Plain(g)) THEN Order(Plain(f), Plain(g))
        ELSE Signum(rank(f) - rank(g))

\* groovy_str: the text of a value that holds no others.
Zero == 48
Point == 46
Minus == 45
DigitsOf(n, width) == [i \in 1 .. width |-> Zero + ((n \div 10^(width - i)) % 10)]
NumberCodes(d) ==
    LET width == Max({DigitCount(d.u), d.s + 1})
        ds == DigitsOf(Magnitude(d.u), width)
    IN  (IF d.u < 0 THEN <<Minus>> ELSE <<>>) \o (IF d.s <= 0 THEN ds ELSE SubSeq(ds, 1, width - d.s) \o <<Point>> \o SubSeq(ds, width - d.s + 1, width))
Codes(v) ==
    CASE IsText(v) -> v[2]
      [] Kind(v) = "char" -> <<v[2]>>
      [] Kind(v) = "bool" -> IF v[2] THEN <<116, 114, 117, 101>> ELSE <<102, 97, 108, 115, 101>>
      [] Kind(v) = "null" -> <<110, 117, 108, 108>>
      [] Kind(v) = "nan" -> <<78, 97, 78>>
      [] Kind(v) = "negzero" -> <<Minus, Zero, Point, Zero>>
      [] Kind(v) \in {"int", "long", "short", "big", "dec", "dbl", "flt"} -> NumberCodes(v[2])
ClassOf(v) == IF IsDoubleValue(v) THEN "Double" ELSE Kind(v)
RECURSIVE CompareCodes(_, _)
CompareCodes(s, t) ==
    IF s = <<>> \/ t = <<>> THEN Signum(Len(s) - Len(t))
    ELSE IF s[1] # t[1] THEN Signum(s[1] - t[1]) ELSE CompareCodes(Tail(s), Tail(t))

\* A walk's answer, and whether it met a pair of handles it was inside.
Says(b) == [eq |-> b, cyc |-> FALSE]
Looped == [eq |-> FALSE, cyc |-> TRUE]
Every(rs) == [eq |-> \A i \in DOMAIN rs : rs[i].eq, cyc |-> \E i \in DOMAIN rs : rs[i].cyc /\ \A j \in 1 .. i - 1 : rs[j].eq]
Some(rs) == [eq |-> \E i \in DOMAIN rs : rs[i].eq, cyc |-> \E i \in DOMAIN rs : rs[i].cyc /\ \A j \in 1 .. i - 1 : ~rs[j].eq]

\* char_equal.
CharEqual(a, b) ==
    LET code == IF Kind(a) = "char" THEN a[2] ELSE b[2]
        other == IF Kind(a) = "char" THEN b ELSE a
    IN  IF Kind(a) = "char" /\ Kind(b) = "char" THEN a[2] = b[2]
        ELSE IF IsNumber(other) THEN DoublesEqual(AsF64(other), <<"dbl", Dec(code, 0)>>) ELSE IsText(other) /\ other[2] = <<code>>
\* decimal_operator and the comparisons below it, for `==`.
IsExact(v) == Kind(v) \in {"int", "bool"} \/ IsBox(v) \/ IsDecHandle(v)
ExactOf(v) == IF Kind(v) = "bool" THEN Dec(IF v[2] THEN 1 ELSE 0, 0) ELSE v[2]
DecimalDecides(a, b) == (IsDecHandle(a) \/ IsDecHandle(b)) /\ Kind(a) # "str" /\ Kind(b) # "str" /\ \A v \in {a, b} : IsExact(v) \/ IsDoubleValue(v)
DecimalEqual(a, b) ==
    IF IsDoubleValue(a) \/ IsDoubleValue(b) THEN DoublesEqual(AsF64(a), AsF64(b)) ELSE SameValue(ExactOf(a), ExactOf(b))
ScalarsEqual(a, b) ==
    CASE DecimalDecides(a, b) -> DecimalEqual(a, b)
      [] ~DecimalDecides(a, b) /\ IsNumber(a) /\ IsNumber(b) ->
           IF Kind(a) = "int" /\ Kind(b) = "int" THEN a = b ELSE DoublesEqual(AsF64(a), AsF64(b))
      [] OTHER -> ~(IsNumber(a) \/ IsNumber(b)) /\ (Kind(a) = "bool") = (Kind(b) = "bool") /\ Codes(a) = Codes(b)

Shape(heap, v) == IF IsObj(v) THEN heap[v[2]].shape ELSE "none"
MembersOf(heap, v) == heap[v[2]].members
Held(heap, v) ==
    CASE Shape(heap, v) \in {"none", "buffer"} -> <<>>
      [] Shape(heap, v) = "map" -> [i \in DOMAIN MembersOf(heap, v) |-> MembersOf(heap, v)[i][2]]
      [] Shape(heap, v) \in {"list", "set", "range"} -> MembersOf(heap, v)
Structured(heap, v) == Shape(heap, v) \in {"set", "map", "range", "buffer"}

\* values_equal_shape and java_equals_shape; path holds the pairs of handles
\* the walk is inside.
RECURSIVE Guarded(_, _, _, _, _)
ValuesShape(heap, a, b, path) ==
    LET shapes == {Shape(heap, a), Shape(heap, b)}
        xs == MembersOf(heap, a)
        ys == MembersOf(heap, b)
        inOrder(p, q) == IF Len(p) # Len(q) THEN Says(FALSE) ELSE Every([i \in DOMAIN p |-> Guarded(heap, "groovy", p[i], q[i], path)])
        found(x) == Some([j \in DOMAIN ys |-> Guarded(heap, "groovy", x, ys[j], path)])
        entry(e) == Some([j \in DOMAIN ys |-> IF e[1] = ys[j][1] THEN Guarded(heap, "groovy", e[2], ys[j][2], path) ELSE Says(FALSE)])
    IN  CASE "char" \in {Kind(a), Kind(b)} -> Says(CharEqual(a, b))
          [] "char" \notin {Kind(a), Kind(b)} /\ "gstr" \in {Kind(a), Kind(b)} -> Says(IsText(a) /\ IsText(b) /\ a[2] = b[2])
          [] IsObj(a) /\ IsObj(b) /\ a = b -> Says(TRUE)
          [] IsObj(a) /\ IsObj(b) /\ a # b ->
               (CASE "set" \in shapes -> IF shapes = {"set"} /\ Len(xs) = Len(ys) THEN Every([i \in DOMAIN xs |-> found(xs[i])]) ELSE Says(FALSE)
                  [] "set" \notin shapes /\ "map" \in shapes -> IF shapes = {"map"} /\ Len(xs) = Len(ys) THEN Every([i \in DOMAIN xs |-> entry(xs[i])]) ELSE Says(FALSE)
                  [] shapes \cap {"set", "map"} = {} /\ "buffer" \in shapes -> Says(shapes = {"buffer"} /\ xs = ys)
                  [] OTHER -> inOrder(xs, ys))
          [] IsObj(a) # IsObj(b) /\ "char" \notin {Kind(a), Kind(b)} -> Says(FALSE)
          [] "null" \in {Kind(a), Kind(b)} /\ ~IsObj(a) /\ ~IsObj(b) -> Says(a = b)
          [] OTHER -> Says(ScalarsEqual(Unbox(a), Unbox(b)))
JavaShape(heap, a, b, path) ==
    CASE IsObj(a) /\ IsObj(b) /\ a = b -> Says(TRUE)
      [] a # b /\ (Structured(heap, a) \/ Structured(heap, b)) -> ValuesShape(heap, a, b, path)
      [] a # b /\ Shape(heap, a) = "list" /\ Shape(heap, b) = "list" ->
           LET xs == MembersOf(heap, a)
               ys == MembersOf(heap, b)
           IN  IF Len(xs) # Len(ys) THEN Says(FALSE) ELSE Every([i \in DOMAIN xs |-> Guarded(heap, "java", xs[i], ys[i], path)])
      [] OTHER -> Says(~IsObj(a) /\ ~IsObj(b) /\ ClassOf(a) = ClassOf(b) /\ Codes(a) = Codes(b))
\* A walk is inside pairs of handles; a bounded one counts them instead.
Inside(bound) == [bound |-> bound, pairs |-> {}, depth |-> 0]
Unbounded == Inside(0)
Deeper(path, a, b) == [path EXCEPT !.pairs = @ \cup {<<a, b>>}, !.depth = @ + 1]
MetOnLeft(path, a, b) == IF path.bound = 0 THEN \E p \in path.pairs : p[1] = a ELSE path.depth = path.bound
Met(path, a, b) == IF path.bound = 0 THEN <<a, b>> \in path.pairs ELSE path.depth = path.bound
ShapesEqual(heap, mode, a, b, path) == IF mode = "java" THEN JavaShape(heap, a, b, path) ELSE ValuesShape(heap, a, b, path)
Guarded(heap, mode, a, b, path) ==
    LET nested == IsObj(a) /\ IsObj(b)
    IN  IF nested /\ Met(path, a, b) THEN Looped ELSE ShapesEqual(heap, mode, a, b, IF nested THEN Deeper(path, a, b) ELSE path)
ValuesEqual(heap, a, b) == Guarded(heap, "groovy", a, b, Unbounded)
JavaEquals(heap, a, b) == Guarded(heap, "java", a, b, Unbounded)

\* sited_numeric_hook unboxes before it looks for a character, and no gate
\* below reads two integers or an integer and a character: their texts decide.
UnboxedPair(a, b) == (IsBox(a) \/ IsBox(b)) /\ {Kind(Unbox(a)), Kind(Unbox(b))} \subseteq {"int", "char"}
\* `a == b`: numeric_hook's own gates, before the elements are compared.
OperatorEquals(heap, a, b) ==
    LET boolAgainst(x, y) == Kind(x) = "bool" /\ (IsDecHandle(y) \/ IsDoubleValue(y) \/ Kind(y) = "flt")
    IN  IF UnboxedPair(a, b) THEN Codes(Unbox(a)) = Codes(Unbox(b))
        ELSE
        CASE "char" \in {Kind(a), Kind(b)} -> CharEqual(a, b)
          [] "char" \notin {Kind(a), Kind(b)} /\ (IsObj(a) \/ IsObj(b) \/ "null" \in {Kind(a), Kind(b)}) -> ValuesEqual(heap, a, b).eq
          [] boolAgainst(a, b) \/ boolAgainst(b, a) -> FALSE
          [] OTHER -> IF IsText(a) # IsText(b) THEN FALSE ELSE IF IsText(a) THEN a[2] = b[2] ELSE ScalarsEqual(Unbox(a), Unbox(b))

\* object_hash_code: Java's hashCode, or a walk that meets itself.
RECURSIVE StringHash(_)
StringHash(s) == IF s = <<>> THEN 0 ELSE StringHash(Front(s)) * 31 + Last(s)
DoubleHash(f) == IF Kind(f) = "dbl" THEN 7000 + 10 * StripTrailingZeros(f[2]).u + StripTrailingZeros(f[2]).s ELSE IF Kind(f) = "nan" THEN 6001 ELSE 6002
ScalarHash(v) ==
    CASE Kind(v) \in {"int", "long", "big"} -> v[2].u
      [] Kind(v) = "dec" -> 31 * v[2].u + v[2].s
      [] IsDoubleValue(v) -> DoubleHash(v)
      [] Kind(v) = "flt" -> 1 + DoubleHash(<<"dbl", v[2]>>)
      [] Kind(v) = "bool" -> IF v[2] THEN 1231 ELSE 1237
      [] Kind(v) = "char" -> v[2]
      [] IsText(v) -> StringHash(v[2])
      [] Kind(v) = "null" -> 0
HashRange == 2^16        \* stands for the 2^32 of an int
Hashed(h, cyc) == [hash |-> h, cyc |-> cyc]
RECURSIVE HashWalk(_, _, _)
HashWalk(heap, v, path) ==
    LET o == heap[v[2]]
        at(x) == HashWalk(heap, x, path \cup {v})
        parts == [i \in DOMAIN Held(heap, v) |-> at(Held(heap, v)[i])]
        hashes == [i \in DOMAIN parts |-> parts[i].hash]
        lo == Min({o.members[1][2].u, Last(o.members)[2].u})
        hi == Max({o.members[1][2].u, Last(o.members)[2].u})
    IN  CASE ~IsObj(v) -> Hashed(ScalarHash(v), FALSE)
          [] IsObj(v) /\ v \in path -> Hashed(0, TRUE)
          [] IsObj(v) /\ v \notin path ->
               Hashed((CASE o.shape = "list" -> FoldLeft(LAMBDA acc, h : (31 * acc + h) % HashRange, 1, hashes)
                         [] o.shape = "set" -> FoldLeft(LAMBDA acc, h : acc + h, 0, hashes)
                         [] o.shape = "map" -> FoldLeft(LAMBDA acc, i : acc + (17 * ScalarHash(o.members[i][1]) + hashes[i]), 0, [i \in DOMAIN parts |-> i])
                         [] o.shape = "range" -> ((lo + hi + 1) * (lo + hi)) \div 2 + hi
                         [] o.shape = "buffer" -> 0),
                      \E i \in DOMAIN parts : parts[i].cyc)
ObjectHash(heap, v) == HashWalk(heap, v, {})

\* SetEq::key, NoKey where the index cannot hold the value.
NoKey == <<"nokey">>
IsSimple(v) == ~IsObj(v) /\ Kind(v) \notin {"gstr", "null"}
BucketKey(eq, v) ==
    CASE ~IsSimple(v) -> NoKey
      [] IsSimple(v) /\ eq = "java" -> <<"hash", ScalarHash(v)>>
      [] IsSimple(v) /\ eq = "groovy" ->
           (CASE Kind(v) = "char" -> NoKey
              [] Kind(v) = "str" -> <<"text", StringHash(v[2])>>
              [] Kind(v) = "bool" -> <<"truth", v[2]>>
              [] IsNumber(v) -> IF Kind(v) = "nan" THEN <<"nan">> ELSE <<"double", AbsDec(StripTrailingZeros(Plain(AsF64(v))))>>)
SetEqual(heap, eq, a, b) == Guarded(heap, eq, a, b, Unbounded).eq

\* inspect and the other walks: whether one meets a handle it is inside.
Holds(heap, v) == ToSet(Held(heap, v))
RECURSIVE RenderRaises(_, _, _)
RenderRaises(heap, v, path) == v \in path \/ (IsObj(v) /\ \E x \in Holds(heap, v) : x # v /\ RenderRaises(heap, x, path \cup {v}))
InspectRaises(heap, v) == RenderRaises(heap, v, {})
\* java_to_string remembers nothing: it is not done after that many steps in.
RECURSIVE JavaTextEndsWithin(_, _, _)
JavaTextEndsWithin(heap, v, depth) == depth > 0 /\ \A x \in Holds(heap, v) : JavaTextEndsWithin(heap, x, depth - 1)

\* mapkey.rs: the text a key is stored under, and the key it reads back as.
Tag(v) == CASE IsDoubleValue(v) -> "f" [] Kind(v) = "int" -> "i" [] Kind(v) = "long" -> "L" [] Kind(v) = "bool" -> "b" [] Kind(v) = "null" -> "n"
            [] Kind(v) = "gstr" -> "s" [] Kind(v) = "flt" -> "F" [] Kind(v) = "big" -> "g" [] Kind(v) = "dec" -> "d" [] Kind(v) = "char" -> "o"
EncodeUntagged(v) == IF IsDoubleValue(v) THEN <<Tag(v), v>> ELSE <<"", Codes(v)>>
EncodeKey(v) == IF Kind(v) = "str" THEN <<"", v[2]>> ELSE <<Tag(v), IF IsDoubleValue(v) THEN v ELSE Codes(v)>>

\* natural_order, `<=>` and `<`; the last two may refuse the pair.
IsNum(v) == IsNumber(v) \/ Kind(v) = "bool"
NaturalOrder(a, b) ==
    IF (IsDecHandle(a) \/ IsDecHandle(b)) /\ IsExact(a) /\ IsExact(b) THEN Order(ExactOf(a), ExactOf(b))
    ELSE IF IsNum(a) /\ IsNum(b) THEN JavaCompareF64(AsF64(a), AsF64(b)) ELSE CompareCodes(Codes(a), Codes(b))
Refused == 9
NumberAgainstText(a, b) == (IsNumber(a) /\ IsText(b)) \/ (IsNumber(b) /\ IsText(a))
NumberStringOrder(a, b) ==
    LET text == IF IsText(a) THEN a ELSE b
        code(v) == IF IsText(v) THEN <<"dbl", Dec(v[2][1], 0)>> ELSE AsF64(v)
    IN  IF Len(text[2]) = 1 THEN JavaCompareF64(code(a), code(b)) ELSE Refused
NullOrder(a, b) == Signum((IF Kind(a) = "null" THEN 0 ELSE 1) - (IF Kind(b) = "null" THEN 0 ELSE 1))
Compared(a, b) ==
    IF "null" \in {Kind(a), Kind(b)} THEN NullOrder(a, b)
    ELSE IF IsObj(a) \/ IsObj(b) THEN IF a = b THEN 0 ELSE Refused
    ELSE IF NumberAgainstText(a, b) THEN NumberStringOrder(a, b) ELSE NaturalOrder(a, b)
\* The sign `<` and `>` go by: char_operator, operator_order, then the numbers.
OperatorOrder(a, b) ==
    LET x == IF Kind(a) = "char" THEN IntOf(a[2]) ELSE Unbox(a)
        y == IF Kind(b) = "char" THEN IntOf(b[2]) ELSE Unbox(b)
        numbers == IsNumber(x) /\ IsNumber(y)
    IN  IF UnboxedPair(a, b) THEN CompareCodes(Codes(Unbox(a)), Codes(Unbox(b)))
        ELSE
        CASE "char" \in {Kind(a), Kind(b)} /\ numbers -> IF Kind(x) = "int" /\ Kind(y) = "int" THEN Order(x[2], y[2]) ELSE JavaCompareF64(AsF64(x), AsF64(y))
          [] "char" \in {Kind(a), Kind(b)} /\ ~numbers /\ (IsText(a) \/ IsText(b)) -> CompareCodes(Codes(a), Codes(b))
          [] "char" \notin {Kind(a), Kind(b)} /\ "null" \in {Kind(a), Kind(b)} -> NullOrder(a, b)
          [] "char" \notin {Kind(a), Kind(b)} /\ (Kind(a) = "bool") # (Kind(b) = "bool") -> Refused
          [] numbers /\ "char" \notin {Kind(a), Kind(b)} ->
               IF IsExact(x) /\ IsExact(y) THEN Order(ExactOf(x), ExactOf(y))
               ELSE IF "nan" \in {Kind(x), Kind(y)} THEN Refused ELSE Order(Plain(AsF64(x)), Plain(AsF64(y)))
          [] OTHER -> IF NumberAgainstText(a, b) THEN NumberStringOrder(a, b) ELSE IF IsObj(a) \/ IsObj(b) THEN Refused ELSE CompareCodes(Codes(a), Codes(b))

\* sort_values: a merge that takes the right side only when it is less.
RECURSIVE MergeEager(_, _), Merge(_, _), SortValues(_)
CompareValues(a, b) == IF "null" \in {Kind(a), Kind(b)} THEN NullOrder(a, b) ELSE NaturalOrder(a, b)
MergeEager(l, r) ==
    IF l = <<>> \/ r = <<>> THEN l \o r
    ELSE IF CompareValues(r[1], l[1]) <= 0 THEN <<r[1]>> \o MergeEager(l, Tail(r)) ELSE <<l[1]>> \o MergeEager(Tail(l), r)
Merge(l, r) ==
    IF l = <<>> \/ r = <<>> THEN l \o r
    ELSE IF CompareValues(r[1], l[1]) < 0 THEN <<r[1]>> \o Merge(l, Tail(r)) ELSE <<l[1]>> \o Merge(Tail(l), r)
SortValues(s) ==
    LET mid == Len(s) \div 2 IN IF Len(s) < 2 THEN s ELSE Merge(SortValues(SubSeq(s, 1, mid)), SortValues(SubSeq(s, mid + 1, Len(s))))
\* extreme_value: a plain pair is compared by `>` or `<`, NaN by neither.
Prefers(candidate, best, want) ==
    IF {Kind(candidate), Kind(best)} \subseteq {"int", "dbl", "nan", "negzero"}
    THEN "nan" \notin {Kind(candidate), Kind(best)} /\ Order(Plain(AsF64(candidate)), Plain(AsF64(best))) = want
    ELSE CompareValues(candidate, best) = want
Extreme(s, want) ==
    LET seen == SelectSeq(s, LAMBDA v : Kind(v) # "null")
    IN  IF seen = <<>> THEN <<"null">> ELSE FoldLeft(LAMBDA best, v : IF Prefers(v, best, want) THEN v ELSE best, seen[1], Tail(seen))
=============================================================================
