------------------------------ MODULE MCValues ------------------------------
(***************************************************************************)
(* The values and what is computed from them: a call's declaration, a      *)
(* range, the arithmetic of decimals, operators, equality and order, the   *)
(* sets built on them.  A behaviour writes one input of one of the stages, *)
(* or makes calls on one set.                                              *)
(***************************************************************************)
EXTENDS OperatorLaws, CallPrograms, RangePrograms, DecimalLaws, Comparisons, Sets

-----------------------------------------------------------------------------
\* One or two declarations of at most two parameters, called with every
\* kind of value, seen by the compiler or not.

LOCAL PlainTypes == {"def", "int", "long", "BigDecimal", "String", "List"}
LOCAL Ones == {<<t>> : t \in PlainTypes}
LOCAL Twos == {<<"int", t>> : t \in PlainTypes} \cup {<<t, "String">> : t \in PlainTypes}
LOCAL Collecting == {<<"Object[]">>, <<"int[]">>, <<"int", "Object[]">>, <<"String", "int[]">>}
LOCAL Shapes == Ones \cup Twos \cup {<<>>}

LOCAL OneInt == <<"list", <<<<"int">>>>>>
LOCAL IntAndText == <<"list", <<<<"int">>, <<"string">>>>>>
LOCAL Values == {<<"int">>, <<"long">>, <<"dec">>, <<"string">>, <<"null">>, OneInt, IntAndText}
LOCAL Arguments1 == {<<v, s>> : v \in Values, s \in BOOLEAN}
LOCAL ArgLists == {<<>>} \cup {<<a>> : a \in Arguments1}
                    \cup {<<a, b>> : a \in {<<<<"int">>, TRUE>>, <<<<"string">>, FALSE>>, <<<<"dec">>, TRUE>>}, b \in Arguments1}

LOCAL Single == {<<d>> : d \in Shapes}
LOCAL Pairs == {ds \in {<<d, e>> : d, e \in Shapes} : ds[1] # ds[2]}
LOCAL WithDefaults == {<<SubSeq(d, 1, Len(d) - 1), d>> : d \in {c \in Collecting : Len(c) > 1}}
LOCAL PlainCalls == {<<ds, as, FALSE>> : ds \in Single \cup Pairs, as \in ArgLists}

\* Left out: a variable at the place of the array, a value its elements are
\* not, and a list at the place of the parameters before it.
LOCAL Packs(ds, as) ==
    \A c \in DOMAIN ds : IsArrayType(Last(ds[c])) =>
        /\ (Len(as) = Len(ds[c]) /\ as # <<>>) => Last(as) \notin {<<<<"null">>, FALSE>>}
        /\ Len(ds[c]) > 1 => ~LoneList(ValuesOf(as))
        /\ Last(ds[c]) = "int[]" => \A i \in Len(ds[c]) .. Len(as) : as[i][1][1] = "int"
LOCAL CollectingCalls ==
    {w \in {<<ds, as, FALSE>> : ds \in {<<d>> : d \in Collecting} \cup WithDefaults,
                                as \in ArgLists \cup {<<a, b, a>> : a, b \in {<<<<"int">>, TRUE>>, <<<<"string">>, TRUE>>}}} : Packs(w[1], w[2])}
LOCAL FitsExactly(ds, as) == \E d \in ToSet(ds) : Len(d) = Len(as) /\ Fits(d, ValuesOf(as))
LOCAL SpreadCalls == {w \in {<<ds, as, TRUE>> : ds \in Single \cup Pairs, as \in ArgLists} : FitsExactly(w[1], w[2])}
MCCalls == PlainCalls \cup CollectingCalls \cup SpreadCalls

\* Spread arguments of another count, of another type, and for `... xs`.
SpreadAmiss == {<<<<<<"def", "def">>>>, <<<<<<"int">>, FALSE>>>>, TRUE>>}
\* An overload that collects beside one that does not.
CollectingOverload == {<<<<<<"int">>, <<"Object[]">>>>, <<<<<<"int">>, TRUE>>>>, FALSE>>}

-----------------------------------------------------------------------------
MCRangeEnds == -4 .. 6 \cup {8}

MCWitnessBases == <<2, 3, 5>>
MCUnscaleds == -4 .. 4 \cup {7, 9, 10, 12, 95, 99, -25, 60}
MCScales == -1 .. 2
MCIntegers == -70 .. 200

LOCAL DecOf(u, s) == <<"dec", Dec(u, s)>>
LOCAL DblOf(u, s) == <<"dbl", Dec(u, s)>>
LOCAL Text(s) == <<"str", s>>
LOCAL GText(s) == <<"gstr", s>>
LOCAL a == 97
LOCAL b == 98
LOCAL one == 49

\* Numbers of every class, some of them one value, some beyond what a double
\* holds; texts that look like them.
MCAtoms ==
    {<<"null">>, <<"nan">>, <<"negzero">>, <<"bool", TRUE>>, <<"bool", FALSE>>,
     <<"long", Dec(1, 0)>>, <<"flt", Dec(15, 1)>>, <<"flt", Dec(10, 1)>>, <<"char", a>>, <<"char", one>>}
        \cup {IntOf(n) : n \in {0, 1, 7, 8, 9, 97, -1}}
        \cup {<<"big", Dec(n, 0)>> : n \in {1, 8, 9}}
        \cup {DecOf(10, 1), DecOf(100, 2), DecOf(1, 0), DecOf(15, 1), DecOf(0, 0)}
        \cup {DblOf(10, 1), DblOf(15, 1), DblOf(0, 1), DblOf(80, 1)}
        \cup {Text(s) : s \in {<<a>>, <<one>>, <<a, b>>, <<>>}}
        \cup {GText(s) : s \in {<<a>>, <<a, b>>}}

\* Two collections that hold each other, themselves, a third one or numbers.
LOCAL Members == {IntOf(1), DecOf(10, 1), H1, H2, <<"obj", 3>>}
LOCAL UpToTwo == {<<>>} \cup {<<x>> : x \in Members} \cup {<<x, y>> : x, y \in Members}
LOCAL Object(shape, members) == [shape |-> shape, members |-> members]
LOCAL Lists == {Object("list", s) : s \in UpToTwo}
LOCAL SetObjects == {Object("set", s) : s \in {t \in UpToTwo : Len(t) < 2 \/ t[1] # t[2]}}
LOCAL KeyAt(i) == Text(IF i = 1 THEN <<a>> ELSE <<b>>)
LOCAL Maps == {Object("map", [i \in DOMAIN s |-> <<KeyAt(i), s[i]>>]) : s \in UpToTwo}
LOCAL Objects == Lists \cup SetObjects \cup Maps
LOCAL Others == {Object("range", <<IntOf(1)>>), Object("buffer", <<a>>)}
MCHeaps == {<<x, y, Object("list", <<>>)>> : x \in Objects, y \in Objects \cup Others}

LOCAL SortedValues == {<<"null">>, <<"nan">>, <<"negzero">>, IntOf(1), IntOf(2), DblOf(10, 1), DecOf(10, 1), DecOf(15, 1), DblOf(0, 1)}
MCSequences == UNION {[1 .. n -> SortedValues] : n \in 0 .. 4}

LOCAL SetKind(impl, req) == [impl |-> impl, req |-> req]
MCSetKinds == {SetKind("linked", 1), SetKind("hash", 1), SetKind("hash", 4), SetKind("tree", 1), SetKind("treeby", 1)}
LOCAL two == 50
MCSetValues == {IntOf(1), DecOf(10, 1), IntOf(5), IntOf(2), Text(<<two>>), GText(<<two>>)}
MCSetArguments == {<<IntOf(5), IntOf(1)>>, <<DecOf(10, 1), IntOf(2)>>, <<GText(<<two>>), IntOf(2)>>}
\* What a set is told of its values: Equality's answers, written out, since a
\* set asks for them all the time.  A comparator goes by quarters.
LOCAL Amount(v) == IF v = DecOf(10, 1) THEN 1 ELSE v[2].u
MCHashKnown(v) == Kind(v) \notin {"gstr", "char", "long"}
MCComparables == {v \in MCSetValues : IsNumber(v)}
MCEqualUnder(eq, v, w) ==
    v = w \/ (eq = "groovy" /\ {v, w} \in {{IntOf(1), DecOf(10, 1)}, {Text(<<two>>), GText(<<two>>)}})
MCHashOf(v) == IF v = DecOf(10, 1) THEN 311 ELSE IF v \in MCComparables THEN v[2].u ELSE two
MCKeyUnder(eq, v) ==
    CASE v = GText(<<two>>) -> NoKey
      [] v # GText(<<two>>) /\ eq = "java" -> <<"hash", MCHashOf(v)>>
      [] v = Text(<<two>>) /\ eq = "groovy" -> <<"text", two>>
      [] OTHER -> <<"double", Dec(Amount(v), 0)>>
MCOrderOf(v, w) == IF Amount(v) < Amount(w) THEN -1 ELSE IF Amount(v) > Amount(w) THEN 1 ELSE 0
MCByQuarter(v) == Amount(v) \div 4
ASSUME AnswersOfEquality ==
    /\ \A v \in MCSetValues : MCHashOf(v) = ScalarHash(v)
    /\ \A eq \in SetEqs : \A v, w \in MCSetValues :
          MCEqualUnder(eq, v, w) = SetEqual(NoHeap, eq, v, w) /\ MCKeyUnder(eq, v) = BucketKey(eq, v)
    /\ \A v, w \in MCComparables : MCOrderOf(v, w) = NaturalOrder(v, w)

-----------------------------------------------------------------------------
\* Operands of every class: integers at the edge of their width and past it,
\* in and out of a box; numbers that are one value in several classes.
LOCAL I(n) == IntOf(n)
LOCAL Of(c, u, s) == <<c, Dec(u, s)>>
LOCAL Plains == {I(n) : n \in {0, 1, 2, 3, -1, -3, 7, -8, 9, -20}}
LOCAL Boxes == {Of("long", n, 0) : n \in {0, 3, 7, -8}} \cup {Of("short", n, 0) : n \in {2, 7, -1}}
LOCAL Exacts == {Of("big", n, 0) : n \in {0, 1, 2, -3, 12}} \cup {Of("dec", 0, 0), Of("dec", 20, 1), Of("dec", 15, 1), Of("dec", -25, 1)}
LOCAL Doubles == {Of("dbl", n, 1) : n \in {0, 20, 15, -5}} \cup {Of("flt", 15, 1), Of("flt", 20, 1)}
LOCAL Characters == {<<"char", 5>>, <<"char", 6>>}
MCNumbers == Plains \cup Boxes \cup Exacts \cup Doubles \cup Characters \cup {NaN}
MCIntegers4 == Plains \cup Boxes
LOCAL Entry(k, v) == <<"entry", I(k), I(v)>>
MCRest ==
    {<<"null">>, <<"bool", TRUE>>, <<"bool", FALSE>>, <<"closure">>, <<"instance">>, <<"str", <<50>>>>, <<"str", <<97, 50, 97>>>>, <<"gstr", <<50>>>>,
     <<"list", <<>>>>, <<"list", <<I(2)>>>>, <<"list", <<I(1), <<"str", <<50>>>>>>>>, <<"list", <<Entry(1, 2)>>>>, <<"range", 1, 2>>,
     <<"set", <<I(1), I(2)>>>>, <<"map", <<Entry(1, 1)>>>>}
MCSmall == {I(n) : n \in {0, 1, 2, 3, -3, 7}} \cup Boxes \cup Exacts \cup Doubles \cup Characters
MCExponents == {I(n) : n \in {0, 1, 2, 3, -1, -2}} \cup {Of("long", 2, 0), Of("big", 2, 0), Of("big", -1, 0), Of("dec", 20, 1), Of("dbl", 20, 1), Of("short", 2, 0), <<"char", 6>>}

-----------------------------------------------------------------------------
ValuesInit == CallInit /\ RangeInit /\ NumberInit /\ ComparedInit /\ SetInit /\ OperationInit
NothingWritten == decls = <<>> /\ written = <<>> /\ decs = <<>> /\ asked = NotAsked /\ compared = <<>> /\ operation = NoOperation

ValuesNext ==
    \/ /\ NothingWritten /\ setCalls = 0
       /\ setKind = CHOOSE k \in SetKinds : TRUE        \* the other stages are alike for every kind of set
       /\ UNCHANGED setVars
       /\ \/ WriteCall /\ UNCHANGED <<rangeVars, numberVars, comparedVars, operationVars>>
          \/ WriteRange /\ UNCHANGED <<callVars, numberVars, comparedVars, operationVars>>
          \/ (WriteDecimals \/ WriteInteger) /\ UNCHANGED <<callVars, rangeVars, comparedVars, operationVars>>
          \/ (CompareAtoms \/ CompareObjects \/ SortItems) /\ UNCHANGED <<callVars, rangeVars, numberVars, operationVars>>
          \/ WriteOperation /\ UNCHANGED <<callVars, rangeVars, numberVars, comparedVars>>
    \/ NothingWritten /\ SetNext /\ UNCHANGED <<callVars, rangeVars, numberVars, comparedVars, operationVars>>
=============================================================================
