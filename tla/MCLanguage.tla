----------------------------- MODULE MCLanguage -----------------------------
(***************************************************************************)
(* The front half of the program: a text is lexed, its tokens are parsed,  *)
(* its types are named and its names are resolved.  A behaviour writes one *)
(* input of one of the stages, which is then read back.                    *)
(***************************************************************************)
EXTENDS TypePrograms, Programs, LexPrograms, ClosurePrograms

-----------------------------------------------------------------------------
\* Scripts with type declarations: each kind of type with each member,
\* nested types that share names, and annotations in front of them.

LOCAL Decl(kind, name, head, members) ==
    [kind |-> kind, name |-> name, words |-> <<>>, annotations |-> <<>>, head |-> head, members |-> members]
LOCAL One == <<"int", "1">>
LOCAL Ex(e) == <<"expr", e>>
LOCAL New(n) == <<"new", n, <<>>>>
LOCAL UseOf(n) == <<"method", <<>>, "def", "m", <<>>, <<Ex(New(n))>>>>
LOCAL Holds(n) == <<"field", <<>>, n, <<<<"a", New(n)>>>>>>
LOCAL InnerType(t) == <<"nested", <<>>, t>>

LOCAL Defaults == <<<<"a", NoInit>>, <<"b", One>>, <<"c", Var("a")>>>>
LOCAL MembersOf(n) ==
    {<<"field", <<>>, "def", <<<<"a", One>>, <<"b", NoInit>>>>>>, <<"field", <<"static", "final">>, "none", <<<<"a", One>>>>>>,
     <<"field", <<"private">>, "int", <<<<"a", NoInit>>>>>>, <<"field", <<"@", "Delegate">>, "T", <<<<"a", NoInit>>>>>>,
     <<"method", <<"static">>, "none", "p", <<>>, <<Ex(One)>>>>, <<"method", <<"public">>, "int", "m", Defaults, <<Ex(Var("a"))>>>>,
     <<"method", <<"@", "Override", "nl">>, "def", "next", <<>>, <<>>>>, <<"method", <<>>, "T", "toString", <<>>, <<Ex(One)>>>>,
     <<"method", <<>>, "def", "m", <<>>, <<<<"declare", "def", <<<<"a", One>>>>>>>>>>,
     <<"method", <<>>, "def", "getInstance", <<>>, <<>>>>, <<"method", <<>>, "def", "a", <<>>, <<Ex(One)>>>>,
     <<"signature", <<"abstract">>, "def", "m", <<>>>>,
     <<"ctor", n, <<<<"a", NoInit>>>>, <<Ex(One)>>>>, <<"ctor", n, Defaults, <<Ex(Var("b"))>>>>, <<"ctor", n, <<>>, <<>>>>,
     InnerType(Decl("class", "U", <<>>, <<Holds("V")>>)), InnerType(Decl("enum", "U", <<<<"a", <<>>>>>>, <<>>))}
LOCAL TypeLists(S) == {<<>>} \cup {<<x>> : x \in S} \cup ({<<x, y>> : x, y \in S} \ {<<x, x>> : x \in S})

LOCAL Kinds == {Decl("class", "T", <<"extends", "U", "implements", "V">>, ms) : ms \in TypeLists(MembersOf("T"))}
                 \cup {Decl("trait", "T", <<>>, ms) : ms \in {<<x>> : x \in MembersOf("T")}}
                 \cup {Decl("interface", "T", <<"extends", "U", ",", "V">>, ms) :
                         ms \in TypeLists({<<"signature", <<>>, "int", "m", <<<<"a", NoInit>>>>>>, <<"field", <<>>, "int", <<<<"a", One>>>>>>,
                                       <<"method", <<"default">>, "def", "m", <<>>, <<Ex(One)>>>>})}
LOCAL Components == <<<<"a", NoInit>>, <<"b", NoInit>>>>
LOCAL Records == {Decl("record", "T", Components, ms) :
                    ms \in TypeLists({<<"compact", "T", <<Ex(One)>>>>, <<"ctor", "T", Components, <<>>>>, <<"method", <<>>, "def", "a", <<>>, <<Ex(One)>>>>,
                                  <<"field", <<"static">>, "int", <<<<"c", One>>>>>>, <<"ctor", "T", <<<<"a", NoInit>>>>, <<>>>>})}
LOCAL Enums == {Decl("enum", "T", cs, ms) :
                  cs \in {<<<<"a", <<>>>>, <<"b", <<>>>>>>}, ms \in TypeLists(MembersOf("T") \ {x \in MembersOf("T") : x[1] = "ctor"})}
                 \cup {Decl("enum", "T", <<<<"a", <<One>>>>, <<"b", <<One>>>>, <<"c", <<One>>>>>>, <<<<"ctor", "T", ps, <<Ex(Var("a"))>>>>>>) :
                         ps \in {<<<<"a", NoInit>>>>, <<<<"a", NoInit>>, <<"b", One>>>>}}
LOCAL Annotated ==
    {[Decl("class", "T", <<>>, ms) EXCEPT !.annotations = as, !.words = ws] :
       ms \in TypeLists({<<"field", <<>>, "def", <<<<"a", One>>>>>>, <<"method", <<>>, "def", "getInstance", <<>>, <<>>>>}),
       ws \in {<<>>, <<"abstract">>, <<"public", "final">>},
       as \in {<<<<"Canonical", <<>>>>>>, <<<<"Canonical", <<<<"excludes", "'s'">>>>>>, <<"ToString", <<<<"includeFields", "true">>>>>>>>,
               <<<<"Singleton", <<>>>>>>, <<<<"Singleton", <<<<"lazy", "true">>, <<"strict", "false">>>>>>>>, <<<<"Sortable", <<>>>>>>}}

\* Names that a nested and an outer type share, used in every place.
LOCAL Inner(u) == Decl("class", "U", <<>>, <<Holds(u)>>)
LOCAL Scoped ==
    {<<Decl("class", "T", <<>>, <<InnerType(Inner(x)), UseOf(y)>>), Decl("class", "V", <<>>, <<UseOf(z)>>)>> :
       x, y \in {"T", "U", "V", "T$U"}, z \in {"T", "U", "T$U"}}
      \cup {<<Decl("class", "T", <<>>, <<UseOf(x), InnerType(Decl("class", "U", <<>>, <<InnerType(Decl("class", "V", <<>>, <<UseOf(y)>>)), Holds(x)>>))>>),
              Decl("class", "U", <<>>, <<InnerType(Decl("class", "V", <<>>, <<>>)), UseOf(y)>>)>> : x, y \in {"U", "V"}}
      \cup {<<Decl("class", "T", <<>>, <<InnerType(Decl("class", "V", <<>>, <<>>)),
                                         InnerType(Decl("class", "U", <<>>, <<InnerType(Decl("class", "V", <<>>, <<UseOf("V")>>)), UseOf(x)>>)), UseOf(x)>>)>> :
              x \in {"V", "U"}}

LOCAL Variable(words) == [Decl("variable", "a", <<>>, <<>>) EXCEPT !.annotations = <<<<"Field", <<>>>>>>, !.words = words]
LOCAL Plain == Decl("class", "T", <<>>, <<>>)

MCTypeScripts == {<<t>> : t \in Kinds \cup Records \cup Enums \cup Annotated} \cup Scoped
                   \cup {<<Variable(<<>>), Plain>>, <<Plain, Variable(<<>>)>>}

\* A modifier behind an annotation is taken for the start of a class.
AnnotatedVariable == {<<Variable(<<"static">>), Plain>>}
\* A member type that shares its name with one declared in it.
SharedNames == {<<Decl("class", "T", <<>>, <<InnerType(Decl("class", "U", <<>>, <<InnerType(Decl("class", "V", <<>>, <<>>)), UseOf("V")>>)),
                                             InnerType(Decl("class", "V", <<>>, <<>>))>>)>>}

-----------------------------------------------------------------------------
\* The programs the parser is given: every pair of operators, every kind
\* of expression inside every other, chains of three operators, and the
\* statement forms with each other as bodies.

LOCAL A == Var("a")
LOCAL B == Var("b")
LOCAL C == Var("c")
LOCAL ItClosure(e) == <<"closure", <<"it">>, <<Ex(e)>>>>

LOCAL Pairs == {<<o, <<q, A, B>>, C>> : o, q \in BinaryKinds \cup {"is"}}
                 \cup {<<o, A, <<q, B, C>>>> : o, q \in BinaryKinds \cup {"is"}}

\* One expression of each kind.
Small == {<<"ternary", A, B, One>>, <<"elvis", A, B>>, <<"as", A, "T">>, <<"instanceof", A, "T">>,
          <<"range", A, "..", B>>, <<"range", One, "..<", B>>, <<"!", A>>, <<"~", A>>, <<"neg", One>>, <<"neg", A>>,
          <<"positive", A>>, <<"cast", "T", A>>, <<"cast", "int", One>>, <<"!", <<"in", A, B>>>>,
          <<"!", <<"instanceof", A, "T">>>>, <<"!", <<"is", A, B>>>>, <<"post", "++", A>>,
          <<"post", "--", <<"property", A, ".", "p">>>>, <<"pre", "++", A>>,
          <<"property", A, ".", "p">>, <<"property", A, "?.", "in">>, <<"property", A, "@", "p">>,
          <<"pointer", A, "&", "m">>, <<"method", A, ".", "m", <<>>>>, <<"method", A, "?.", "m", <<B, One>>>>,
          <<"method", A, ".", "m", <<One, ItClosure(B)>>>>, <<"method", A, ".", "m", <<ItClosure(B)>>>>,
          <<"method", A, ".", "m", <<<<"map", <<<<<<"string", "p">>, One>>>>>>, B>>>>,
          <<"spread read", A, "p">>, <<"spread call", A, "m", <<One>>>>, <<"call", "f", <<A>>>>,
          <<"call", "f", <<<<"spread", A>>, B>>>>, <<"call", "f", <<ItClosure(A)>>>>, <<"apply", <<"call", "f", <<>>>>, <<A>>>>,
          <<"index", A, One>>, <<"index", A, <<"list", <<One, B>>>>>>, <<"list", <<>>>>, <<"list", <<A, <<"spread", B>>>>>>,
          <<"map", <<>>>>, <<"map", <<<<<<"string", "if">>, A>>>>>>, <<"map", <<<<"spread", B>>, <<<<"string", "p">>, A>>>>>>,
          ItClosure(A), <<"closure", <<>>, <<Ex(A)>>>>, <<"closure", <<<<"a", NoInit>>, <<"b", One>>>>, <<Ex(A)>>>>,
          <<"new", "T", <<A>>>>, <<"new array", "T", One>>, <<"constant", "null">>, <<"string", "'s'">>, <<"this">>,
          <<"+", A, B>>, <<"<", A, B>>, <<"**", A, B>>, <<"<<", A, B>>, <<"&&", A, B>>, <<"in", A, B>>}

\* The right operand of a loose operator starts with a range: see RangeOnTheRight.
LOCAL RangeOperand(e) ==
    e[1] \in {"==", "in"} /\ e[3][1] \in {"as", "<<", "in"} /\ e[3][2][1] = "range"

\* Each kind around another.
LOCAL Around(e) ==
    {<<o, e, C>> : o \in BinaryKinds} \cup {<<o, C, e>> : o \in BinaryKinds}
      \cup {<<"ternary", e, B, C>>, <<"ternary", A, e, C>>, <<"ternary", A, B, e>>, <<"elvis", e, C>>, <<"elvis", C, e>>,
            <<"as", e, "T">>, <<"instanceof", e, "T">>, <<"range", e, "..", C>>, <<"range", C, "..", e>>,
            <<"!", e>>, <<"neg", e>>, <<"cast", "T", e>>, <<"property", e, ".", "p">>, <<"method", e, "?.", "m", <<C>>>>,
            <<"index", e, C>>, <<"index", C, e>>, <<"call", "f", <<e, C>>>>, <<"list", <<C, e>>>>,
            <<"map", <<<<<<"string", "p">>, e>>>>>>, <<"assigned", C, "=", e>>, <<"spread read", e, "p">>, ItClosure(e),
            <<"!", <<"in", e, C>>>>, <<"!", <<"in", C, e>>>>, <<"is", e, C>>, <<"apply", e, <<C>>>>}
\* x[] of a list of several indices is x[several], 's'(x) and x.p(y) are
\* calls, and a closure that starts a line is a block.
LOCAL WrittenOut(e) ==
    /\ e[1] = "index" => e[3][1] # "list"
    /\ e[1] = "call" => e[3][1][1] # "map"
    /\ e[1] = "apply" => e[2][1] \notin {"string", "property", "spread read"}
    /\ e[1] = "closure" => e[3][1][2] # ItClosure(A)
    /\ ~RangeOperand(e)
LOCAL Nested == {e \in UNION {Around(x) : x \in Small} : WrittenOut(e)}

\* Three operators, where prefix, power, cast, shift and range meet.
LOCAL Links(e) == {<<"**", e, C>>, <<"**", C, e>>, <<"neg", e>>, <<"as", e, "T">>, <<"<<", e, C>>, <<"+", C, e>>,
                   <<"range", e, "..", C>>, <<"==", C, e>>, <<"!", e>>, <<"in", e, C>>, <<"cast", "T", e>>,
                   <<"elvis", C, e>>}
LOCAL Chains == {e \in UNION {Links(x) : x \in UNION {Links(y) : y \in Links(A)}} : ~RangeOperand(e)}
RangeOnTheRight == {<<"==", A, <<"as", <<"range", One, "..", B>>, "T">>>>, <<"in", A, <<"<<", <<"range", One, "..", B>>, C>>>>}

LOCAL DeclareAs(e) == <<<<"declare", "def", <<<<"c", e>>>>>>>>
Expressions == {DeclareAs(e) : e \in Pairs \cup Nested \cup Chains}

-----------------------------------------------------------------------------
LOCAL Simples == {Ex(<<"call", "f", <<A>>>>), Ex(<<"println", <<A>>>>), Ex(<<"println", <<>>>>), Ex(<<"post", "++", A>>),
                 Ex(<<"+", <<"var", "println">>, A>>), Ex(<<"method", A, ".", "m", <<>>>>),
                 Ex(<<"closure", <<<<"a", NoInit>>>>, <<Ex(A)>>>>),
                 <<"command", "f", <<A>>>>, <<"command", "f", <<One, B>>>>, <<"assign", A, "=", B>>, <<"assign", A, "+=", <<"assigned", B, "=", C>>>>,
                 <<"assign", <<"property", A, ".", "p">>, "*=", B>>, <<"assign", <<"index", A, One>>, "=", B>>,
                 <<"declare", "def", <<<<"a", NoInit>>>>>>, <<"declare", "def", <<<<"a", One>>, <<"b", A>>>>>>,
                 <<"declare", "T", <<<<"a", NoInit>>, <<"b", One>>, <<"c", A>>>>>>, <<"declare", "int", <<<<"a", ItClosure(A)>>>>>>,
                 <<"multi", TRUE, <<"a", "b">>, C>>, <<"multi", FALSE, <<"a", "b">>, <<"list", <<B, A>>>>>>,
                 <<"break", "none">>, <<"continue", "none">>, <<"break", "a">>, <<"return", NoInit>>, <<"return", <<"elvis", A, B>>>>,
                 <<"assert", <<"<", A, B>>, NoInit>>, <<"assert", <<"ternary", A, B, C>>, C>>, <<"throw", A>>,
                 Ex(<<"instanceof", A, "T">>), Ex(<<"as", A, "T">>)}

LOCAL InBody(st) ==
    {<<"if", A, <<st>>, <<>>>>, <<"if", A, <<st>>, <<st>>>>, <<"while", A, <<st>>>>, <<"do", <<st>>, A>>,
     <<"for", <<<<"declare", "int", <<<<"a", One>>>>>>>>, <<"<", A, B>>, <<Ex(<<"post", "++", A>>)>>, <<st>>>>,
     <<"for", <<<<"declare", "def", <<<<"a", One>>, <<"b", One>>>>>>>>, NoInit,
       <<Ex(<<"post", "++", A>>), <<"assign", B, "=", One>>>>, <<st>>>>,
     <<"for in", "a", <<"range", One, "..<", B>>, <<st>>>>, <<"for in", "a", B, <<st>>>>,
     <<"try", <<st>>, <<<<"T", "a", <<st>>>>>>, <<>>>>, <<"try", <<st>>, <<>>, <<st>>>>,
     <<"try with", <<<<"declare", "def", <<<<"a", One>>>>>>, <<"declare", "def", <<<<"b", One>>>>>>>>, <<st>>>>,
     <<"label", "a", <<"while", B, <<st>>>>>>,
     <<"function", "f", <<<<"a", NoInit>>, <<"b", One>>, <<"c", B>>>>, <<st>>>>,
     <<"declare", "def", <<<<"a", <<"closure", <<"it">>, <<st>>>>>>>>>>}
LOCAL Switches(st) ==
    {<<"switch", A, <<<<<<One>>, <<st>>, FALSE>>, <<<<B>>, <<>>, FALSE>>, <<<<>>, <<st>>, FALSE>>>>>>,
     <<"declare", "def", <<<<"a", <<"switch", A, <<<<<<One, B>>, <<Ex(B)>>, TRUE>>, <<<<>>, <<<<"yield", B>>>>, TRUE>>>>>>>>>>>>,
     <<"declare", "def", <<<<"a", <<"switch", A, <<<<<<One>>, <<<<"yield", <<"neg", B>>>>>>, FALSE>>>>>>>>>>>>}

\* In a section of a colon switch the names queued are not read where they
\* are declared, nor behind a closure in a third declarator.
LOCAL DeclaresSeveral(st) ==
    (st[1] = "declare" /\ Len(st[3]) > 1) \/ st[1] \in {"multi", "function"}
QueuedTooFar == {<<<<"declare", "def", <<<<"a", One>>, <<"b", One>>, <<"c", ItClosure(A)>>>>>>>>,
                 <<<<"switch", A, <<<<<<One>>, <<<<"multi", TRUE, <<"a", "b">>, C>>, Ex(B)>>, FALSE>>>>>>>>}

LOCAL Compounds == UNION {InBody(st) : st \in Simples} \cup UNION {Switches(st) : st \in {x \in Simples : ~DeclaresSeveral(x)}}
LOCAL Deep == UNION {InBody(st) : st \in UNION {InBody(x) : x \in {Ex(A), <<"multi", TRUE, <<"a", "b">>, C>>, <<"break", "none">>}}}
StatementPrograms == {<<st, Ex(B)>> : st \in Simples \cup Compounds \cup Deep}

MCPrograms == Expressions \cup StatementPrograms

-----------------------------------------------------------------------------
\* Sources for the lexer: every two lexemes side by side, every three of
\* those that change how the next is read, and every short string in each
\* of the language's quotes.

LOCAL Id(w) == Lexeme("ident", w, w)
LOCAL Nl == Lexeme("nl", "", "\n")
LOCAL Comments == {Lexeme("comment", "", "/* */"), Lexeme("comment", "", "/*\n*/")}
LOCAL Whole(n, w) == Lexeme("int", n, w)
LOCAL Numbers == {Whole(1, "1"), Whole(0, "0"), Whole(12, "1_2"), Lexeme("long", 1, "1L"), Lexeme("long", 123, "123"), Lexeme("big", "3", "3g"),
                  Lexeme("big", "3000", "3000"), Lexeme("decimal", "1.2", "1.2"), Lexeme("decimal", "2e3", "2e3"),
                  Lexeme("decimal", "1.0E-2", "1.0E-2"), Lexeme("double", "1", "1d"), Lexeme("float", "1.2", "1.2f"),
                  Whole(31, "0x1F"), Whole(9, "011"), Whole(3, "0b11"), Lexeme("long", 255, "0xFf"), Lexeme("long", -1, "0x7cfL"),
                  Lexeme("decimal", "01.2", "01.2"), Whole(8, "08")}
LOCAL Regex == Lexeme("regex", "a/\\d", "~/a\\/\\d/")
LOCAL AString == StringOf("sq", <<<<"char", "a">>>>)
LOCAL ASlashy == StringOf("slashy", <<<<"char", "a">>>>)
LOCAL ADollar == StringOf("dollar", <<<<"char", "a">>>>)

LOCAL Pool == {Punct(op) : op \in ToSet(Cascade)} \cup Numbers \cup Comments
                \cup {Id("a"), Id("e3"), Id("$b"), Lexeme("in", "", "in"), Lexeme("null", "", "null"), Nl, Regex, AString, ASlashy, ADollar,
                      StringOf("dq", <<<<"path", "a">>>>)}

\* A / divides behind what ends an operand and opens a string elsewhere.
LOCAL EndsOperand == {"ident", "int", "long", "double", "float", "decimal", "big", "string", "gstring", "regex", "null",
                      ")", "]", "}", "++", "--"}
LOCAL Before(ls, i) == LET at == {j \in 1 .. i - 1 : ~Ignored(ls, j)}
                       IN  IF at = {} THEN "none" ELSE ls[CHOOSE j \in at : \A k \in at : k <= j].kind
LOCAL Divides(ls, i) == Before(ls, i) \in EndsOperand
LOCAL Readable(ls) ==
    /\ \A i \in DOMAIN ls : /\ ls[i].kind \in {"/", "/="} => Divides(ls, i)
                            /\ ls[i] = ASlashy => ~Divides(ls, i)
    /\ \A n \in DOMAIN ls : Open(ls, n) >= 0
    \* a leading zero is decimal in front of any dot
    /\ \A i \in 1 .. Len(ls) - 1 : ls[i].text = "011" => ls[i + 1].kind \notin {".", "..", "...", "..<"}

LOCAL Turning == {Punct(op) : op \in {"(", ")", "[", "{", "}", "/", "..", "<", "++"}}
                   \cup {Nl, Id("a"), Whole(1, "1"), ASlashy} \cup Comments
Lists == {ls \in {<<x, y>> : x, y \in Pool} \cup {<<x, y, z>> : x, y, z \in Turning} \cup {<<x, Nl, y, Nl>> : x, y \in Turning} : Readable(ls)}

LOCAL Characters == {<<"char", c>> : c \in {"a", "$", "/", "\\", "\"", "'", "{"}}
LOCAL Placeholders == {<<"braced", s>> : s \in {"a", "f('}') {b}", "a\nb"}} \cup {<<"path", "a.b">>}
LOCAL Upto2(S) == {<<x>> : x \in S} \cup {<<x, y>> : x, y \in S}
LOCAL ThreeOf(S) == {<<x, y, z>> : x, y, z \in S}
LOCAL Items(quote) ==
    Characters \cup Placeholders \cup {<<"escape", "\\u0041", "A">>}
      \cup (IF quote \in {"slashy", "dollar"} THEN {<<"char", "\n">>}
            ELSE {<<"escape", "\\n", "\n">>, <<"escape", "\\101", "A">>, <<"escape", "\\q", "q">>})
LOCAL Tight == {<<"char", c>> : c \in {"a", "$", "/", "\\", "{"}} \cup {<<"braced", "a">>, <<"path", "a">>}
LOCAL Holding(quote, contents) == {<<StringOf(quote, is), Nl, Id("a")>> : is \in {x \in contents : Writable(quote, x)}}
Strings == UNION {Holding(q, Upto2(Items(q)) \cup ThreeOf(Tight)) : q \in DOMAIN OpeningQuote}

MCSources == Lists \cup Strings

\* A raw newline inside quotes.
NewlineInQuotes == Holding("triple", Upto2({<<"char", "a">>, <<"char", "\n">>, <<"escape", "\\\n", "">>}))

-----------------------------------------------------------------------------
\* Programs over one variable x, which closures kept in c use: declared,
\* assigned, read and captured in any order, in a loop, a branch or a
\* closure's body, in a script, in a function that is called twice and in
\* a method whose class has a field of that name.

LOCAL Lit(n) == <<"int", n>>
LOCAL ReadOf(v) == <<"var", v>>
LOCAL Do(e) == <<"do", e>>
LOCAL Call(f) == <<"call", f, <<>>>>
LOCAL Show(v) == <<"print", ReadOf(v)>>
LOCAL Closure(body) == <<"closure", <<>>, body>>
LOCAL Swaps == Closure(<<<<"def", "y", ReadOf("x")>>, <<"set", "x", Lit(7)>>, Show("y")>>)
LOCAL Captured == {Closure(<<Show("x")>>), Closure(<<<<"inc", "x">>, Show("x")>>), Swaps,
                   Closure(<<<<"def", "z", Closure(<<<<"inc", "x">>, Show("x")>>)>>, Do(Call("z"))>>)}
LOCAL Basic == {<<"def", "x", Lit(1)>>, <<"def", "x">>, <<"set", "x", Lit(2)>>, <<"inc", "x">>, Show("x"), Do(Call("c"))}
                 \cup {<<"set", "c", k>> : k \in Captured}

\* Lexical sight: the names of a body no declaration in sight is for.
RECURSIVE Loose(_, _)
LOCAL LooseIn(e, seen) == {r[1] : r \in {w \in References(e, seen, 0, {}) : w[2]}}
Loose(body, seen) ==
    UNION {LET s == body[i]
               here == seen \cup {body[j][2] : j \in {k \in 1 .. i - 1 : Defines(body[k])}}
           IN  (IF s[1] \in {"set", "inc"} /\ s[2] \notin here THEN {s[2]} ELSE {})
                 \cup UNION {LooseIn(e, here) : e \in ToSet(Exprs(s))}
                 \cup UNION {Loose(b, here) : b \in ToSet(Blocks(s))} : i \in DOMAIN body}

\* One name, one variable: what is not in sight is no local of the same body.
LOCAL Fields(body) == {s[2] : s \in {t \in ToSet(body) : t[1] = "field"}}
LOCAL OneMeaning(body, params) == Loose(body, params) \cap (Declaring(body) \cup params) \subseteq Fields(body)
\* A declaration without a value, run again, is one that closures share.
RECURSIVE Bare(_, _)
LOCAL Restarts(body) == \E s \in ToSet(body) : s[1] = "twice" /\ Bare(s[2], "x")
Bare(body, v) == \E s \in ToSet(body) : s = <<"def", v>> \/ \E b \in ToSet(Blocks(s)) : Bare(b, v)
LOCAL Twice(body) == Cardinality({i \in DOMAIN body : Bare(<<body[i]>>, "x")}) > 0 /\ Cardinality({i \in DOMAIN body : "x" \in Declaring(<<body[i]>>)}) > 1
LOCAL Settled(body, params) == (Restarts(body) \/ Twice(body)) => "x" \in BoxedNames(<<>>, body)

LOCAL Sound(body, params) == OneMeaning(body, params) /\ Settled(body, params)
LOCAL Finals == {<<"set", "x", Lit(2)>>, <<"inc", "x">>, Show("x"), Do(Call("c")), <<"set", "c", Swaps>>}
LOCAL Threes(uses) == {<<a, b, d>> : a, b \in Basic \cup uses, d \in Finals \cup uses}
LOCAL Keeper == <<"def", "c">>
LOCAL Wrapped(body) == {<<<<"twice", body>>>>, <<<<"if", Lit(1), body>>>>, <<<<"def", "w", Closure(body)>>, Do(Call("w")), Do(Call("w"))>>}
LOCAL Started == {<<>>, <<<<"def", "x", Lit(4)>>>>}
LOCAL Main(pre, w) == <<Keeper>> \o pre \o w \o <<Do(Call("c"))>>
LOCAL SoundMains(bodies) ==
    {m \in {Main(pre, w) : pre \in Started, w \in UNION {Wrapped(b) : b \in bodies}} :
        ~Redeclares(m, {}) /\ Sound(m, {}) /\ ("w" \in Declaring(m) => Sound(m[Len(m) - 3][3][3], {}))}
LOCAL Closed == {m \in SoundMains(Threes({})) : "x" \notin Loose(m, {})}
LOCAL OpenMains == {m \in SoundMains(Threes({Do(Call("g"))})) : "x" \in Loose(m, {})}

LOCAL G == [params |-> <<>>, body |-> <<<<"inc", "x">>, Show("x")>>]
LOCAL NoG == [params |-> <<>>, body |-> <<<<"print", Lit(9)>>>>]
InFunctions == {[fields |-> {}, functions |-> [f |-> [params |-> <<>>, body |-> m], g |-> NoG], main |-> <<Do(Call("f")), Do(Call("f"))>>] : m \in Closed}
InScripts == {[fields |-> {}, functions |-> [g |-> NoG], main |-> m] : m \in Closed}
InMethods == {[fields |-> {"x"}, functions |-> [g |-> G], main |-> m] : m \in OpenMains}
WithField == {[fields |-> {}, functions |-> [g |-> G], main |-> <<<<"field", "x", Lit(3)>>, Keeper>> \o w] :
             w \in {v \in UNION {Wrapped(b) : b \in {<<a, b>> : a, b \in Basic}} : "x" \notin BoxedNames(<<>>, <<<<"field", "x", Lit(3)>>>> \o v)
                                                                          /\ "x" \notin Declaring(v) /\ "w" \notin Declaring(v)}}
PerCall == {[fields |-> {}, functions |-> [f |-> [params |-> <<"x">>, body |-> <<Keeper, a, b, Do(Call("c")), Do(k)>>], g |-> NoG],
                main |-> <<<<"def", "c", <<"call", "f", <<Lit(1)>>>>>>, <<"def", "d", <<"call", "f", <<Lit(2)>>>>>>, Do(Call("c")), Do(Call("d")), Do(Call("c"))>>]
               : a, b \in Basic, k \in Captured}
MCUnits == InFunctions \cup InScripts \cup InMethods \cup WithField \cup PerCall

\* A script's field that a function and a closure both use.
SharedCaptured == {[fields |-> {}, functions |-> [g |-> G],
                    main |-> <<<<"field", "x", Lit(3)>>, <<"def", "c", Closure(<<<<"inc", "x">>, Show("x")>>)>>, Do(Call("c")), Do(Call("g"))>>]}
\* A declaration without a value in a loop.
Restarted == {[fields |-> {}, functions |-> [g |-> NoG], main |-> <<<<"twice", <<<<"def", "x">>, Show("x"), <<"set", "x", Lit(2)>>>>>>>>]}
\* A block's local of a field's name.
OutOfSight == {[fields |-> {"x"}, functions |-> [g |-> NoG], main |-> <<<<"if", Lit(1), <<<<"def", "x", Lit(2)>>>>>>, Show("x")>>]}

-----------------------------------------------------------------------------
programVars == <<source, toks>>

LanguageInit == ProgramsInit /\ TypesInit /\ LexInit /\ UnitInit
Written == source # <<>> \/ types # <<>> \/ lexemes # <<>> \/ unit # NoUnit

LanguageNext ==
    /\ ~Written
    /\ \/ WriteProgram /\ UNCHANGED <<typeVars, lexVars, closureVars>>
       \/ WriteTypes /\ UNCHANGED <<lexVars, closureVars>>
       \/ WriteSource /\ UNCHANGED <<programVars, typeVars, closureVars>>
       \/ WriteUnit /\ UNCHANGED <<programVars, typeVars, lexVars>>
=============================================================================
