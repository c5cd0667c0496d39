---------------------------- MODULE Declarations ----------------------------
(***************************************************************************)
(* Type declarations of src/src/parser.rs: classes, interfaces, traits,    *)
(* records, enums and their members, the annotations that generate         *)
(* members, and the renaming of nested types to their binary names, which  *)
(* runs over the tokens before anything is parsed.  A type is a record;    *)
(* nested types are hoisted behind the script.                             *)
(***************************************************************************)
EXTENDS Parser

-----------------------------------------------------------------------------
\* qualify_nested_types.  One walk finds each declaration, the body it opens
\* and the declaration it stands in.
Scan == [decls |-> <<>>, open |-> <<>>, awaiting |-> 0, level |-> 0]
Declares(ts, i, w) ==
    /\ ts[i] \in TypeWords \ {"record"} /\ w.awaiting = 0
    /\ i < Len(ts) /\ ts[i + 1] \in Idents
    /\ i = 1 \/ ts[i - 1] # "."
Found(ts, i, w) ==
    LET parent == IF w.open = <<>> THEN 0 ELSE Last(w.open).decl
        simple == ts[i + 1]
        d == [at |-> i + 1, simple |-> simple, parent |-> parent, from |-> 0, to |-> 0,
              qualified |-> IF parent = 0 THEN simple ELSE w.decls[parent].qualified \o "$" \o simple]
    IN  [w EXCEPT !.decls = Append(@, d), !.awaiting = Len(w.decls) + 1]
Opened(i, w) ==
    LET n == w.level + 1
    IN  IF w.awaiting = 0 THEN [w EXCEPT !.level = n]
        ELSE [w EXCEPT !.level = n, !.awaiting = 0, !.decls[w.awaiting].from = i,
                       !.open = Append(@, [decl |-> w.awaiting, level |-> n])]
Shut(i, w) ==
    LET closes == w.open # <<>> /\ Last(w.open).level = w.level
    IN  IF closes THEN [w EXCEPT !.level = @ - 1, !.decls[Last(w.open).decl].to = i, !.open = Front(@)]
        ELSE [w EXCEPT !.level = @ - 1]
TypesIn(ts) ==
    FoldLeft(LAMBDA w, i : CASE Declares(ts, i, w) -> Found(ts, i, w)
                             [] ts[i] = "{" -> Opened(i, w)
                             [] ts[i] = "}" -> Shut(i, w)
                             [] OTHER -> w,
             Scan, [i \in DOMAIN ts |-> i]).decls

\* The body a declaration stands in: the innermost around its name.
Enclosing(decls, d) == {o \in DOMAIN decls : decls[o].from < decls[d].at /\ decls[d].at < decls[o].to}
Innermost(decls, S) == CHOOSE o \in S : \A q \in S : decls[q].from <= decls[o].from
ScopeOf(decls, d) == Innermost(decls, Enclosing(decls, d) \ {d})

\* Names inside the scope become the binary name, the last declaration last.
Renames(decls, ts, d, i) ==
    \/ i = decls[d].at
    \/ LET o == decls[ScopeOf(decls, d)]
       IN  i > o.from /\ i < o.to /\ ts[i - 1] # "." /\ ts[i] = decls[d].simple
NestedDecls(decls) == {d \in DOMAIN decls : Enclosing(decls, d) \ {d} # {}}
RenamedFirst(decls, ts, i) ==     \* the outermost wins
    LET by == {d \in NestedDecls(decls) : Renames(decls, ts, d, i)}
    IN  IF by = {} THEN ts[i] ELSE decls[CHOOSE d \in by : \A e \in by : d <= e].qualified
Renamed(decls, ts, i) ==
    LET by == {d \in NestedDecls(decls) : Renames(decls, ts, d, i)}
    IN  IF by = {} THEN ts[i] ELSE decls[CHOOSE d \in by : \A e \in by : e <= d].qualified

\* Outer.Inner collapses to the one name.
RECURSIVE Collapsed(_, _)
Collapsed(ts, known) ==
    LET joins(i) == /\ i + 2 <= Len(ts) /\ ts[i] \in Idents /\ ts[i + 1] = "." /\ ts[i + 2] \in Idents
                    /\ ts[i] \o "$" \o ts[i + 2] \in known
        at == {i \in DOMAIN ts : joins(i)}
        i == CHOOSE n \in at : \A m \in at : n <= m
    IN  IF at = {} THEN ts
        ELSE Collapsed(SubSeq(ts, 1, i - 1) \o <<ts[i] \o "$" \o ts[i + 2]>> \o SubSeq(ts, i + 3, Len(ts)), known)
QualifyNestedTypes(ts) ==
    LET decls == TypesIn(ts)
    IN  IF NestedDecls(decls) = {} THEN ts
        ELSE Collapsed([i \in DOMAIN ts |-> Renamed(decls, ts, i)],
                       {decls[d].qualified : d \in NestedDecls(decls)})

-----------------------------------------------------------------------------
\* Lookahead over modifiers and annotations.
RECURSIVE PastWords(_, _, _), PastParens(_, _, _), PastAnnotations(_, _)
PastWords(s, n, words) == IF Ahead(s, n) \in words THEN PastWords(s, n + 1, words) ELSE n
TypeKeyword(s, n) ==
    LET w == PastWords(s, n, Modifiers)
    IN  IF Ahead(s, w) \in {"class", "interface", "trait"} /\ Ahead(s, w + 1) \in Idents THEN Ahead(s, w)
        ELSE "none"
TypeDeclAhead(s) == TypeKeyword(s, 0) # "none"
EnumDeclAhead(s) ==
    LET w == PastWords(s, 0, Modifiers \ {"abstract"}) IN Ahead(s, w) = "enum" /\ Ahead(s, w + 1) \in Idents
PastParens(s, n, open) ==     \* from a (, past its match; 0 at the end of the file
    LET now == open + (IF Ahead(s, n) = "(" THEN 1 ELSE IF Ahead(s, n) = ")" THEN -1 ELSE 0)
    IN  IF Ahead(s, n) = "eof" THEN 0 ELSE IF now = 0 THEN n + 1 ELSE PastParens(s, n + 1, now)
PastAnnotations(s, n) ==
    LET e == IF Ahead(s, n + 2) = "(" THEN PastParens(s, n + 2, 0) ELSE n + 2
    IN  IF Ahead(s, n) # "@" THEN n ELSE PastAnnotations(s, PastNewlines(s, e))
AnnotatedTypeAhead(s) ==
    Ahead(s, PastAnnotations(s, 0)) \in {"class", "interface", "trait"} \cup Modifiers

RECURSIVE SkipTo(_, _)
SkipTo(s, words) == IF Tok(s) \in words THEN s
                    ELSE IF Tok(s) = "eof" THEN Failed(s)     \* the parser never comes back
                    ELSE SkipTo(Advance(s), words)

\* class_annotations: what the annotations in front of a type ask for.  An
\* option is a key and a value.
Transforms == {"toString", "equals", "tuple"}
NoSelection == {}
Generated == [made |-> {}, select |-> [t \in Transforms |-> NoSelection], singleton |-> {}]
OptionsOf(s, n, to) ==     \* key = value inside the parentheses
    {<<Ahead(s, i - 2), Ahead(s, i)>> : i \in {k \in n .. to : k >= n + 2 /\ Ahead(s, k - 1) = "=" /\ Ahead(s, k) \in Literal}}
Selection(options) == {o \in options : o \in {<<"excludes", "'s'">>, <<"includeFields", "true">>}}
Shared(options) == {o \in options : o[1] = "excludes"}
Annotate(g, name, options) ==
    CASE name = "ToString" -> [g EXCEPT !.made = @ \cup {"toString"}, !.select["toString"] = Selection(options)]
      [] name = "Sortable" -> [g EXCEPT !.made = @ \cup {"sortable"}]
      [] name = "Singleton" -> [g EXCEPT !.made = @ \cup {"singleton"}, !.singleton = options]
      [] name = "Canonical" ->
           [g EXCEPT !.made = @ \cup Transforms,
                     !.select = [t \in Transforms |-> IF @[t] = NoSelection THEN Shared(options) ELSE @[t]]]
      [] OTHER -> g
RECURSIVE ClassAnnotations(_, _)
ClassAnnotations(s, g) ==
    LET e == IF Ahead(s, 2) = "(" THEN PastParens(s, 2, 0) ELSE 2
    IN  IF Tok(s) # "@" THEN Read(g, s)
        ELSE ClassAnnotations(SkipNewlines(Skip(s, e)), Annotate(g, Ahead(s, 1), OptionsOf(s, 3, e - 1)))

-----------------------------------------------------------------------------
\* Members.  The body of a type gathers its fields, constructors, methods,
\* the names of its methods without a body, and the types nested in it.
NoMembers == [fields |-> <<>>, ctors |-> <<>>, methods |-> <<>>, abstract |-> <<>>, hoisted |-> <<>>, compact |-> <<>>]
Field(name, ty, init, flags) == [name |-> name, ty |-> ty, init |-> init, flags |-> flags]
Method(name, ps, body, flags) == [name |-> name, params |-> ps, body |-> body, flags |-> flags]
Ctor(ps, body) == [params |-> ps, body |-> body]

\* A parameter list with defaults declares the shorter signatures too: each
\* binds what it drops, then forwards (a method) or runs the body (a constructor).
Prelude(ps, k) == [i \in 1 .. Cardinality(Dropped(ps, k)) |->
                     LET at == CHOOSE x \in Dropped(ps, k) : Cardinality({y \in Dropped(ps, k) : y <= x}) = i
                     IN  Local("def", ps[at][1], ps[at][2])]
Kept(ps, k) == NamesAt(ps, DOMAIN ps \ Dropped(ps, k))
AllNames(ps) == NamesAt(ps, DOMAIN ps)
Forwarded(name, ps, k) == Append(Prelude(ps, k), <<"return", <<"call", name, [i \in DOMAIN ps |-> Var(ps[i][1])]>>>>)
Overloaded(name, ps, flags) == [k \in 1 .. Defaulted(ps) |-> Method(name, Kept(ps, k), Forwarded(name, ps, k), flags)]
ShorterCtors(ps, body) == [k \in 1 .. Defaulted(ps) |-> Ctor(Kept(ps, k), Prelude(ps, k) \o body)]

\* What a type nests: the grammar of the statements, and types.
RECURSIVE Grammar(_, _)
Parameters(s) == LET o == SkipNewlines(Eat(s, "("))
                 IN  IF Tok(o) = ")" THEN Read(<<>>, Advance(o)) ELSE Grammar("parameters", o)
MemberBody(s) == Grammar("block", Eat(SkipNewlines(s), "{"))

RECURSIVE FieldDecls(_, _, _, _)
FieldDecls(s, ty, flags, m) ==     \* at the name
    LET n == Ident(s)
        i == Grammar("initializer", n.s)
        now == [m EXCEPT !.fields = Append(@, Field(n.t, ty, i.t, flags))]
    IN  IF Tok(i.s) = "," THEN FieldDecls(SkipNewlines(Advance(i.s)), ty, flags, now) ELSE Read(now, i.s)

\* A field or a method, at its name; bodiless where the type allows it.
WithBody(name, ps, static, b, m) ==
    Read([m EXCEPT !.methods = Append(@ \o Overloaded(name, ps, static), Method(name, AllNames(ps), b.t, static))], b.s)
WithoutBody(name, ps, static, m) ==
    Read([m EXCEPT !.methods = @ \o Overloaded(name, ps.t, static), !.abstract = Append(@, name)], ps.s)
MethodDecl(name, ps, static, bodiless, m) ==
    IF bodiless /\ Tok(ps.s) # "{" THEN WithoutBody(name, ps, static, m)
    ELSE WithBody(name, ps.t, static, MemberBody(ps.s), m)
FieldOrMethod(s, ty, flags, bodiless, m) ==
    LET n == Ident(s)
    IN  IF Tok(n.s) # "(" THEN FieldDecls(s, ty, flags, m)
        ELSE MethodDecl(n.t, Parameters(n.s), flags \cap {"static"}, bodiless, m)

RECURSIVE Members(_, _, _)

\* type is [name, interface, record].
FieldFlags(words) ==
    (words \cap {"static", "final"}) \cup (IF words \cap {"public", "private"} = {} THEN {"property"} ELSE {})
CtorWith(ps, b, m) == Read([m EXCEPT !.ctors = @ \o ShorterCtors(ps, b.t) \o <<Ctor(AllNames(ps), b.t)>>], b.s)
CtorFrom(ps, m) == CtorWith(ps.t, MemberBody(ps.s), m)
Nests(m, r) == Read([m EXCEPT !.hoisted = Append(@ \o r.t.hoisted, r.t.type)], r.s)
Compact(m, b) == Read([m EXCEPT !.compact = b.t], b.s)
MemberAt(s, words, type, m) ==     \* behind its annotations and words
    LET bodiless == type.interface \/ "abstract" \in words
        flags == FieldFlags(words)
    IN  CASE Tok(s) = "enum" /\ Ahead(s, 1) \in Idents -> Nests(m, Grammar("enum", s))
          [] TypeDeclAhead(s) -> Nests(m, Grammar("class", s))
          [] Tok(s) = "def" -> FieldOrMethod(Advance(s), "def", flags, bodiless, m)
          [] words # {} /\ Tok(s) \in Idents \ {type.name} /\ Ahead(s, 1) \in {"(", "=", "nl", ";", "}", ","} ->
               FieldOrMethod(s, "def", flags, bodiless, m)
          [] type.record /\ Tok(s) = type.name /\ Ahead(s, 1) = "{" -> Compact(m, MemberBody(Advance(s)))
          [] Tok(s) = type.name /\ Ahead(s, 1) = "(" -> CtorFrom(Parameters(Advance(s)), m)
          [] LooksLikeDecl(s) /\ ~TypeDeclAhead(s) /\ Tok(s) # "enum" ->
               FieldOrMethod(DeclType(s).s, DeclType(s).t, flags, bodiless, m)
          [] OTHER -> Read(m, Failed(s))
MemberInner(s, type, m) ==
    LET from == PastAnnotations(s, 0)
        to == PastWords(s, from, Modifiers \cup {"default"})
    IN  MemberAt(Skip(s, to), {Ahead(s, i) : i \in from .. to - 1}, type, m)

\* class_member: @Delegate marks the fields the member declares.
RECURSIVE DelegateAhead(_, _)
DelegateAhead(s, n) == Ahead(s, n) = "@" /\ (Ahead(s, n + 1) = "Delegate" \/ DelegateAhead(s, n + 2))
DelegatesTo(f) == [f EXCEPT !.flags = @ \cup {"delegate"}]
Delegated(r, before) ==
    Read([r.t EXCEPT !.fields = [i \in DOMAIN @ |-> IF i > before THEN DelegatesTo(@[i]) ELSE @[i]]], r.s)
MemberOf(s, type, m) ==
    IF DelegateAhead(s, 0) THEN Delegated(MemberInner(s, type, m), Len(m.fields)) ELSE MemberInner(s, type, m)
MoreMembers(r, type) == Members(SkipTerminators(ExpectTerminator(r.s)), type, r.t)
Members(s, type, m) ==
    IF Tok(s) \in {"}", "eof"} THEN Read(m, Eat(s, "}")) ELSE MoreMembers(MemberOf(s, type, m), type)
ClassBody(s, type) == Members(SkipTerminators(Eat(s, "{")), type, NoMembers)

-----------------------------------------------------------------------------
\* class, interface, trait: the header's names, then the body.
RECURSIVE NameList(_, _), Header(_, _, _)
NameList(s, sofar) ==
    LET n == Ident(s)
    IN  IF Tok(n.s) = "," THEN NameList(SkipNewlines(Advance(n.s)), Append(sofar, n.t)) ELSE Read(Append(sofar, n.t), n.s)
Header(s, interface, h) ==
    LET ns == NameList(Advance(s), <<>>)
    IN  CASE Tok(s) \in {"{", "eof"} -> Read(h, s)
          [] Tok(s) = "extends" ->
               Header(ns.s, interface, IF interface THEN [h EXCEPT !.interfaces = @ \o ns.t] ELSE [h EXCEPT !.super = Last(ns.t)])
          [] Tok(s) = "implements" -> Header(ns.s, interface, [h EXCEPT !.interfaces = @ \o ns.t])
          [] OTHER -> Header(Advance(s), interface, h)
NoHeader == [super |-> "none", interfaces |-> <<>>]

\* @Singleton: a static field with the instance, its getter, and a
\* constructor that refuses once there is one.
Lazy(g) == <<"lazy", "true">> \in g.singleton
NewOne(name) == <<"new", name, <<>>>>
Instance == Var("instance")
SingletonGetter(name, g) ==
    Method("getInstance", <<>>,
           (IF Lazy(g) THEN <<<<"if", <<"==", Instance, <<"constant", "null">>>>, <<<<"assign", Instance, "=", NewOne(name)>>>>, <<>>>>>> ELSE <<>>)
             \o <<<<"return", Instance>>>>, {"static"})
Refusal == <<<<"if", <<"!=", Instance, <<"constant", "null">>>>, <<<<"throw", <<"new", "RuntimeException", <<>>>>>>>>, <<>>>>>>
DeclaresNoArgs(m, name) == \E i \in DOMAIN m.methods : m.methods[i].name = name /\ m.methods[i].params = <<>>
Singleton(name, g, m) ==
    [m EXCEPT !.fields = Append(@, Field("instance", name, IF Lazy(g) THEN NoInit ELSE NewOne(name),
                                         {"static"} \cup (IF Lazy(g) THEN {} ELSE {"final"}))),
              !.methods = IF DeclaresNoArgs(m, "getInstance") THEN @
                          ELSE Append(@, SingletonGetter(name, g)),
              !.ctors = IF \E i \in DOMAIN @ : @[i].params = <<>> THEN @ ELSE Append(@, Ctor(<<>>, Refusal))]

Type(kind, name, h, made, m) ==
    [kind |-> kind, name |-> name, super |-> h.super, interfaces |-> h.interfaces, made |-> made,
     fields |-> m.fields, ctors |-> m.ctors, methods |-> m.methods, abstract |-> m.abstract]
Declared(kind, name, h, made, m) == [type |-> Type(kind, name, h, made, m), hoisted |-> m.hoisted]

ClassOf(kind, name, g, h, b) ==
    LET constants(f) == IF kind = "interface" THEN [f EXCEPT !.flags = @ \cup {"static", "final"}] ELSE f
        m == [b.t EXCEPT !.fields = [i \in DOMAIN @ |-> constants(@[i])]]
        made == [what |-> g.made, select |-> g.select]
    IN  IF "singleton" \notin g.made THEN Read(Declared(kind, name, h, made, m), b.s)
        ELSE Read(Declared(kind, name, h, made, Singleton(name, g, m)),
                  IF m.ctors # <<>> /\ <<"strict", "false">> \notin g.singleton THEN Failed(b.s) ELSE b.s)
ClassHeaded(kind, name, g, h) ==
    ClassOf(kind, name, g, h.t, ClassBody(h.s, [name |-> name, interface |-> kind # "class", record |-> FALSE]))
ClassNamed(kind, n, g) == ClassHeaded(kind, n.t, g, Header(SkipNewlines(n.s), kind # "class", NoHeader))
ClassDecl(s, g) ==     \* at the keyword, or the modifiers in front of it
    LET p == SkipTo(s, {"class", "interface", "trait"}) IN ClassNamed(Tok(p), Ident(Advance(p)), g)

\* record: components are final properties, the canonical constructor stores
\* them, each has an accessor unless the body declares one.
StoreThis(n) == <<"assign", <<"property", <<"this">>, ".", n>>, "=", Var(n)>>
ReadThis(n) == <<"expr", <<"property", <<"this">>, ".", n>>>>
RecordMembers(comps, m) ==
    [m EXCEPT
       !.fields = [i \in DOMAIN comps |-> Field(comps[i][1], "def", NoInit, {"property", "final"})] \o @
                    \o <<Field("serialVersionUID", "long", <<"int", "0">>, {"static", "property", "final"})>>,
       !.ctors = IF \E i \in DOMAIN @ : Len(@[i].params) = Len(comps) THEN @     \* parameters are untyped
                 ELSE Append(@, Ctor(AllNames(comps), m.compact \o [i \in DOMAIN comps |-> StoreThis(comps[i][1])])),
       !.methods = LET unread == SelectSeq(comps, LAMBDA c : ~DeclaresNoArgs(m, c[1]))
                   IN  @ \o [i \in DOMAIN unread |-> Method(unread[i][1], <<>>, <<ReadThis(unread[i][1])>>, {})]]
RecordAhead(s) == Tok(s) = "record" /\ Ahead(s, 1) \in Idents /\ Ahead(s, 2) = "("
RecordOf(name, comps, interfaces, b) ==
    Read(Declared("record", name, [NoHeader EXCEPT !.interfaces = interfaces],
                  [what |-> {"toString", "equals", "immutable"}, select |-> Generated.select],
                  RecordMembers(comps, b.t)), b.s)
RecordHeaded(name, comps, ns) ==
    RecordOf(name, comps, ns.t, ClassBody(SkipNewlines(ns.s), [name |-> name, interface |-> FALSE, record |-> TRUE]))
RecordWith(name, comps) ==
    LET p == SkipNewlines(comps.s)
    IN  RecordHeaded(name, comps.t, IF Tok(p) = "implements" THEN NameList(Advance(p), <<>>) ELSE Read(<<>>, p))
RecordDecl(s) == LET n == Ident(Advance(s)) IN RecordWith(n.t, Parameters(n.s))

\* enum: constants, then members; what java.lang.Enum supplies is generated
\* unless declared with the same name and arity.
RECURSIVE Constants(_, _)
AfterConstant(s, all) == IF Tok(s) = "," THEN Constants(SkipNewlines(Advance(s)), all) ELSE Read(all, s)
ConstantWith(name, args, sofar) ==     \* one with a body is refused
    AfterConstant(SkipNewlines(IF Tok(args.s) = "{" THEN Failed(args.s) ELSE args.s), Append(sofar, <<name, args.t>>))
Constants(s, sofar) ==
    IF ~(Tok(s) \in Idents /\ Ahead(s, 1) \in {"(", ",", ";", "nl", "}", "{"}) THEN Read(sofar, s)
    ELSE ConstantWith(Tok(s), IF Ahead(s, 1) = "(" THEN Grammar("arguments", Advance(s)) ELSE Read(<<>>, Advance(s)), sofar)
Supplied == <<<<"values", <<>>>>, <<"valueOf", <<"name">>>>, <<"name", <<>>>>, <<"ordinal", <<>>>>, <<"compareTo", <<"o">>>>,
              <<"toString", <<>>>>, <<"next", <<>>>>, <<"previous", <<>>>>, <<"getDeclaringClass", <<>>>>>>
WithOrdinal(c) == Ctor(c.params \o <<"$name", "$ordinal">>, <<StoreThis("$name"), StoreThis("$ordinal")>> \o c.body)
Ordinals == <<"0", "1", "2">>
EnumMembers(name, constants, m) ==
    LET missing(g) == \A i \in DOMAIN m.methods : ~(m.methods[i].name = g[1] /\ Len(m.methods[i].params) = Len(g[2]))
        supplied == SelectSeq(Supplied, missing)
        ctors == IF m.ctors = <<>> THEN <<Ctor(<<>>, <<>>)>> ELSE m.ctors
        constant(i) == Field(constants[i][1], name, <<"new", name, constants[i][2] \o <<<<"string", constants[i][1]>>, <<"int", Ordinals[i]>>>>>>, {"static"})
        bound(b, i) == Field(b, name, Var(constants[i][1]), {"static"})
    IN  [m EXCEPT
           !.fields = [i \in DOMAIN constants |-> constant(i)]
                        \o (IF constants = <<>> THEN <<>> ELSE <<bound("MIN_VALUE", 1), bound("MAX_VALUE", Len(constants))>>)
                        \o <<Field("$name", "String", NoInit, {"property", "final"}), Field("$ordinal", "int", NoInit, {"property", "final"})>> \o @,
           !.ctors = [i \in DOMAIN ctors |-> WithOrdinal(ctors[i])],
           !.methods = [i \in DOMAIN supplied |-> Method(supplied[i][1], supplied[i][2], <<"generated">>, {})] \o @]
EnumOf(name, interfaces, constants, b) ==
    Read(Declared("enum", name, [super |-> "none", interfaces |-> <<"Enum", "Comparable">> \o interfaces],
                  [what |-> {}, select |-> Generated.select], EnumMembers(name, constants, b.t)), b.s)
EnumWith(name, interfaces, cs) ==
    EnumOf(name, interfaces, cs.t, Members(SkipTerminators(cs.s), [name |-> name, interface |-> FALSE, record |-> FALSE], NoMembers))
EnumHeaded(name, h) == EnumWith(name, h.t.interfaces, Constants(SkipTerminators(Eat(h.s, "{")), <<>>))
EnumDecl(s) ==     \* at the keyword
    LET n == Ident(Advance(s)) IN EnumHeaded(n.t, Header(SkipNewlines(n.s), FALSE, NoHeader))

-----------------------------------------------------------------------------
\* A statement of the script; the types it hoists go behind the script.
AnnotatedClass(a) == ClassDecl(a.s, a.t)
TypeStatement(s) ==
    CASE Tok(s) = "@" /\ AnnotatedTypeAhead(s) -> AnnotatedClass(ClassAnnotations(s, Generated))
      [] RecordAhead(s) -> RecordDecl(s)
      [] EnumDeclAhead(s) -> Grammar("enum", SkipTo(s, {"enum"}))
      [] TypeDeclAhead(s) -> Grammar("class", s)
Grammar(what, s) ==
    CASE what = "class" -> ClassDecl(s, Generated)
      [] what = "enum" -> EnumDecl(s)
      [] what = "type" -> TypeStatement(s)
      [] OTHER -> Parse(what, s)
IsTypeStatement(s) ==
    (Tok(s) = "@" /\ AnnotatedTypeAhead(s)) \/ RecordAhead(s) \/ EnumDeclAhead(s) \/ TypeDeclAhead(s)
RECURSIVE Script(_, _, _)
AfterType(d, body, hoisted) ==
    Script(SkipTerminators(ExpectTerminator(d.s)), Append(body, <<"type", d.t.type>>),
           hoisted \o [i \in DOMAIN d.t.hoisted |-> <<"type", d.t.hoisted[i]>>])
AfterStatements(r, body, hoisted) == Script(SkipTerminators(ExpectTerminator(r.s)), body \o r.t, hoisted)
AfterOne(isType, r, body, hoisted) ==
    IF isType THEN AfterType(r, body, hoisted) ELSE AfterStatements(Drained(r), body, hoisted)
ScriptAt(s, body, hoisted) ==
    IF Tok(s) = "eof" THEN Read(body \o hoisted, s)
    ELSE AfterOne(IsTypeStatement(s), Grammar(IF IsTypeStatement(s) THEN "type" ELSE "statement", s), body, hoisted)
Script(s, body, hoisted) ==     \* an annotation of anything else is read past
    ScriptAt(IF Tok(s) = "@" /\ ~AnnotatedTypeAhead(s) THEN Skip(s, PastAnnotations(s, 0)) ELSE s, body, hoisted)

Unit == OrRefused(Script(SkipTerminators(Cursor(1)), <<>>, <<>>))
=============================================================================
