---------------------------- MODULE TypePrograms ----------------------------
(***************************************************************************)
(* Scripts with type declarations: how they are written, and what must be  *)
(* read from the text.  A type is [kind, name, annotations, head, members],*)
(* where head is what it extends and implements, or a record's components, *)
(* or an enum's constants.  A variable of the script, which may be         *)
(* annotated too, is written and read as one more kind.                    *)
(***************************************************************************)
EXTENDS Declarations, Programs

CONSTANT TypeScripts     \* the scripts written, each a list of types

VARIABLES
    types,               \* the script written
    typeToks             \* its tokens, as lexed

typeVars == <<types, typeToks>>

-----------------------------------------------------------------------------
\* Writing.
WordText(w) == IF w \in {"T$U", "T$V"} THEN <<"T", ".", IF w = "T$U" THEN "U" ELSE "V">> ELSE <<w>>
Spelled(ts) == FlattenSeq([i \in DOMAIN ts |-> WordText(ts[i])])
ParamsText(ps) == <<"(">> \o Joined([i \in DOMAIN ps |-> DeclaratorText(ps[i])]) \o <<")">>

RECURSIVE TypeText(_)
MemberText(m) ==
    LET k == m[1]
    IN  CASE k = "field" -> m[2] \o (IF m[3] = "none" THEN <<>> ELSE <<m[3]>>) \o Joined([i \in DOMAIN m[4] |-> DeclaratorText(m[4][i])])
          [] k = "method" -> m[2] \o (IF m[3] = "none" THEN <<>> ELSE <<m[3]>>) \o <<m[4]>> \o ParamsText(m[5]) \o Braces(m[6])
          [] k = "signature" -> m[2] \o <<m[3], m[4]>> \o ParamsText(m[5])
          [] k = "ctor" -> <<m[2]>> \o ParamsText(m[3]) \o Braces(m[4])
          [] k = "compact" -> <<m[2]>> \o Braces(m[3])
          [] k = "nested" -> m[2] \o TypeText(m[3])
AnnotationText(a) ==
    <<"@", a[1]>> \o (IF a[2] = <<>> THEN <<>> ELSE <<"(">> \o Joined([i \in DOMAIN a[2] |-> <<a[2][i][1], "=", a[2][i][2]>>]) \o <<")">>) \o <<"nl">>
ConstantText(c) == <<c[1]>> \o IF c[2] = <<>> THEN <<>> ELSE Arguments(c[2])
HeadText(t) ==
    CASE t.kind = "record" -> ParamsText(t.head) \o <<"{", "nl">>
      [] t.kind = "enum" -> <<"{", "nl">> \o Joined([i \in DOMAIN t.head |-> ConstantText(t.head[i])]) \o <<"nl">>
      [] OTHER -> t.head \o <<"{", "nl">>
TypeText(t) ==
    FlattenSeq([i \in DOMAIN t.annotations |-> AnnotationText(t.annotations[i])])
      \o t.words
      \o IF t.kind = "variable" THEN <<"int", t.name>>
         ELSE <<t.kind, t.name>> \o HeadText(t)
                \o FlattenSeq([i \in DOMAIN t.members |-> MemberText(t.members[i]) \o <<"nl">>]) \o <<"}">>

-----------------------------------------------------------------------------
\* Reading: a bare name is the member type of the innermost enclosing type
\* that declares one.  scopes lists the enclosing types, innermost first.
NestedIn(t) == {t.members[i][3].name : i \in {n \in DOMAIN t.members : t.members[n][1] = "nested"}}
Resolved(name, scopes) ==
    LET at == {i \in DOMAIN scopes : name \in scopes[i].nested}
    IN  IF at = {} THEN name ELSE scopes[CHOOSE i \in at : \A j \in at : i <= j].name \o "$" \o name
ResolvedIn(e, scopes) == IF e[1] = "new" THEN <<"new", Resolved(e[2], scopes), e[3]>> ELSE e
Bound(body, scopes) == [i \in DOMAIN body |-> IF body[i][1] = "expr" THEN <<"expr", ResolvedIn(body[i][2], scopes)>>
                                              ELSE MeaningOf(body[i])[1]]

\* What a declared member stands for.
FieldsOf(m, scopes, interface) ==
    LET flags == (ToSet(m[2]) \cap {"static", "final"}) \cup (IF interface THEN {"static", "final"} ELSE {})
                   \cup (IF ToSet(m[2]) \cap {"public", "private"} = {} THEN {"property"} ELSE {})
                   \cup (IF "Delegate" \in ToSet(m[2]) THEN {"delegate"} ELSE {})
    IN  [i \in DOMAIN m[4] |-> Field(m[4][i][1], IF m[3] = "none" THEN "def" ELSE Resolved(m[3], scopes),
                                     ResolvedIn(m[4][i][2], scopes), flags)]
MethodsOf(m, scopes) ==
    LET static == ToSet(m[2]) \cap {"static"}
    IN  Overloaded(m[4], m[5], static) \o IF m[1] = "signature" THEN <<>>
                                          ELSE <<Method(m[4], AllNames(m[5]), Bound(m[6], scopes), static)>>
Each(t, kinds, op(_)) ==
    FlattenSeq([i \in DOMAIN t.members |-> IF t.members[i][1] \in kinds THEN op(t.members[i]) ELSE <<>>])

Outer(t, name, scopes) == <<[name |-> name, nested |-> NestedIn(t)]>> \o scopes
Means(t, name, scopes) ==
    LET inside == Outer(t, name, scopes)
    IN  [fields |-> Each(t, {"field"}, LAMBDA m : FieldsOf(m, inside, t.kind = "interface")),
         methods |-> Each(t, {"method", "signature"}, LAMBDA m : MethodsOf(m, inside)),
         ctors |-> Each(t, {"ctor"}, LAMBDA m : ShorterCtors(m[3], Bound(m[4], inside)) \o <<Ctor(AllNames(m[3]), Bound(m[4], inside))>>),
         abstract |-> Each(t, {"signature"}, LAMBDA m : <<m[4]>>),
         compact |-> Each(t, {"compact"}, LAMBDA m : Bound(m[3], inside))]

\* The types a type brings, itself last, with their names and scopes.
RECURSIVE Brought(_, _, _)
Brought(t, name, scopes) ==
    FlattenSeq([i \in DOMAIN t.members |->
                  IF t.members[i][1] = "nested"
                  THEN Brought(t.members[i][3], name \o "$" \o t.members[i][3].name, Outer(t, name, scopes)) ELSE <<>>])
      \o <<[type |-> t, name |-> name, scopes |-> scopes]>>
Hoisted(t) == Front(Brought(t, t.name, <<>>))
InOrder == [i \in DOMAIN types |-> Last(Brought(types[i], types[i].name, <<>>))]
             \o FlattenSeq([i \in DOMAIN types |-> Hoisted(types[i])])

-----------------------------------------------------------------------------
\* What a kind of type adds to what is declared.
SameSignature(a, b) == a.name = b.name /\ Len(a.params) = Len(b.params)
OneOfEach(methods) == \A i, j \in DOMAIN methods : SameSignature(methods[i], methods[j]) => i = j
Suffix(s, part) == Len(part) <= Len(s) /\ SubSeq(s, Len(s) - Len(part) + 1, Len(s)) = part
PrefixOf(s, part) == Len(part) <= Len(s) /\ SubSeq(s, 1, Len(part)) = part
Has(methods, name) == \E i \in DOMAIN methods : methods[i].name = name /\ methods[i].params = <<>>

PlainRead(r, d) == r.fields = d.fields /\ r.methods = d.methods /\ r.ctors = d.ctors /\ r.abstract = d.abstract
SingletonRead(r, d) ==
    /\ PrefixOf(r.fields, d.fields) /\ PrefixOf(r.methods, d.methods) /\ PrefixOf(r.ctors, d.ctors)
    /\ \E i \in DOMAIN r.fields : r.fields[i].name = "instance" /\ "static" \in r.fields[i].flags
    /\ OneOfEach(r.methods) /\ Has(r.methods, "getInstance")
    /\ Cardinality({i \in DOMAIN r.ctors : r.ctors[i].params = <<>>}) = 1
RecordRead(t, r, d) ==
    LET n == Len(t.head)
        canonical == SelectSeq(r.ctors, LAMBDA c : Len(c.params) = n)
    IN  /\ \A i \in 1 .. n : r.fields[i] = Field(t.head[i][1], "def", NoInit, {"property", "final"})
        /\ SubSeq(r.fields, n + 1, Len(r.fields) - 1) = d.fields
        /\ Len(canonical) = 1
        /\ canonical[1] \notin ToSet(d.ctors) => /\ PrefixOf(canonical[1].body, d.compact)
                                                 /\ \A i \in 1 .. n : StoreThis(t.head[i][1]) \in ToSet(canonical[1].body)
        /\ PrefixOf(r.methods, d.methods) /\ OneOfEach(r.methods)
        /\ \A i \in 1 .. n : Has(r.methods, t.head[i][1])
EnumRead(t, r, d) ==
    LET n == Len(t.head)
    IN  /\ \A i \in 1 .. n :
             /\ r.fields[i].name = t.head[i][1] /\ "static" \in r.fields[i].flags
             /\ \E c \in DOMAIN r.ctors : Len(r.ctors[c].params) = Len(r.fields[i].init[3])
             /\ SubSeq(r.fields[i].init[3], 1, Len(t.head[i][2])) = t.head[i][2]
        /\ n > 0 => /\ r.fields[n + 1].init = Var(t.head[1][1])
                    /\ r.fields[n + 2].init = Var(t.head[n][1])
        /\ Suffix(r.fields, d.fields) /\ Suffix(r.methods, d.methods) /\ OneOfEach(r.methods)
        /\ \A g \in ToSet(Supplied) : \E i \in DOMAIN r.methods : SameSignature(r.methods[i], [name |-> g[1], params |-> g[2]])
        /\ \A c \in DOMAIN r.ctors : StoreThis("$ordinal") \in ToSet(SubSeq(r.ctors[c].body, 1, 2))

TypeRead(x, r) ==
    LET t == x.type
        d == Means(t, x.name, x.scopes)
    IN  /\ r.kind = t.kind /\ r.name = x.name
        /\ CASE t.kind = "record" -> RecordRead(t, r, d)
             [] t.kind = "enum" -> EnumRead(t, r, d)
             [] "singleton" \in r.made.what -> SingletonRead(r, d)
             [] OTHER -> PlainRead(r, d)

-----------------------------------------------------------------------------
TypesInit == types = <<>> /\ typeToks = <<>> /\ source = <<>> /\ toks = <<>>
ScriptText(ts) == FlattenSeq([i \in DOMAIN ts |-> TypeText(ts[i]) \o <<"nl">>])

\* A script is written; the nested types are renamed before it is parsed.
WriteTypes ==
    /\ types = <<>>
    /\ \E ts \in TypeScripts :
         /\ types' = ts
         /\ typeToks' = Spelled(ScriptText(ts))
         /\ toks' = QualifyNestedTypes(typeToks')
    /\ UNCHANGED source

\* Every declared type is read, under its binary name and in order, with its
\* members; every name in a body is the type Java's scoping gives it; and a
\* record, an enum and a singleton get what they lack and nothing twice.
IsScript(u) ==
    /\ Len(u) = Len(InOrder)
    /\ \A i \in DOMAIN u :
         IF InOrder[i].type.kind = "variable" THEN u[i] = Local("int", InOrder[i].name, NoInit)
         ELSE u[i][1] = "type" /\ TypeRead(InOrder[i], u[i][2])
TypesReadBack == types # <<>> => IsScript(Unit.t)
=============================================================================
