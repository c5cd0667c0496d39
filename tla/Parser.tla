------------------------------- MODULE Parser -------------------------------
(***************************************************************************)
(* The recursive descent of src/src/parser.rs: expressions by precedence   *)
(* climbing, postfix chains, literals and closures, and the statement      *)
(* forms.  A parse reads the tokens from a cursor and answers a tree and   *)
(* the cursor behind it; a cursor also carries the statements queued for   *)
(* the enclosing list and the nesting budget in use.  Source lines and     *)
(* columns, power-assert recording and wording are left out, and a lowered *)
(* form (a spread, a method pointer, a for-in loop) is one node.           *)
(***************************************************************************)
EXTENDS Integers, Sequences, SequencesExt, FiniteSets, TLC

CONSTANT MaxNesting      \* MAX_NESTING

VARIABLES
    source,              \* the program, as a tree
    toks                 \* its tokens

parserVars == <<source, toks>>

LowerNames == {"a", "b", "c", "f", "m", "p", "getInstance", "toString", "next"}
Capitals == {"T", "U", "V", "T$U", "T$V", "U$V", "T$U$V", "Object", "Canonical", "ToString", "Sortable",
             "Singleton", "Delegate", "Override", "Field"}
Primitives == {"int"}
Modifiers == {"final", "static", "public", "private", "abstract"}
TypeWords == {"class", "interface", "trait", "enum", "record"}
Words == {"as", "instanceof", "println", "throw", "try", "catch", "finally", "yield", "this",
          "extends", "implements", "excludes", "includeFields", "strict", "lazy"} \cup Modifiers \cup TypeWords
Idents == LowerNames \cup Capitals \cup Primitives \cup Words
Ints == {"0", "1", "2"}
Literal == Ints \cup {"'s'", "true", "false", "null"}
Keywords == {"def", "if", "else", "while", "do", "for", "in", "switch", "case", "default",
             "assert", "return", "break", "continue", "true", "false", "null", "new"}

AssignOps == {"=", "+=", "*="}
RangeOps == {"..", "..<"}

\* binop: how tightly each operator binds.
PowerBP == 12
EqualityBP == 7
RelationalBP == 8
CastBP == RelationalBP + 1
RangeOperandBP == 10
Bp == ("||" :> 1) @@ ("&&" :> 2) @@ ("|" :> 3) @@ ("^" :> 4) @@ ("&" :> 5) @@ ("=~" :> 6)
        @@ ("==" :> EqualityBP) @@ ("<=>" :> EqualityBP) @@ ("<" :> RelationalBP)
        @@ ("in" :> RelationalBP) @@ ("<<" :> 9) @@ ("+" :> 10) @@ ("-" :> 10)
        @@ ("*" :> 11) @@ ("**" :> PowerBP)

-----------------------------------------------------------------------------
\* The cursor.
Cursor(i) == [at |-> i, queued |-> <<>>, depth |-> 0, arms |-> 0, ok |-> TRUE]
Tok(s) == IF s.ok /\ s.at <= Len(toks) THEN toks[s.at] ELSE "eof"
Ahead(s, n) == IF s.ok /\ s.at + n <= Len(toks) THEN toks[s.at + n] ELSE "eof"
Advance(s) == [s EXCEPT !.at = @ + 1]
Skip(s, n) == [s EXCEPT !.at = @ + n]
Failed(s) == [s EXCEPT !.ok = FALSE]
Eat(s, t) == IF Tok(s) = t THEN Advance(s) ELSE Failed(s)
Read(tree, s) == [t |-> tree, s |-> s]
Tagged(tag, r) == Read(<<tag, r.t>>, r.s)
AtDepth(r, depth) == Read(r.t, [r.s EXCEPT !.depth = depth])

RECURSIVE SkipNewlines(_), SkipTerminators(_)
SkipNewlines(s) == IF Tok(s) = "nl" THEN SkipNewlines(Advance(s)) ELSE s
SkipTerminators(s) == IF Tok(s) \in {"nl", ";"} THEN SkipTerminators(Advance(s)) ELSE s

Ends == {"nl", ";", "}", "eof"}
ExpectTerminator(s) == IF Tok(s) \in Ends THEN s ELSE Failed(s)

\* deepen: one level of the nesting budget.
Deepen(s) == IF s.depth < MaxNesting THEN [s EXCEPT !.depth = @ + 1]
             ELSE Failed([s EXCEPT !.depth = @ + 1])

-----------------------------------------------------------------------------
\* Lookahead.

\* generic_args_end: past the matching closer of the < at n, or 0.
RECURSIVE GenericEnd(_, _, _)
GenericEnd(s, n, open) ==
    LET t == Ahead(s, n)
        now == open + (IF t = "<" THEN 1 ELSE IF t = ">" THEN -1 ELSE IF t = ">>" THEN -2 ELSE 0)
    IN  IF t \notin Idents \cup {"<", ">", ">>", ",", ".", "?", "[", "]"} THEN 0
        ELSE IF now > 0 THEN GenericEnd(s, n + 1, now)
        ELSE IF now = 0 THEN n + 1 ELSE 0

RECURSIVE PastBrackets(_, _)
PastBrackets(s, n) ==
    IF Ahead(s, n) = "[" /\ Ahead(s, n + 1) = "]" THEN PastBrackets(s, n + 2) ELSE n

PastGenerics(s, n) == IF Ahead(s, n) = "<" THEN GenericEnd(s, n, 0) ELSE n

\* java_cast_ahead: (Type) before something that begins an operand.
OperandStarts == (Idents \ {"as", "instanceof"}) \cup Literal
                   \cup {"new", "(", "[", "{", "!", "~", "++", "--", "+", "-"}
CastAhead(s) ==
    LET g == PastGenerics(s, 2)
        e == PastBrackets(s, g)
    IN  /\ Ahead(s, 1) \in Idents
        /\ g # 0
        /\ Ahead(s, e) = ")"
        /\ e > 2 \/ Ahead(s, 1) \in Primitives \cup Capitals
        /\ Ahead(s, e + 1) \in OperandStarts

\* command_arg_ahead: the argument of a call written without parentheses.
CommandArgAhead(s) == Tok(s) \in Literal \cup {"new"} \cup (Idents \ {"as", "instanceof", "extends", "implements"})

NamedArgAhead(s) == Tok(s) \in Idents \cup {"'s'"} /\ Ahead(s, 1) = ":"

\* looks_like_decl: a type, then a name that is no word operator.
LooksLikeDecl(s) ==
    LET g == IF Tok(s) \in Capitals THEN PastGenerics(s, 1) ELSE 1
    IN  /\ Tok(s) \in Idents /\ g # 0
        /\ Ahead(s, PastBrackets(s, g)) \in Idents \ {"instanceof", "as"}

\* arrow_follows_params: names, commas and defaults up to ->.
RECURSIVE ArrowFollows(_, _), PastDefault(_, _, _)
PastDefault(s, n, open) ==
    LET t == Ahead(s, n)
    IN  CASE t \in {")", "]", "}"} /\ open = 0 -> 0
          [] t \in {",", "->"} /\ open = 0 -> n
          [] t = "eof" \/ (t \in {"nl", ";"} /\ open = 0) -> 0
          [] OTHER -> PastDefault(s, n + 1, open + (IF t \in {"(", "[", "{"} THEN 1
                                                    ELSE IF t \in {")", "]", "}"} THEN -1 ELSE 0))
ArrowFollows(s, n) ==
    CASE Ahead(s, n) \in Idents \cup {",", "..."} -> ArrowFollows(s, n + 1)
      [] Ahead(s, n) = "[" /\ Ahead(s, n + 1) = "]" -> ArrowFollows(s, n + 2)
      [] Ahead(s, n) = "def" /\ Ahead(s, n + 1) \in Idents -> ArrowFollows(s, n + 1)
      [] Ahead(s, n) = "=" -> IF PastDefault(s, n + 1, 0) = 0 THEN FALSE
                              ELSE ArrowFollows(s, PastDefault(s, n + 1, 0))
      [] OTHER -> Ahead(s, n) = "->"

RECURSIVE PastNewlines(_, _)
PastNewlines(s, n) == IF Ahead(s, n) = "nl" THEN PastNewlines(s, n + 1) ELSE n

StatementIsClosure(s) == Tok(s) = "{" /\ ArrowFollows(s, PastNewlines(s, 1))
StartsALabel(s) == Ahead(s, 1) = ":" /\ Ahead(s, PastNewlines(s, 2)) \in {"while", "do", "for", "switch"}

RECURSIVE InBefore(_, _)
InBefore(s, n) == IF Ahead(s, n) \in {";", ")", "eof", "in"} THEN Ahead(s, n) = "in"
                  ELSE InBefore(s, n + 1)
ForIsIn(s) == InBefore(s, 0)

RECURSIVE NamesThenAssign(_, _)
NamesThenAssign(s, n) ==
    /\ Ahead(s, n) \in Idents
    /\ \/ Ahead(s, n + 1) = "," /\ NamesThenAssign(s, n + 2)
       \/ Ahead(s, n + 1) = ")" /\ Ahead(s, n + 2) = "="
LooksLikeMultiAssign(s) == Tok(s) = "(" /\ Ahead(s, 2) = "," /\ NamesThenAssign(s, 1)

-----------------------------------------------------------------------------
\* Every way back into the grammar: what nests goes through here.
RECURSIVE Parse(_, _)
Expression(s) == Parse("expression", s)
Unary(s) == Parse("unary", s)
Atom(s) == Parse("atom", s)
Statement(s) == Parse("statement", s)
SimpleStatement(s) == Parse("simple statement", s)
RangeExpr(s) == Parse("range", s)
OptInitializer(s) == Parse("initializer", s)
ParamList(s) == Parse("parameters", s)
Block(s) == Parse("block", s)                       \* past the opening brace
BracedOrSingle(s) == Parse("body", s)
ExpressionOrAssign(s) == Parse("assignment", s)
ClosureLiteral(s) == Parse("closure", s)
CallArgs(s) == Parse("arguments", s)
ArgsAndClosure(s) == Parse("arguments and closure", s)

RECURSIVE SwitchBody(_), Checked(_, _), Binary(_, _), BinaryLoop(_, _, _),
          PostfixChain(_, _), StatementsUntil(_, _, _),
          ListRest(_, _), MapRest(_, _), ArgsRest(_, _), CommandArgs(_, _), IndexRest(_, _),
          Declarators(_, _), Params(_, _), Names(_, _),
          Sections(_, _), SectionBody(_, _), Labels(_, _), Catches(_, _), ForClauseRest(_, _, _),
          ParamRest(_, _), Resources(_, _), StrayBreak(_), Yields(_)

Ident(s) == IF Tok(s) \in Idents THEN Read(Tok(s), Advance(s)) ELSE Read("none", Failed(s))

\* type_name and decl_type: brackets and generic arguments are read past.
TypeName(s) == LET n == Ident(s) IN Read(n.t, Skip(n.s, PastBrackets(n.s, 0)))
DeclType(s) == LET n == Ident(s)
                   g == PastGenerics(n.s, 0)
               IN  Read(n.t, Skip(n.s, PastBrackets(n.s, g)))

IsTarget(e) == e[1] \in {"property", "index"}
IsAssignable(e) == e[1] \in {"var", "property", "index"}

\* expression_or_assign: an assignment that is a value.
AssignmentForm(s) ==
    LET lhs == Expression(s)
    IN  IF Tok(lhs.s) \in AssignOps /\ IsAssignable(lhs.t)
        THEN LET v == ExpressionOrAssign(SkipNewlines(Advance(lhs.s)))
             IN  Read(<<"assigned", lhs.t, Tok(lhs.s), v.t>>, v.s)
        ELSE lhs

RangeFrom(lhs, s) ==
    LET e == Binary(SkipNewlines(Advance(s)), RangeOperandBP)
    IN  Read(<<"range", lhs, Tok(s), e.t>>, e.s)

\* binary_from: the whole chain is one expression of the budget.
BinaryFrom(l, min) == AtDepth(BinaryLoop(l.t, l.s, min), l.s.depth)

OrRange(start) == IF Tok(start.s) \in RangeOps THEN RangeFrom(start.t, start.s) ELSE start
RangeForm(s) == BinaryFrom(OrRange(Binary(s, RangeOperandBP)), 0)

Conditional(s) ==     \* expression
    LET c == RangeExpr(s)
    IN  CASE Tok(c.s) = "?:" ->
               LET e == Expression(SkipNewlines(Advance(c.s))) IN Read(<<"elvis", c.t, e.t>>, e.s)
          [] Tok(c.s) = "?" ->
               LET t == Expression(SkipNewlines(Advance(c.s)))
                   e == Expression(SkipNewlines(Eat(t.s, ":")))
               IN  Read(<<"ternary", c.t, t.t, e.t>>, e.s)
          [] OTHER -> c

Binary(s, min) == BinaryFrom(Unary(s), min)

\* How tightly the right operand of an operator parses: one above it.
RightBPSame(bp) == bp
RightBP(bp) == bp + 1

\* Whether a range may be the right operand of an operator.
TakesRange(bp) == bp <= RelationalBP

BinaryLoop(l, s0, min) ==
    LET s == Deepen(s0)
        negated == min <= RelationalBP /\ Tok(s) = "!" /\ Ahead(s, 1) \in {"in", "instanceof"}
        p == IF negated THEN Advance(s) ELSE s
        op == Tok(p)
        Wrapped(t) == IF negated THEN <<"!", t>> ELSE t
    IN  CASE op = "instanceof" /\ min <= CastBP ->
               LET ty == TypeName(Advance(p))
               IN  BinaryLoop(Wrapped(<<"instanceof", l, ty.t>>), ty.s, min)
          [] op = "as" /\ min <= CastBP ->
               LET ty == TypeName(Advance(p)) IN BinaryLoop(<<"as", l, ty.t>>, ty.s, min)
          [] op \in {"===", "!=="} /\ min <= EqualityBP ->
               LET r == Binary(SkipNewlines(Advance(p)), EqualityBP + 1)
                   is == <<"is", l, r.t>>
               IN  BinaryLoop(IF op = "===" THEN is ELSE <<"!", is>>, r.s, min)
          [] op \in DOMAIN Bp /\ (IF op \in DOMAIN Bp THEN Bp[op] >= min ELSE FALSE) ->
               LET r == Binary(SkipNewlines(Advance(p)), RightBP(Bp[op]))
                   q == IF TakesRange(Bp[op]) THEN OrRange(r) ELSE r
               IN  BinaryLoop(Wrapped(<<op, l, q.t>>), q.s, min)
          [] OTHER -> Read(l, p)

\* The operand of a prefix operator takes the ** that follows it.
PrefixOperand(s) == BinaryFrom(Unary(s), PowerBP)

JavaCast(s) ==
    LET ty == DeclType(Advance(s))
        p == Eat(ty.s, ")")
        v == Unary(IF Tok(p) = "+" THEN Advance(p) ELSE p)
    IN  Read(<<"cast", ty.t, v.t>>, v.s)

IncDecPrefix(s) ==
    LET x == Unary(Advance(s))
    IN  IF IsAssignable(x.t) THEN Read(<<"pre", Tok(s), x.t>>, x.s) ELSE Read(x.t, Failed(x.s))

Positive(x) == IF x.t[1] = "int" THEN x ELSE Tagged("positive", x)

UnaryInner(s) ==
    CASE Tok(s) = "(" /\ CastAhead(s) -> JavaCast(s)
      [] Tok(s) \in {"!", "~"} -> Tagged(Tok(s), PrefixOperand(Advance(s)))
      [] Tok(s) = "-" -> Tagged("neg", PrefixOperand(Advance(s)))
      [] Tok(s) = "+" -> Positive(PrefixOperand(Advance(s)))
      [] Tok(s) \in {"++", "--"} -> IncDecPrefix(s)
      [] OTHER -> LET a == Atom(s) IN PostfixChain(a.t, a.s)

Prefixed(s) == AtDepth(UnaryInner(Deepen(s)), s.depth)

-----------------------------------------------------------------------------
\* A closure: its parameters up to ->, then a block.
BlockForm(s) ==
    LET r == StatementsUntil(SkipTerminators(Deepen(s)), {"}"}, <<>>)
    IN  Read(r.t, [Eat(r.s, "}") EXCEPT !.depth = s.depth])

ParamType(s) ==
    IF Tok(s) = "def" /\ Ahead(s, 1) \in Idents THEN Advance(s)
    ELSE IF Tok(s) \in Idents /\ Ahead(s, 1) \in Idents THEN Advance(s)
    ELSE IF Tok(s) \in Idents /\ Ahead(s, 1) = "[" /\ Ahead(s, 2) = "]" THEN Skip(s, PastBrackets(s, 1))
    ELSE s
Params(s, sofar) ==
    LET n == Ident(ParamType(s))
        d == IF Tok(n.s) = "=" THEN Expression(SkipNewlines(Advance(n.s))) ELSE Read(<<"none">>, n.s)
        all == Append(sofar, <<n.t, d.t>>)
    IN  IF Tok(d.s) = "," THEN Params(SkipNewlines(Advance(d.s)), all) ELSE Read(all, d.s)

ClosureForm(s) ==
    LET o == SkipNewlines(Eat(s, "{"))
        ps == IF Tok(o) = "->" THEN Read(<<>>, o) ELSE Params(o, <<>>)
    IN  IF ArrowFollows(o, 0)
        THEN LET b == Block(SkipNewlines(Eat(ps.s, "->"))) IN Read(<<"closure", ps.t, b.t>>, b.s)
        ELSE LET b == Block(o) IN Read(<<"closure", <<"it">>, b.t>>, b.s)

\* Arguments.  Named ones gather into one map, passed first.
Gathered(args, named) == IF named = <<>> THEN args ELSE <<<<"map", named>>>> \o args
Argument(s) ==
    IF NamedArgAhead(s)
    THEN LET v == Expression(SkipNewlines(Skip(s, 2))) IN Read(<<"named", Tok(s), v.t>>, v.s)
    ELSE IF Tok(s) = "*"
    THEN LET v == Expression(SkipNewlines(Advance(s))) IN Read(<<"spread", v.t>>, v.s)
    ELSE ExpressionOrAssign(s)
Sorted(args) ==
    Gathered(SelectSeq(args, LAMBDA x : x[1] # "named"),
             [i \in 1 .. Len(SelectSeq(args, LAMBDA x : x[1] = "named")) |->
                LET n == SelectSeq(args, LAMBDA x : x[1] = "named")[i] IN <<<<"string", n[2]>>, n[3]>>])
ArgsRest(s, sofar) ==
    LET a == Argument(s)
        p == SkipNewlines(a.s)
    IN  IF Tok(p) = "," THEN ArgsRest(SkipNewlines(Advance(p)), Append(sofar, a.t))
        ELSE Read(Sorted(Append(sofar, a.t)), Eat(p, ")"))
ArgumentsForm(s) ==
    LET p == SkipNewlines(Eat(s, "("))
    IN  IF Tok(p) = ")" THEN Read(<<>>, Advance(p)) ELSE ArgsRest(p, <<>>)
CommandArgs(s, sofar) ==
    LET a == IF NamedArgAhead(s) THEN Argument(s) ELSE Expression(s)
    IN  IF Tok(a.s) = "," THEN CommandArgs(SkipNewlines(Advance(a.s)), Append(sofar, a.t))
        ELSE Read(Sorted(Append(sofar, a.t)), a.s)

\* Call arguments and a closure behind them.
TrailingClosure(s) ==
    LET args == IF Tok(s) = "(" THEN CallArgs(s) ELSE Read(<<>>, s)
    IN  IF Tok(args.s) = "{"
        THEN LET c == ClosureLiteral(args.s) IN Read(Append(args.t, c.t), c.s)
        ELSE args

IndexRest(s, sofar) ==
    LET e == Expression(SkipNewlines(s))
        p == SkipNewlines(e.s)
    IN  IF Tok(p) = "," THEN IndexRest(Advance(p), Append(sofar, e.t))
        ELSE Read(IF sofar = <<>> THEN e.t ELSE <<"list", Append(sofar, e.t)>>, Eat(p, "]"))

MemberName(s) == IF Tok(s) \in Keywords \cup {"'s'"} THEN Read(Tok(s), Advance(s)) ELSE Ident(s)

Member(e, s) ==     \* past the . or ?.
    LET safe == Tok(s) = "?."
        n == MemberName(Advance(s))
        args == IF Tok(n.s) \in {"(", "{"} THEN ArgsAndClosure(n.s) ELSE CommandArgs(n.s, <<>>)
    IN  IF Tok(n.s) \in {"(", "{"} \/ CommandArgAhead(n.s)
        THEN Read(<<"method", e, Tok(s), n.t, args.t>>, args.s)
        ELSE Read(<<"property", e, Tok(s), n.t>>, n.s)

SpreadMember(e, s) ==
    LET n == Ident(Advance(s))
        args == CallArgs(n.s)
    IN  IF Tok(n.s) = "(" THEN Read(<<"spread call", e, n.t, args.t>>, args.s)
        ELSE Read(<<"spread read", e, n.t>>, n.s)

PostfixChain(e, s) ==
    CASE Tok(s) = "." /\ Ahead(s, 1) \in {"@", "&"} ->
           LET n == Ident(Skip(s, 2)) IN
           PostfixChain(<<IF Ahead(s, 1) = "@" THEN "property" ELSE "pointer", e, Ahead(s, 1), n.t>>, n.s)
      [] Tok(s) \in {".", "?."} /\ ~(Tok(s) = "." /\ Ahead(s, 1) \in {"@", "&"}) ->
           LET m == Member(e, s) IN PostfixChain(m.t, m.s)
      [] Tok(s) = "*." -> LET m == SpreadMember(e, s) IN PostfixChain(m.t, m.s)
      [] Tok(s) = "(" -> LET a == CallArgs(s) IN PostfixChain(<<"apply", e, a.t>>, a.s)
      [] Tok(s) = "?[" -> LET i == IndexRest(Advance(s), <<>>)      \* a `?` and the `[` next to it
                          IN  PostfixChain(<<"method", e, "?.", "getAt", <<i.t>>>>, i.s)
      [] Tok(s) = "[" -> LET i == IndexRest(Advance(s), <<>>) IN PostfixChain(<<"index", e, i.t>>, i.s)
      [] OTHER -> IF Tok(s) \in {"++", "--"} /\ IsTarget(e)
                  THEN Read(<<"post", Tok(s), e>>, Advance(s)) ELSE Read(e, s)

-----------------------------------------------------------------------------
\* Lists and maps: [k: v] is a map when a : follows the first entry.
MapKey(s) ==
    IF Ahead(s, 1) = ":" /\ Tok(s) \in Idents \cup Keywords
    THEN Read(<<"string", Tok(s)>>, Advance(s)) ELSE Expression(s)
ListPart(s) ==
    IF Tok(s) = "*" THEN LET v == Expression(SkipNewlines(Advance(s))) IN Read(<<"spread", v.t>>, v.s)
    ELSE Expression(s)
ListRest(s0, sofar) ==
    LET s == SkipNewlines(s0)
        p == SkipNewlines(Advance(s))
    IN  IF Tok(s) = "," /\ Tok(p) # "]"
        THEN LET e == ListPart(p) IN ListRest(e.s, Append(sofar, e.t))
        ELSE Read(<<"list", sofar>>, Eat(IF Tok(s) = "," THEN p ELSE s, "]"))
MapEntry(s) ==
    IF Tok(s) = "*" /\ Ahead(s, 1) = ":"
    THEN LET v == Expression(SkipNewlines(Skip(s, 2))) IN Read(<<"spread", v.t>>, v.s)
    ELSE LET k == MapKey(s)
             v == Expression(SkipNewlines(Eat(k.s, ":")))
         IN  Read(<<k.t, v.t>>, v.s)
MapRest(s, sofar) ==
    LET e == MapEntry(s)
        p == SkipNewlines(e.s)
        q == SkipNewlines(Advance(p))
    IN  IF Tok(p) = "," /\ Tok(q) # "]" THEN MapRest(q, Append(sofar, e.t))
        ELSE Read(<<"map", Append(sofar, e.t)>>, Eat(IF Tok(p) = "," THEN q ELSE p, "]"))
ListOrMap(s) ==
    LET p == SkipNewlines(Eat(s, "["))
        first == MapKey(p)
    IN  CASE Tok(p) = "]" -> Read(<<"list", <<>>>>, Advance(p))
          [] Tok(p) = ":" -> Read(<<"map", <<>>>>, Eat(Advance(p), "]"))
          [] Tok(p) = "*" /\ Ahead(p, 1) = ":" -> MapRest(p, <<>>)
          [] Tok(p) = "*" /\ Ahead(p, 1) # ":" -> LET e == ListPart(p) IN ListRest(e.s, <<e.t>>)
          [] OTHER -> IF Tok(first.s) = ":" THEN MapRest(p, <<>>) ELSE ListRest(first.s, <<first.t>>)

NewObject(s) ==
    LET ty == TypeName(Advance(s))
        g == PastGenerics(ty.s, 0)
        p == Skip(ty.s, g)
        dim == Expression(Advance(p))
        args == ArgsAndClosure(p)
    IN  CASE Tok(p) = "[" -> Read(<<"new array", ty.t, dim.t>>, Eat(dim.s, "]"))
          [] Tok(p) = "(" -> LET a == CallArgs(p) IN Read(<<"new", ty.t, a.t>>, a.s)
          [] OTHER -> Read(<<"new", ty.t, <<>>>>, p)

\* println: a call, or the name of a property before an operator.
PrintCall(s) ==
    LET p == Advance(s)
        arg == ExpressionOrAssign(Advance(p))
        bare == Expression(p)
    IN  CASE Tok(p) = "(" /\ Ahead(p, 1) = ")" -> Read(<<"println", <<>>>>, Skip(p, 2))
          [] Tok(p) = "(" /\ Ahead(p, 1) # ")" -> Read(<<"println", <<arg.t>>>>, Eat(arg.s, ")"))
          [] Tok(p) \in {"++", "--"} ->
               LET x == Expression(Advance(p))
               IN  Read(<<"apply", <<"post", Tok(p), <<"var", "println">>>>, <<x.t>>>>, x.s)
          [] Tok(p) \in {"[", "+", "-"} -> Read(<<"var", "println">>, p)
          [] Tok(p) \in Ends -> Read(<<"println", <<>>>>, p)
          [] OTHER -> Read(<<"println", <<bare.t>>>>, bare.s)

\* A name: a call when arguments or a closure follow, an update, a variable.
Name(s) ==
    LET p == Advance(s)
    IN  CASE Tok(p) \in {"(", "{"} -> LET a == ArgsAndClosure(p) IN Read(<<"call", Tok(s), a.t>>, a.s)
          [] Tok(p) \in {"++", "--"} -> Read(<<"post", Tok(p), <<"var", Tok(s)>>>>, Advance(p))
          [] OTHER -> Read(<<"var", Tok(s)>>, p)

SwitchValue(w) == Read(w.t, Checked(w, TRUE))
AtomForm(s) ==
    CASE Tok(s) \in Ints -> Read(<<"int", Tok(s)>>, Advance(s))
      [] Tok(s) \in {"true", "false", "null"} -> Read(<<"constant", Tok(s)>>, Advance(s))
      [] Tok(s) = "'s'" -> IF Ahead(s, 1) = "(" THEN Name(s) ELSE Read(<<"string", "'s'">>, Advance(s))
      [] Tok(s) = "(" -> LET e == ExpressionOrAssign(Advance(s)) IN Read(e.t, Eat(e.s, ")"))
      [] Tok(s) = "[" -> ListOrMap(s)
      [] Tok(s) = "{" -> ClosureLiteral(s)
      [] Tok(s) = "new" -> NewObject(s)
      [] Tok(s) = "println" -> PrintCall(s)
      [] Tok(s) = "this" -> Read(<<"this">>, Advance(s))
      [] Tok(s) \in Idents \ {"println", "this"} -> Name(s)
      [] Tok(s) = "switch" -> SwitchValue(SwitchBody(s))
      [] OTHER -> Read(<<"none">>, Failed(s))

-----------------------------------------------------------------------------
\* Statements.  A declaration of several names answers the first; the others
\* are queued in the cursor for the list that holds it.
Queue(s, statements) == [s EXCEPT !.queued = @ \o statements]
Drained(r) == Read(<<r.t>> \o r.s.queued, [r.s EXCEPT !.queued = <<>>])
Statements(s) == Drained(Statement(s))
After(r, closers, sofar) == StatementsUntil(SkipTerminators(ExpectTerminator(r.s)), closers, sofar \o r.t)
StatementsUntil(s, closers, sofar) ==
    IF Tok(s) \in closers \cup {"eof"} THEN Read(sofar, s) ELSE After(Statements(s), closers, sofar)
BodyForm(s) ==
    LET p == SkipNewlines(s) IN IF Tok(p) = "{" THEN Block(Advance(p)) ELSE Statements(p)

NoInit == <<"none">>
InitializerForm(s) == IF Tok(s) = "=" THEN ExpressionOrAssign(SkipNewlines(Advance(s))) ELSE Read(NoInit, s)
Local(ty, name, init) == <<"local", ty, name, init>>
Var(n) == <<"var", n>>

\* def a = 1, b = 2: the declarators after the first.
Declarators(s, ty) ==
    LET n == Ident(SkipNewlines(Advance(s)))
        i == OptInitializer(n.s)
    IN  IF Tok(s) = "," THEN Declarators(Queue(i.s, <<Local(ty, n.t, i.t)>>), ty) ELSE s

\* default_overloads: defaulted parameters drop from the right.
Dropped(ps, k) ==
    {i \in DOMAIN ps : ps[i][2] # NoInit
        /\ Cardinality({j \in DOMAIN ps : j >= i /\ ps[j][2] # NoInit}) <= k}
Defaulted(ps) == Cardinality({i \in DOMAIN ps : ps[i][2] # NoInit})
NamesAt(ps, at) == [k \in 1 .. Cardinality(at) |->
                      ps[CHOOSE i \in at : Cardinality({j \in at : j <= i}) = k][1]]
Overloads(name, ps) ==
    [k \in 1 .. Defaulted(ps) |-> <<"overload", name, NamesAt(ps, DOMAIN ps \ Dropped(ps, k)),
                                    NamesAt(ps, Dropped(ps, k))>>]
ParamListForm(s) == ParamRest(s, <<>>)
ParamRest(s, sofar) ==
    LET p == IF Tok(s) = "def" THEN Advance(s) ELSE IF LooksLikeDecl(s) THEN DeclType(s).s ELSE s
        n == Ident(p)
        d == IF Tok(n.s) = "=" THEN Expression(SkipNewlines(Advance(n.s))) ELSE Read(NoInit, n.s)
        e == SkipNewlines(d.s)
        all == Append(sofar, <<n.t, d.t>>)
    IN  IF Tok(e) = "," THEN ParamRest(SkipNewlines(Advance(e)), all) ELSE Read(all, Eat(e, ")"))
FunctionDef(name, s) ==
    LET o == SkipNewlines(Eat(s, "("))
        ps == IF Tok(o) = ")" THEN Read(<<>>, Advance(o)) ELSE ParamList(o)
        b == Block(Eat(SkipNewlines(ps.s), "{"))
    IN  Read(<<"function", name, NamesAt(ps.t, DOMAIN ps.t), b.t>>, Queue(b.s, Overloads(name, ps.t)))

\* (a, b) = e: the right side once, into a temporary, then each name.
Names(s, sofar) ==
    LET n == Ident(IF Ahead(s, 1) \in Idents THEN Advance(s) ELSE s)
    IN  IF Tok(s) = ")" \/ ~s.ok THEN Read(sofar, s)
        ELSE Names(IF Tok(n.s) = "," THEN SkipNewlines(Advance(n.s)) ELSE n.s, Append(sofar, n.t))
Element(i) == <<"element", "tmp", i>>
MultiAssign(s, declare) ==
    LET ns == Names(Eat(s, "("), <<>>)
        v == Expression(SkipNewlines(Eat(Eat(ns.s, ")"), "=")))
    IN  Read(Local("def", "tmp", v.t),
             Queue(v.s, [i \in DOMAIN ns.t |->
                           IF declare THEN Local("def", ns.t[i], Element(i))
                                      ELSE <<"assign", Var(ns.t[i]), "=", Element(i)>>]))

Declaration(ty, s) ==
    LET n == Ident(s)
        i == OptInitializer(n.s)
    IN  IF Tok(n.s) = "(" THEN FunctionDef(n.t, n.s)
        ELSE Read(Local(ty, n.t, i.t), Declarators(i.s, ty))

NotCommandWords == Primitives \cup {"as", "instanceof", "throw", "try", "yield"} \cup Modifiers \cup TypeWords
IsCommand(s) ==
    /\ Tok(s) \in Idents \ {"this"}
    /\ \/ Ahead(s, 1) \in Literal
       \/ /\ Tok(s) \in (LowerNames \cup Words) \ NotCommandWords
          /\ Ahead(s, 1) \in Idents \ NotCommandWords
          /\ Ahead(s, 2) # "="

AssignTo(s, target, op, v) ==
    IF IsTarget(target) \/ (target[1] = "var" /\ Tok(s) \in Idents) THEN Read(<<"assign", target, op, v.t>>, v.s) ELSE Read(v.t, Failed(v.s))
ExpressionStatement(s) ==
    LET e == Expression(s)
        rhs == SkipNewlines(Advance(e.s))
        v == IF Tok(s) \in Idents /\ e.t[1] = "var" THEN ExpressionOrAssign(rhs) ELSE Expression(rhs)
        w == Expression(rhs)
    IN  CASE Tok(s) \in Idents /\ Ahead(s, 1) \in {"++", "--"} ->
               Read(<<"expr", <<"post", Ahead(s, 1), Var(Tok(s))>>>>, Skip(s, 2))
          [] Tok(e.s) \in AssignOps -> AssignTo(s, e.t, Tok(e.s), v)
          [] Tok(e.s) = "?=" -> AssignTo(s, e.t, "=", Read(<<"elvis", e.t, w.t>>, w.s))
          [] OTHER -> Read(<<"expr", e.t>>, e.s)

RECURSIVE PastModifiers(_)
PastModifiers(s) == IF Tok(s) \in Modifiers \ {"abstract"} /\ Ahead(s, 1) \in Idents \cup {"def"}
                    THEN PastModifiers(Advance(s)) ELSE s

SimpleForm(s) ==
    LET p == PastModifiers(s)
        modified == p # s
        cmd == CommandArgs(Advance(s), <<>>)
    IN  CASE Tok(s) = "println" -> LET e == Expression(s) IN Read(<<"expr", e.t>>, e.s)
          [] IsCommand(s) /\ Tok(s) # "println" -> Read(<<"expr", <<"call", Tok(s), cmd.t>>>>, cmd.s)
          [] OTHER ->
             IF Tok(p) = "def"
             THEN IF Ahead(p, 1) = "(" THEN MultiAssign(Advance(p), TRUE) ELSE Declaration("def", Advance(p))
             ELSE IF modified /\ ~LooksLikeDecl(p) THEN Declaration("def", p)
             ELSE IF LooksLikeDecl(p) THEN Declaration(DeclType(p).t, DeclType(p).s)
             ELSE IF LooksLikeMultiAssign(p) THEN MultiAssign(p, FALSE)
             ELSE ExpressionStatement(p)

-----------------------------------------------------------------------------
\* Compound statements.
Condition(s) == LET c == ExpressionOrAssign(Eat(s, "(")) IN Read(c.t, Eat(c.s, ")"))

IfStatement(s) ==
    LET c == Condition(Advance(s))
        then == BracedOrSingle(c.s)
        p == SkipNewlines(then.s)
        els == BracedOrSingle(Advance(p))
    IN  IF Tok(p) = "else" THEN Read(<<"if", c.t, then.t, els.t>>, els.s)
        ELSE Read(<<"if", c.t, then.t, <<>>>>, then.s)
WhileStatement(s) ==
    LET c == Expression(Eat(Advance(s), "("))
        b == BracedOrSingle(Eat(c.s, ")"))
    IN  Read(<<"while", c.t, b.t>>, b.s)
DoStatement(s) ==
    LET b == BracedOrSingle(Advance(s))
        c == Condition(Eat(SkipNewlines(b.s), "while"))
    IN  Read(<<"do", b.t, c.t>>, c.s)

\* The header of a for: a clause of simple statements separated by commas, or
\* a name and what it goes over.
ForClauseRest(s, ty, sofar) ==
    LET p == SkipNewlines(Advance(s))
        n == Ident(p)
        i == OptInitializer(n.s)
        next == IF ty = "none" THEN Drained(SimpleStatement(p)) ELSE Read(<<Local(ty, n.t, i.t)>>, i.s)
    IN  IF Tok(s) = "," THEN ForClauseRest(next.s, ty, sofar \o next.t) ELSE Read(sofar, s)
ForClause(s, closer) ==
    LET first == Drained(SimpleStatement(s))
    IN  IF Tok(s) = closer THEN Read(<<>>, s)
        ELSE ForClauseRest(first.s, IF first.t[1][1] = "local" THEN first.t[1][2] ELSE "none", first.t)
OrForRange(from) ==
    LET to == Binary(Advance(from.s), 0)
    IN  IF Tok(from.s) \in RangeOps THEN Read(<<"range", from.t, Tok(from.s), to.t>>, to.s) ELSE from
ForEach(name, over) ==
    LET b == BracedOrSingle(Eat(over.s, ")")) IN Read(<<"for in", name, over.t, b.t>>, b.s)
ForIn(s) ==
    LET p == IF Tok(s) = "def" THEN Advance(s) ELSE IF LooksLikeDecl(s) THEN DeclType(s).s ELSE s
        n == Ident(p)
    IN  ForEach(n.t, OrForRange(Binary(Eat(n.s, "in"), 0)))
ForStatement(s) ==
    LET p == Eat(Advance(s), "(")
        init == ForClause(p, ";")
        q == Eat(init.s, ";")
        cond == IF Tok(q) = ";" THEN Read(NoInit, q) ELSE Expression(q)
        update == ForClause(Eat(cond.s, ";"), ")")
        b == BracedOrSingle(Eat(update.s, ")"))
    IN  IF ForIsIn(p) THEN ForIn(p) ELSE Read(<<"for", init.t, cond.t, update.t, b.t>>, b.s)

\* try (resources): each is declared and closed around what follows it.
ResourceName(r) == IF r[1] = "local" THEN r[3] ELSE r[2][2]
Closing(n) == <<"expr", <<"method", Var(n), "?.", "close", <<>>>>>>
Resources(s0, sofar) ==
    LET s == SkipNewlines(s0)
        r == Drained(SimpleStatement(s))
        p == SkipNewlines(r.s)
    IN  IF Tok(s) \in {")", "eof"} THEN Read(sofar, Eat(s, ")"))
        ELSE Resources(IF Tok(p) = ";" THEN Advance(p) ELSE p, sofar \o r.t)
Guarded(resources, body) ==
    FoldRight(LAMBDA r, inner :
                (IF r[1] = "local" THEN <<r>> ELSE <<>>)
                  \o <<<<"try", inner, <<>>, <<Closing(ResourceName(r))>>>>>>,
              resources, body)

Catches(s0, sofar) ==
    LET s == SkipNewlines(s0)
        ty == TypeName(Eat(Advance(s), "("))
        n == Ident(ty.s)
        p == IF Tok(ty.s) = ")" THEN ty.s ELSE n.s
        b == Block(Eat(SkipNewlines(Eat(p, ")")), "{"))
        arm == IF Tok(ty.s) = ")" THEN <<"Exception", ty.t, b.t>> ELSE <<ty.t, n.t, b.t>>
    IN  IF Tok(s) = "catch" THEN Catches(b.s, Append(sofar, arm)) ELSE Read(sofar, s0)
Finally(rs, body, arms) ==
    LET p == SkipNewlines(arms.s)
        fin == Block(Eat(SkipNewlines(Advance(p)), "{"))
        tree(f) == <<"try", Guarded(rs.t, body), arms.t, f>>
    IN  CASE Tok(p) = "finally" -> Read(tree(fin.t), fin.s)
          [] Tok(p) # "finally" /\ arms.t = <<>> /\ rs.t = <<>> -> Read(tree(<<>>), Failed(arms.s))
          [] OTHER -> Read(tree(<<>>), arms.s)
TryArms(rs, body) == Finally(rs, body.t, Catches(body.s, <<>>))
TryBody(rs) == TryArms(rs, Block(Eat(SkipNewlines(rs.s), "{")))
TryStatement(s) ==
    LET o == SkipNewlines(Advance(s))
    IN  TryBody(IF Tok(o) = "(" THEN Resources(Advance(o), <<>>) ELSE Read(<<>>, o))

\* switch: labels, then -> and one body, or : and statements to the next label.
Labels(s, sofar) ==
    LET e == Expression(s)
    IN  IF Tok(e.s) = "," THEN Labels(SkipNewlines(Advance(e.s)), Append(sofar, e.t))
        ELSE Read(Append(sofar, e.t), e.s)
SectionBody(s, sofar) ==
    IF Tok(s) \in {"case", "default", "}", "eof"} THEN Read(sofar, s)
    ELSE LET r == Statement(s)
         IN  SectionBody(SkipTerminators(ExpectTerminator(r.s)), Append(sofar, r.t))
Sections(s, sofar) ==
    LET ls == IF Tok(s) = "case" THEN Labels(Advance(s), <<>>)
              ELSE IF Tok(s) = "default" THEN Read(<<>>, Advance(s)) ELSE Read(<<>>, Failed(s))
        arrow == Tok(ls.s) = "->"
        b == IF arrow THEN BracedOrSingle(Advance(ls.s))
             ELSE SectionBody(SkipTerminators(Eat(ls.s, ":")), <<>>)
        mixed == sofar # <<>> /\ sofar[1][3] # arrow
    IN  IF Tok(s) \in {"}", "eof"} THEN Read(sofar, s)
        ELSE Sections(SkipTerminators(IF mixed THEN Failed(b.s) ELSE b.s), Append(sofar, <<ls.t, b.t, arrow>>))

\* check_switch_expr: no break of its own, and a yield somewhere unless ->.
Bodies(st) == CASE st[1] = "if" -> <<st[3], st[4]>>
                [] st[1] = "label" -> <<<<st[3]>>>>
                [] st[1] = "try" -> <<st[2]>> \o [i \in DOMAIN st[3] |-> st[3][i][3]] \o <<st[4]>>
                [] OTHER -> <<>>
LoopBodies(st) == CASE st[1] = "while" -> <<st[3]>>
                    [] st[1] = "do" -> <<st[2]>>
                    [] st[1] = "for" -> <<st[5]>>
                    [] st[1] = "for in" -> <<st[4]>>
                    [] OTHER -> <<>>
StrayBreak(body) == \E i \in DOMAIN body :
    body[i][1] = "break" \/ \E j \in DOMAIN Bodies(body[i]) : StrayBreak(Bodies(body[i])[j])
Yields(body) == \E i \in DOMAIN body :
    \/ body[i][1] \in {"yield", "throw"}
    \/ LET inner == Bodies(body[i]) \o LoopBodies(body[i])
       IN  \E j \in DOMAIN inner : Yields(inner[j])
ValidSwitch(cases, isValue) ==
    /\ \A i \in DOMAIN cases : cases[i][1] = <<>> => i = Len(cases)
    /\ isValue => /\ \A i \in DOMAIN cases : ~StrayBreak(cases[i][2])
                  /\ \E i \in DOMAIN cases : cases[i][3] \/ Yields(cases[i][2])

SwitchBody(s) ==
    LET c == Expression(Eat(Advance(s), "("))
        o == Eat(SkipNewlines(Eat(c.s, ")")), "{")
        r == Sections([SkipTerminators(o) EXCEPT !.arms = @ + 1], <<>>)
    IN  Read(<<"switch", c.t, r.t>>, [Eat(r.s, "}") EXCEPT !.arms = s.arms])
Checked(w, isValue) == IF ValidSwitch(w.t[3], isValue) THEN w.s ELSE Failed(w.s)
IsValue(cases) == \E i \in DOMAIN cases : cases[i][3] \/ Len(cases[i][1]) > 1
SwitchAsStatement(w) ==
    IF IsValue(w.t[3]) THEN Read(<<"expr", w.t>>, Checked(w, TRUE)) ELSE Read(w.t, Checked(w, FALSE))
SwitchStatement(s) == SwitchAsStatement(SwitchBody(s))

ValueStatement(s, tag) == LET e == Expression(s) IN Read(<<tag, e.t>>, e.s)
JumpStatement(s) == IF Ahead(s, 1) \in Idents THEN Read(<<Tok(s), Ahead(s, 1)>>, Skip(s, 2))
                    ELSE Read(<<Tok(s), "none">>, Advance(s))
AssertStatement(s) ==
    LET c == Expression(Advance(s))
        m == IF Tok(c.s) = ":" THEN Expression(SkipNewlines(Advance(c.s))) ELSE Read(NoInit, c.s)
    IN  Read(<<"assert", c.t, m.t>>, m.s)
LabelStatement(s) ==
    LET r == Statement(SkipNewlines(Skip(s, 2))) IN Read(<<"label", Tok(s), r.t>>, r.s)
BlockStatement(s) == LET b == Block(Advance(s)) IN Read(<<"if", <<"constant", "true">>, b.t, <<>>>>, b.s)

IsYield(s) == Tok(s) = "yield" /\ s.arms > 0 /\ Ahead(s, 1) \notin Ends \cup {"="}

StatementForm(s) ==
    CASE Tok(s) = "try" /\ Ahead(s, 1) \in {"{", "("} -> TryStatement(s)
      [] Tok(s) = "throw" -> ValueStatement(SkipNewlines(Advance(s)), "throw")
      [] Tok(s) = "assert" -> AssertStatement(s)
      [] Tok(s) = "if" -> IfStatement(s)
      [] Tok(s) = "while" -> WhileStatement(s)
      [] Tok(s) = "do" -> DoStatement(s)
      [] Tok(s) = "switch" -> SwitchStatement(s)
      [] IsYield(s) -> ValueStatement(Advance(s), "yield")
      [] Tok(s) = "for" -> ForStatement(s)
      [] Tok(s) \in Idents /\ StartsALabel(s) -> LabelStatement(s)
      [] Tok(s) = "return" -> IF Ahead(s, 1) \in Ends THEN Read(<<"return", NoInit>>, Advance(s))
                              ELSE ValueStatement(Advance(s), "return")
      [] Tok(s) \in {"break", "continue"} -> JumpStatement(s)
      [] Tok(s) = "{" /\ ~StatementIsClosure(s) -> BlockStatement(s)
      [] OTHER -> SimpleStatement(s)

Parse(what, s) ==
    CASE what = "expression" -> Conditional(s)
      [] what = "range" -> RangeForm(s)
      [] what = "initializer" -> InitializerForm(s)
      [] what = "parameters" -> ParamListForm(s)
      [] what = "unary" -> Prefixed(s)
      [] what = "atom" -> AtomForm(s)
      [] what = "statement" -> StatementForm(s)
      [] what = "simple statement" -> SimpleForm(s)
      [] what = "block" -> BlockForm(s)
      [] what = "body" -> BodyForm(s)
      [] what = "assignment" -> AssignmentForm(s)
      [] what = "closure" -> ClosureForm(s)
      [] what = "arguments" -> ArgumentsForm(s)
      [] what = "arguments and closure" -> TrailingClosure(s)

\* The whole script.
OrRefused(r) == IF r.s.ok THEN r ELSE Read(<<"refused">>, r.s)
Program == OrRefused(StatementsUntil(SkipTerminators(Cursor(1)), {}, <<>>))
=============================================================================
