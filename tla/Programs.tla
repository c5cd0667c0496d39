------------------------------ MODULE Programs ------------------------------
(***************************************************************************)
(* Programs as trees, how they are written, and what the parser must read  *)
(* from the text: an expression is written with the parentheses the        *)
(* language's precedence requires and no others.                           *)
(***************************************************************************)
EXTENDS Parser

CONSTANT Programs        \* the programs written

-----------------------------------------------------------------------------
\* Precedence, loosest first, by the kind of a node.
Ladder == <<{"assigned"}, {"ternary", "elvis"}, {"||"}, {"&&"}, {"|"}, {"^"}, {"&"}, {"=~"},
            {"==", "<=>", "is"}, {"<", "in"}, {"instanceof", "as"}, {"<<", "range"}, {"+", "-"},
            {"*"}, {"!", "~", "neg", "positive", "cast", "pre"}, {"**"}>>
LevelOf == [k \in UNION {Ladder[i] : i \in DOMAIN Ladder} |->
              CHOOSE i \in DOMAIN Ladder : k \in Ladder[i]]
\* a !in b, a !instanceof T and a !== b: a negation written in the middle.
IsNegated(e) == e[1] = "!" /\ e[2][1] \in {"is", "in", "instanceof"}
Level(e) ==
    CASE IsNegated(e) -> IF e[2][1] = "is" THEN LevelOf["is"] ELSE LevelOf["in"]
      [] e[1] \in DOMAIN LevelOf /\ ~IsNegated(e) -> LevelOf[e[1]]
      [] e[1] = "closure" \/ e[1] = "post" -> 17
      [] OTHER -> 18
BinaryKinds == {"||", "&&", "|", "^", "&", "=~", "==", "<=>", "<", "in", "<<", "+", "-", "*", "**"}

Joined(parts) == FlattenSeq([i \in 1 .. 2 * Len(parts) - (IF parts = <<>> THEN 0 ELSE 1) |->
                               IF i % 2 = 1 THEN parts[(i + 1) \div 2] ELSE <<",">>])

RECURSIVE Text(_), StatementText(_)
Within(e, min) == IF Level(e) < min THEN <<"(">> \o Text(e) \o <<")">> ELSE Text(e)
Lines(body) == FlattenSeq([i \in DOMAIN body |-> StatementText(body[i]) \o <<"nl">>])
Braces(body) == <<"{">> \o Lines(body) \o <<"}">>
EndsInPrefix(e) == e[1] = "**" /\ LevelOf["neg"] = Level(e[3])

\* The arguments of a call, a map passed first as named arguments.
ArgText(e) == IF e[1] = "spread" THEN <<"*">> \o Text(e[2]) ELSE Text(e)
EntryText(e) == IF e[1] = "spread" THEN <<"*", ":">> \o Text(e[2]) ELSE <<e[1][2], ":">> \o Text(e[2])
Arguments(args) ==
    IF args # <<>> /\ Last(args)[1] = "closure"
    THEN (IF Len(args) = 1 THEN <<>> ELSE <<"(">> \o Joined([i \in 1 .. Len(args) - 1 |-> ArgText(args[i])]) \o <<")">>)
           \o Text(Last(args))
    ELSE IF args # <<>> /\ args[1][1] = "map" /\ args[1][2] # <<>>
    THEN <<"(">> \o Joined([i \in DOMAIN args[1][2] |-> EntryText(args[1][2][i])]
                             \o [i \in 1 .. Len(args) - 1 |-> ArgText(args[i + 1])]) \o <<")">>
    ELSE <<"(">> \o Joined([i \in DOMAIN args |-> ArgText(args[i])]) \o <<")">>

Text(e) ==
    LET k == e[1]
    IN  CASE k \in {"var", "int", "constant", "string"} -> <<e[2]>>
          [] k = "this" -> <<"this">>
          [] k = "**" -> (IF EndsInPrefix(e[2]) THEN <<"(">> \o Text(e[2]) \o <<")">> ELSE Within(e[2], Level(e)))
                           \o <<k>> \o (IF Level(e[3]) = LevelOf["neg"] THEN Text(e[3]) ELSE Within(e[3], 17))
          [] k \in BinaryKinds \ {"**"} -> Within(e[2], Level(e)) \o <<k>> \o Within(e[3], Level(e) + 1)
          [] k = "is" -> Within(e[2], Level(e)) \o <<"===">> \o Within(e[3], Level(e) + 1)
          [] k = "range" -> Within(e[2], Level(e) + 1) \o <<e[3]>> \o Within(e[4], Level(e) + 1)
          [] k \in {"as", "instanceof"} -> Within(e[2], Level(e)) \o <<k, e[3]>>
          [] IsNegated(e) ->
               Within(e[2][2], Level(e)) \o (IF e[2][1] = "is" THEN <<"!==">> ELSE <<"!", e[2][1]>>)
                 \o (IF e[2][1] = "instanceof" THEN <<e[2][3]>> ELSE Within(e[2][3], Level(e) + 1))
          [] k \in {"!", "~"} /\ ~IsNegated(e) -> <<k>> \o Within(e[2], Level(e))
          [] k = "neg" -> <<"-">> \o Within(e[2], Level(e))
          [] k = "positive" -> <<"+">> \o Within(e[2], Level(e))
          [] k = "cast" -> <<"(", e[2], ")">> \o Within(e[3], 17)
          [] k = "pre" -> <<e[2]>> \o Text(e[3])
          [] k = "post" -> Text(e[3]) \o <<e[2]>>
          [] k = "ternary" -> Within(e[2], Level(e) + 1) \o <<"?">> \o Within(e[3], Level(e)) \o <<":">> \o Within(e[4], Level(e))
          [] k = "elvis" -> Within(e[2], Level(e) + 1) \o <<"?:">> \o Within(e[3], Level(e))
          [] k = "assigned" -> Text(e[2]) \o <<e[3]>> \o Text(e[4])
          [] k = "property" -> Within(e[2], 18) \o (IF e[3] = "@" THEN <<".", "@">> ELSE <<e[3]>>) \o <<e[4]>>
          [] k = "pointer" -> Within(e[2], 18) \o <<".", "&", e[4]>>
          [] k = "method" -> Within(e[2], 18) \o <<e[3], e[4]>> \o Arguments(e[5])
          [] k = "spread read" -> Within(e[2], 18) \o <<"*.", e[3]>>
          [] k = "spread call" -> Within(e[2], 18) \o <<"*.", e[3]>> \o Arguments(e[4])
          [] k = "apply" -> Within(e[2], 18) \o Arguments(e[3])
          [] k = "index" -> Within(e[2], 18) \o <<"[">>
                              \o (IF e[3][1] = "list" /\ Len(e[3][2]) > 1
                                  THEN Joined([i \in DOMAIN e[3][2] |-> Text(e[3][2][i])]) ELSE Text(e[3])) \o <<"]">>
          [] k = "call" -> <<e[2]>> \o Arguments(e[3])
          [] k = "println" -> <<"println">> \o (IF e[2] = <<>> THEN <<>> ELSE <<"(">> \o Text(e[2][1]) \o <<")">>)
          [] k = "list" -> <<"[">> \o Joined([i \in DOMAIN e[2] |-> ArgText(e[2][i])]) \o <<"]">>
          [] k = "map" -> IF e[2] = <<>> THEN <<"[", ":", "]">>
                          ELSE <<"[">> \o Joined([i \in DOMAIN e[2] |-> EntryText(e[2][i])]) \o <<"]">>
          [] k = "closure" ->
               IF e[2] = <<"it">> THEN Braces(e[3])
               ELSE <<"{">> \o Joined([i \in DOMAIN e[2] |-> <<e[2][i][1]>>
                                        \o IF e[2][i][2] = NoInit THEN <<>> ELSE <<"=">> \o Text(e[2][i][2])])
                      \o <<"->">> \o Lines(e[3]) \o <<"}">>
          [] k = "new" -> <<"new", e[2]>> \o Arguments(e[3])
          [] k = "new array" -> <<"new", e[2], "[">> \o Text(e[3]) \o <<"]">>
          [] k = "switch" -> StatementText(e)

-----------------------------------------------------------------------------
\* Statements as they are written.  A declaration of several names and a
\* multiple assignment are one statement here, and several in the tree.
DeclaratorText(d) == <<d[1]>> \o IF d[2] = NoInit THEN <<>> ELSE <<"=">> \o Text(d[2])
SectionText(c) ==
    (IF c[1] = <<>> THEN <<"default">> ELSE <<"case">> \o Joined([i \in DOMAIN c[1] |-> Text(c[1][i])]))
      \o IF c[3] THEN <<"->">> \o Braces(c[2]) \o <<"nl">> ELSE <<":", "nl">> \o Lines(c[2])
CatchText(c) == <<"catch", "(", c[1], c[2], ")">> \o Braces(c[3])
HeaderText(body) == Joined([i \in DOMAIN body |-> StatementText(body[i])])
StatementText(st) ==
    LET k == st[1]
    IN  CASE k = "expr" -> Text(st[2])
          [] k = "command" -> <<st[2]>> \o Joined([i \in DOMAIN st[3] |-> Text(st[3][i])])
          [] k = "assign" -> Text(st[2]) \o <<st[3]>> \o Text(st[4])
          [] k = "declare" -> <<st[2]>> \o Joined([i \in DOMAIN st[3] |-> DeclaratorText(st[3][i])])
          [] k = "multi" -> (IF st[2] THEN <<"def">> ELSE <<>>) \o <<"(">>
                              \o Joined([i \in DOMAIN st[3] |-> <<st[3][i]>>]) \o <<")", "=">> \o Text(st[4])
          [] k = "function" -> <<"def", st[2], "(">> \o Joined([i \in DOMAIN st[3] |-> DeclaratorText(st[3][i])])
                                 \o <<")">> \o Braces(st[4])
          [] k = "if" -> <<"if", "(">> \o Text(st[2]) \o <<")">> \o Braces(st[3])
                           \o IF st[4] = <<>> THEN <<>> ELSE <<"nl", "else">> \o Braces(st[4])
          [] k = "while" -> <<"while", "(">> \o Text(st[2]) \o <<")">> \o Braces(st[3])
          [] k = "do" -> <<"do">> \o Braces(st[2]) \o <<"while", "(">> \o Text(st[3]) \o <<")">>
          [] k = "for" -> <<"for", "(">> \o HeaderText(st[2]) \o <<";">>
                            \o (IF st[3] = NoInit THEN <<>> ELSE Text(st[3])) \o <<";">>
                            \o HeaderText(st[4]) \o <<")">> \o Braces(st[5])
          [] k = "for in" -> <<"for", "(", st[2], "in">> \o Text(st[3]) \o <<")">> \o Braces(st[4])
          [] k = "try" -> <<"try">> \o Braces(st[2]) \o FlattenSeq([i \in DOMAIN st[3] |-> CatchText(st[3][i])])
                            \o IF st[4] = <<>> THEN <<>> ELSE <<"nl", "finally">> \o Braces(st[4])
          [] k = "try with" -> <<"try", "(">> \o FlattenSeq([i \in DOMAIN st[2] |-> StatementText(st[2][i]) \o <<";">>])
                                 \o <<")">> \o Braces(st[3])
          [] k = "switch" -> <<"switch", "(">> \o Text(st[2]) \o <<")", "{", "nl">>
                               \o FlattenSeq([i \in DOMAIN st[3] |-> SectionText(st[3][i])]) \o <<"}">>
          [] k = "label" -> <<st[2], ":">> \o StatementText(st[3])
          [] k \in {"break", "continue"} -> IF st[2] = "none" THEN <<k>> ELSE <<k, st[2]>>
          [] k = "return" -> IF st[2] = NoInit THEN <<k>> ELSE <<k>> \o Text(st[2])
          [] k = "assert" -> <<k>> \o Text(st[2]) \o IF st[3] = NoInit THEN <<>> ELSE <<":">> \o Text(st[3])
          [] k \in {"throw", "yield"} -> <<k>> \o Text(st[2])

\* What the statements of a list mean, one after the other.
RECURSIVE Meaning(_), MeaningOf(_), Value(_)
Meaning(body) == FlattenSeq([i \in DOMAIN body |-> MeaningOf(body[i])])
MeaningOf(st) ==
    LET k == st[1]
    IN  CASE k = "command" -> <<<<"expr", <<"call", st[2], st[3]>>>>>>
          [] k = "declare" -> [i \in DOMAIN st[3] |-> Local(st[2], st[3][i][1], Value(st[3][i][2]))]
          [] k = "multi" -> <<Local("def", "tmp", Value(st[4]))>> \o
                [i \in DOMAIN st[3] |-> IF st[2] THEN Local("def", st[3][i], Element(i))
                                        ELSE <<"assign", Var(st[3][i]), "=", Element(i)>>]
          [] k = "function" -> <<<<"function", st[2], [i \in DOMAIN st[3] |-> st[3][i][1]], Meaning(st[4])>>>>
                                 \o Overloads(st[2], st[3])
          [] k = "expr" -> <<<<k, Value(st[2])>>>>
          [] k = "assign" -> <<<<k, st[2], st[3], Value(st[4])>>>>
          [] k = "if" -> <<<<k, st[2], Meaning(st[3]), Meaning(st[4])>>>>
          [] k = "while" -> <<<<k, st[2], Meaning(st[3])>>>>
          [] k = "do" -> <<<<k, Meaning(st[2]), st[3]>>>>
          [] k = "for" -> <<<<k, Meaning(st[2]), st[3], Meaning(st[4]), Meaning(st[5])>>>>
          [] k = "for in" -> <<<<k, st[2], st[3], Meaning(st[4])>>>>
          [] k = "try" -> <<<<k, Meaning(st[2]), [i \in DOMAIN st[3] |-> [st[3][i] EXCEPT ![3] = Meaning(@)]],
                             Meaning(st[4])>>>>
          [] k = "try with" ->     \* one resource around the rest
               LET inner == IF Len(st[2]) = 1 THEN Meaning(st[3])
                            ELSE MeaningOf(<<k, Tail(st[2]), st[3]>>)[1][2]
                   r == MeaningOf(st[2][1])
               IN  <<<<"try", r \o <<<<"try", inner, <<>>, <<Closing(r[1][3])>>>>>>, <<>>, <<>>>>>>
          [] k = "switch" -> <<<<k, st[2], [i \in DOMAIN st[3] |-> [st[3][i] EXCEPT ![2] = Meaning(@)]]>>>>
          [] k = "label" -> <<<<k, st[2], MeaningOf(st[3])[1]>>>>
          [] OTHER -> <<st>>
\* A closure's body is a list of statements of its own.
Value(e) == IF e[1] = "closure" THEN <<e[1], e[2], Meaning(e[3])>>
            ELSE IF e[1] = "switch" THEN MeaningOf(e)[1] ELSE e

-----------------------------------------------------------------------------
ProgramsInit == source = <<>> /\ toks = <<>>

\* A program is written and handed to the parser.
WriteProgram ==
    /\ source = <<>>
    /\ \E p \in Programs : source' = p /\ toks' = Lines(p)

ProgramsSpec == ProgramsInit /\ [][WriteProgram]_parserVars

\* The tree the parser answers is the program that was written: operators by
\* precedence, each closure, map, cast and declaration told from its
\* neighbours, each declared name in the list that declares it, and the
\* nesting budget back where it was.
IsSource(r) == r.t = Meaning(source) /\ r.s.depth = 0 /\ r.s.queued = <<>>
ReadBack == source # <<>> => IsSource(Program)
=============================================================================
