----------------------------- MODULE LexPrograms -----------------------------
(***************************************************************************)
(* Source text written from its tokens, with a blank only where two would  *)
(* stick together, and what the lexer must read from it.  A lexeme is      *)
(* [kind, value, text]; a string is written from its parts in one of the   *)
(* language's quotes.                                                      *)
(***************************************************************************)
EXTENDS Lexer

CONSTANT Sources         \* the lists of lexemes written

VARIABLE lexemes         \* the list written

lexVars == <<text, lexemes>>

Lexeme(kind, value, spelled) == [kind |-> kind, value |-> value, text |-> spelled]
Punct(op) == Lexeme(op, "", op)

-----------------------------------------------------------------------------
\* Strings.  An item is one character of text, an escape and the text it
\* stands for, or a placeholder: <<"braced", source>> or <<"path", source>>.
Concat(strings) == FoldLeft(LAMBDA s, t : s \o t, "", strings)
OpeningQuote == [sq |-> "'", dq |-> "\"", triple |-> "\"\"\"", slashy |-> "/", dollar |-> "$/"]
ClosingQuote == [OpeningQuote EXCEPT !.dollar = "/$"]
EscapedIn == [sq |-> {"'", "\\"}, dq |-> {"\"", "\\", "$"}, triple |-> {"\"", "\\", "$"}, slashy |-> {"/"}, dollar |-> {"$", "/"}]
ItemText(quote, item) ==
    CASE item[1] = "char" -> (IF item[2] \in EscapedIn[quote] THEN (IF quote = "dollar" THEN "$" ELSE "\\") ELSE "") \o item[2]
      [] item[1] = "escape" -> item[2]
      [] item[1] = "braced" -> "${" \o item[2] \o "}"
      [] item[1] = "path" -> "$" \o item[2]

\* A path takes what could continue it; in slashy quotes a backslash takes
\* what follows it, and a $ a name or a brace.
Writable(quote, items) ==
    /\ quote = "sq" => \A i \in DOMAIN items : items[i][1] \in {"char", "escape"}
    /\ \A i \in DOMAIN items :
         LET next == IF i = Len(items) THEN "end" ELSE IF items[i + 1][1] = "char" THEN items[i + 1][2] ELSE IF items[i + 1][1] = "escape" THEN "\\" ELSE "$"
         IN  /\ items[i][1] = "path" => next \notin IdentPart \cup {"."}
             /\ quote = "slashy" /\ items[i][2] = "\\" => next \notin {"/", "end", "u", "$", "\\", "\n"}
             /\ quote = "slashy" /\ items[i][2] = "$" => next \notin IdentStart \cup {"{"}
    /\ quote = "slashy" => items # <<>> /\ items[1][2] # "*"      \* // and /* are comments

\* The parts: text between placeholders, and the placeholders.
WithItem(parts, item) ==
    LET words == IF item[1] = "char" THEN item[2] ELSE item[3]
    IN  CASE item[1] \in {"braced", "path"} -> Append(parts, <<"expr", item[2]>>)
          [] item[1] = "escape" /\ words = "" -> parts
          [] OTHER -> IF parts # <<>> /\ Last(parts)[1] = "text" THEN [parts EXCEPT ![Len(parts)][2] = @ \o words]
                      ELSE Append(parts, <<"text", words>>)
PartsOf(items) == FoldLeft(WithItem, <<>>, items)
StringOf(quote, items) ==
    LET parts == PartsOf(items)
        plain == \A i \in DOMAIN parts : parts[i][1] = "text"
        spelled == OpeningQuote[quote] \o Concat([i \in DOMAIN items |-> ItemText(quote, items[i])]) \o ClosingQuote[quote]
    IN  Lexeme(IF plain THEN "string" ELSE "gstring", IF plain THEN (IF parts = <<>> THEN "" ELSE parts[1][2]) ELSE parts, spelled)

-----------------------------------------------------------------------------
\* Writing.  Two lexemes stick when a longer one starts with the first and
\* the second's first character.
First(s) == SubSeq(s, 1, 1)
Final(s) == SubSeq(s, Len(s), Len(s))
Spellings == ToSet(Cascade) \cup {"//", "/*", "$/", "~/"}
Extends(longer, a, b) ==
    Len(longer) > Len(a) /\ SubSeq(longer, 1, Len(a) + 1) = a \o First(b)
Sticks(a, b) ==
    \/ Final(a.text) \in IdentPart \cup {"$"} /\ First(b.text) \in IdentPart \cup {"$"}
    \/ a.kind \in {"int", "long"} /\ a.text \in {"1", "0"} /\ b.text = "."
    \/ Final(a.text) \in {"'", "\""} /\ First(b.text) = Final(a.text)
    \/ \E longer \in Spellings : Extends(longer, a.text, b.text)
Gap(ls, i) == IF i < Len(ls) /\ Sticks(ls[i], ls[i + 1]) THEN " " ELSE ""
TextOf(ls) == Concat([i \in DOMAIN ls |-> ls[i].text \o Gap(ls, i)])
PlaceOf(ls, i) == 1 + Len(TextOf(SubSeq(ls, 1, i - 1)) \o IF i > 1 THEN Gap(ls, i - 1) ELSE "")

-----------------------------------------------------------------------------
\* Reading.  A newline ends a statement outside ( ) and [ ], once.
Count(ls, n, kinds) == Cardinality({j \in 1 .. n : ls[j].kind \in kinds})
Open(ls, n) == Count(ls, n, {"(", "["}) - Count(ls, n, {")", "]"})
Ignored(ls, i) ==
    \/ ls[i].kind = "comment"
    \/ ls[i].kind = "nl" /\ \/ Open(ls, i) > 0
                            \/ \A j \in 1 .. i - 1 : ls[j].kind \in {"nl", "comment"}
                            \/ \E j \in 1 .. i - 1 : ls[j].kind = "nl" /\ \A k \in j .. i : ls[k].kind \in {"nl", "comment"}
Tokens(ls) ==
    LET kept == SelectSeq([i \in DOMAIN ls |-> i], LAMBDA i : ~Ignored(ls, i))
    IN  [n \in DOMAIN kept |-> [kind |-> ls[kept[n]].kind, value |-> ls[kept[n]].value, offset |-> PlaceOf(ls, kept[n])]]

Sourced(part) == IF part[1] = "text" THEN part ELSE <<"expr", part[2]>>
Seen(t) == [kind |-> t.kind, offset |-> t.offset,
            value |-> IF t.kind = "gstring" THEN [i \in DOMAIN t.value |-> Sourced(t.value[i])] ELSE t.value]
PlacedRight(t) ==
    t.kind = "gstring" => \A i \in DOMAIN t.value :
                            t.value[i][1] = "expr" => Slice(t.value[i][3], Len(t.value[i][2])) = t.value[i][2]

LexInit == text = "" /\ lexemes = <<>>
WriteSource ==
    /\ lexemes = <<>>
    /\ \E ls \in Sources : lexemes' = ls /\ text' = TextOf(ls)

\* A token's line is one more than the newlines in front of it, whatever the
\* comments, placeholders and literals in between.
LinesOf(r) == \A i \in DOMAIN r.out : r.out[i].line = 1 + NewlinesIn(1, r.out[i].offset) + (IF r.out[i].kind = "nl" THEN 1 ELSE 0)
LinesCounted == lexemes # <<>> => LinesOf(Lexed)

\* The tokens written are the tokens read, each where it was written: the
\* longest operator at each place, a number apart from a range or a member, a
\* division apart from a slashy string, the text of every quote unescaped and
\* its placeholders whole, a newline only where a statement may end, and the
\* lines counted through comments, placeholders and literals.
IsText(r) ==
    /\ r.ok
    /\ [i \in DOMAIN r.out |-> Seen(r.out[i])] = Tokens(lexemes)
    /\ \A i \in DOMAIN r.out : PlacedRight(r.out[i])
    /\ LinesOf(r)
LexedBack == lexemes # <<>> => IsText(Lexed)
=============================================================================
