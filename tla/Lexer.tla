-------------------------------- MODULE Lexer --------------------------------
(***************************************************************************)
(* src/src/lexer.rs: source text to tokens.  Operators are tried in a      *)
(* fixed order, a newline is a token at bracket depth 0 only, and a / is a *)
(* string or a division by the token before it.  A token is [kind, value,  *)
(* line, offset]; the kind of an operator or keyword is its spelling.  The *)
(* text is a string; characters are ASCII.                                 *)
(***************************************************************************)
EXTENDS Integers, Sequences, SequencesExt, FiniteSets

CONSTANTS
    IntMax, LongMax      \* the widths of int and long

VARIABLE text            \* the source

lexerVars == <<text>>

ASSUME WidthAssumption == IntMax \in Nat /\ LongMax \in Nat /\ IntMax < LongMax

Char(i) == IF i \in 1 .. Len(text) THEN SubSeq(text, i, i) ELSE ""
Slice(i, n) == IF i + n - 1 <= Len(text) THEN SubSeq(text, i, i + n - 1) ELSE ""
Spelling(from, to) == SubSeq(text, from, to - 1)
Done(i) == i > Len(text)

Lower == {"a", "b", "c", "d", "e", "f", "g", "h", "i", "l", "m", "n", "o", "p", "r", "s", "t", "u", "v", "w", "x", "y", "z"}
Upper == {"A", "B", "D", "E", "F", "G", "L", "T", "X"}
Digits == {"0", "1", "2", "3", "4", "7", "8", "9"}
IdentStart == Lower \cup Upper \cup {"_"}
IdentPart == IdentStart \cup Digits
Spaces == {" ", "\t", "\r"}
ValueOf == [d \in Digits |-> CASE d = "0" -> 0 [] d = "1" -> 1 [] d = "2" -> 2 [] d = "3" -> 3 [] d = "4" -> 4 [] d = "7" -> 7
                               [] d = "8" -> 8 [] d = "9" -> 9]
HexValue(d) == IF d \in Digits THEN ValueOf[d]
               ELSE CASE d \in {"a", "A"} -> 10 [] d \in {"b", "B"} -> 11 [] d \in {"d", "D"} -> 13
                      [] d \in {"e", "E"} -> 14 [] d \in {"f", "F"} -> 15 [] d = "c" -> 12
Octal == {"0", "1", "2", "3", "4", "7"}
Hex == Digits \cup {"a", "b", "c", "d", "e", "f", "A", "B", "D", "E", "F"}

KeywordWords == {"def", "if", "else", "while", "do", "for", "in", "switch", "case", "default", "assert",
          "return", "break", "continue", "true", "false", "null", "new"}

\* A run of characters: past the last one in the set.
RECURSIVE Past(_, _)
Past(i, set) == IF Char(i) \in set THEN Past(i + 1, set) ELSE i
RECURSIVE PastLine(_)
PastLine(i) == IF Done(i) \/ Char(i) = "\n" THEN i ELSE PastLine(i + 1)
NewlinesIn(from, to) == Cardinality({i \in from .. to - 1 : Char(i) = "\n"})

\* skip_digits: an underscore counts only between digits.
RECURSIVE SkipDigits(_)
SkipDigits(i) == IF Char(i) \in Digits \/ (Char(i) = "_" /\ Char(i + 1) \in Digits) THEN SkipDigits(i + 1) ELSE i

RECURSIVE PastComment(_)
PastComment(i) == IF i + 1 > Len(text) \/ Slice(i, 2) = "*/" THEN i + 2 ELSE PastComment(i + 1)

-----------------------------------------------------------------------------
\* Escapes: the text one stands for, and the place behind it.
Simple == [n |-> "\n", t |-> "\t", r |-> "\r", f |-> "\f"]
Escaped(value, next) == [text |-> value, next |-> next]
Unicode(i) ==     \* u+ and four hex digits; 0 when they are not there
    LET j == Past(i, {"u"})
    IN  IF \A k \in 0 .. 3 : Char(j + k) \in Hex THEN j + 4 ELSE 0
CodePoint(i) == IF Spelling(i - 2, i) = "41" THEN "A" ELSE "?"      \* any other code point
OctalEnd(i) ==
    LET most == IF Char(i) \in {"0", "1", "2", "3"} THEN 3 ELSE 2
    IN  CHOOSE j \in i + 1 .. i + most : /\ \A k \in i .. j - 1 : Char(k) \in Octal
                                         /\ j = i + most \/ Char(j) \notin Octal
ScanEscape(i) ==     \* behind the backslash
    CASE Char(i) = "\n" -> Escaped("", i + 1)
      [] Slice(i, 2) = "\r\n" -> Escaped("", i + 2)
      [] Char(i) \in DOMAIN Simple -> Escaped(Simple[Char(i)], i + 1)
      [] Char(i) = "u" -> IF Unicode(i) = 0 THEN Escaped("u", i + 1) ELSE Escaped(CodePoint(Unicode(i)), Unicode(i))
      [] Char(i) \in Octal -> Escaped(IF Spelling(i, OctalEnd(i)) = "101" THEN "A" ELSE "?", OctalEnd(i))
      [] OTHER -> Escaped(Char(i), i + 1)

-----------------------------------------------------------------------------
\* Placeholders.

\* scan_braced: past the brace that closes the one before i; 0 when none
\* does.  Braces inside a quoted string do not count.
RECURSIVE PastQuoted(_, _), Braced(_, _)
PastQuoted(i, q) == IF Done(i) \/ Char(i) = q THEN i ELSE PastQuoted(i + (IF Char(i) = "\\" THEN 2 ELSE 1), q)
Braced(i, open) ==
    CASE Done(i) -> 0
      [] Char(i) = "{" -> Braced(i + 1, open + 1)
      [] Char(i) = "}" -> IF open = 1 THEN i + 1 ELSE Braced(i + 1, open - 1)
      [] Char(i) \in {"'", "\""} -> Braced(PastQuoted(i + 1, Char(i)) + 1, open)
      [] OTHER -> Braced(i + 1, open)

\* scan_dotted_path: names joined by dots.
RECURSIVE DottedPath(_)
DottedPath(i) == LET j == Past(i, IdentPart)
                 IN  IF Char(j) = "." /\ Char(j + 1) \in IdentStart THEN DottedPath(j + 1) ELSE j

\* A scan of a string's body: the parts so far, the text since the last one.
ScanAt(i) == [at |-> i, parts |-> <<>>, text |-> "", lines |-> 0, ok |-> TRUE]
Take(b, piece, next) == [b EXCEPT !.text = @ \o piece, !.at = next]
Flushed(b) == IF b.text = "" THEN b ELSE [b EXCEPT !.parts = Append(@, <<"text", b.text>>), !.text = ""]
Placed(b, from, to, next) ==
    [Flushed(b) EXCEPT !.parts = Append(@, <<"expr", Spelling(from, to), from>>), !.at = next,
                       !.lines = @ + NewlinesIn(b.at, next)]
AtPlaceholder(i) == Char(i) = "$" /\ Char(i + 1) \in IdentStart \cup {"{"}
Placeholder(b) ==
    LET end == Braced(b.at + 2, 1)
        path == DottedPath(b.at + 1)
    IN  IF Char(b.at + 1) # "{" THEN Placed(b, b.at + 1, path, path)
        ELSE IF end = 0 THEN [b EXCEPT !.ok = FALSE]
        ELSE Placed(b, b.at + 2, end - 1, end)
TakeChar(b) == [Take(b, Char(b.at), b.at + 1) EXCEPT !.lines = @ + (IF Char(b.at) = "\n" THEN 1 ELSE 0)]

\* A raw newline is counted on the way into the loop and when it is taken.
QuotedChar(b) == [TakeChar(b) EXCEPT !.lines = @ + (IF Char(b.at) = "\n" THEN 1 ELSE 0)]
AtEnd(i, q, triple) == IF triple THEN Slice(i, 3) = q \o q \o q ELSE Char(i) = q

RECURSIVE Quoted(_, _, _)
Quoted(b, q, triple) ==
    LET e == ScanEscape(b.at + 1)
    IN  CASE Done(b.at) \/ ~b.ok -> [b EXCEPT !.ok = FALSE]
          [] ~Done(b.at) /\ AtEnd(b.at, q, triple) -> Flushed([b EXCEPT !.at = @ + (IF triple THEN 3 ELSE 1)])
          [] Char(b.at) = "\\" /\ ~Done(b.at + 1) -> Quoted(Take(b, e.text, e.next), q, triple)
          [] q = "\"" /\ AtPlaceholder(b.at) -> Quoted(Placeholder(b), q, triple)
          [] OTHER -> Quoted(QuotedChar(b), q, triple)

\* scan_slashy: a backslash is itself, except before / and a unicode escape.
SlashyEscape(b) ==
    CASE Char(b.at + 1) = "/" -> Take(b, "/", b.at + 2)
      [] Char(b.at + 1) = "u" -> IF Unicode(b.at + 1) = 0 THEN Take(b, "\\u", b.at + 2)
                                 ELSE Take(b, CodePoint(Unicode(b.at + 1)), Unicode(b.at + 1))
      [] OTHER -> Take(b, Slice(b.at, 2), b.at + 2)
RECURSIVE Slashy(_), DollarSlashy(_)
Slashy(b) ==
    CASE Done(b.at) \/ ~b.ok -> [b EXCEPT !.ok = FALSE]
      [] Char(b.at) = "/" -> Flushed([b EXCEPT !.at = @ + 1])
      [] Char(b.at) = "\\" /\ ~Done(b.at + 1) -> Slashy(SlashyEscape(b))
      [] AtPlaceholder(b.at) -> Slashy(Placeholder(b))
      [] OTHER -> Slashy(TakeChar(b))
DollarSlashy(b) ==
    CASE Done(b.at) \/ ~b.ok -> [b EXCEPT !.ok = FALSE]
      [] Slice(b.at, 2) = "/$" -> Flushed([b EXCEPT !.at = @ + 2])
      [] Slice(b.at, 2) \in {"$$", "$/"} -> DollarSlashy(Take(b, Char(b.at + 1), b.at + 2))
      [] AtPlaceholder(b.at) -> DollarSlashy(Placeholder(b))
      [] Slice(b.at, 2) = "\\u" -> DollarSlashy(SlashyEscape(b))
      [] OTHER -> DollarSlashy(TakeChar(b))

-----------------------------------------------------------------------------
\* Numbers.
RECURSIVE Magnitude(_, _, _, _)
Magnitude(i, to, radix, sofar) ==
    IF i >= to THEN sofar
    ELSE IF Char(i) = "_" THEN Magnitude(i + 1, to, radix, sofar)
    ELSE Magnitude(i + 1, to, radix, radix * sofar + HexValue(Char(i)))
Without(from, to) == FoldLeft(LAMBDA s, i : IF Char(i) = "_" THEN s ELSE s \o Char(i), "", [k \in 1 .. to - from |-> from + k - 1])

\* scan_radix_int: [kind, value, next], or none.
NoRadix == [kind |-> "none", value |-> 0, next |-> 0]
RadixInt(i) ==
    LET radix == CASE Slice(i, 2) \in {"0x", "0X"} -> 16
                   [] Slice(i, 2) \in {"0b", "0B"} -> 2
                   [] Char(i) = "0" /\ Char(i + 1) \in Octal -> 8
                   [] OTHER -> 10
        from == IF radix = 8 THEN i + 1 ELSE i + 2
        digits == CASE radix = 16 -> Hex [] radix = 8 -> Octal [] OTHER -> {"0", "1"}
        end == Past(from, digits \cup {"_"})
        long == Char(end) \in {"L", "l", "g", "G"}
        value == Magnitude(from, end, radix, 0)
        wrapped == IF value > LongMax THEN value - 2 * (LongMax + 1) ELSE value
        bits == IF long THEN 2 * LongMax + 1 ELSE LongMax
    IN  IF radix = 10 \/ (radix = 8 /\ Char(end) \in {".", "e", "E", "8", "9"}) THEN NoRadix
        ELSE IF value > bits \/ \A k \in from .. end - 1 : Char(k) = "_"
             THEN [kind |-> "error", value |-> 0, next |-> end]
        ELSE [kind |-> IF long \/ value > IntMax THEN "long" ELSE "int",
                       value |-> wrapped, next |-> IF long THEN end + 1 ELSE end]

\* A decimal literal: where its fraction, exponent and suffix end.
Fraction(i) == IF Char(i) = "." /\ Char(i + 1) \in Digits THEN SkipDigits(i + 1) ELSE i
Exponent(i) ==
    LET j == IF Char(i + 1) \in {"+", "-"} THEN i + 2 ELSE i + 1
    IN  IF Char(i) \in {"e", "E"} /\ Char(j) \in Digits THEN SkipDigits(j) ELSE i
NumberSuffixes == {"L", "l", "f", "F", "d", "D", "g", "G"}
Number(i) ==
    LET whole == SkipDigits(i)
        end == Exponent(Fraction(whole))
        suffix == IF Char(end) \in NumberSuffixes THEN Char(end) ELSE ""
        next == IF suffix = "" THEN end ELSE end + 1
        value == Magnitude(i, whole, 10, 0)
        is(kind, v) == [kind |-> kind, value |-> v, next |-> next]
    IN  CASE suffix \in {"d", "D"} -> is("double", Without(i, end))
          [] suffix \in {"f", "F"} -> is("float", Without(i, end))
          [] suffix \notin {"d", "D", "f", "F"} /\ end > whole -> is("decimal", Without(i, end))
          [] OTHER -> IF suffix \in {"g", "G"} \/ value > LongMax THEN is("big", Without(i, end))
                      ELSE is(IF suffix \in {"L", "l"} \/ value > IntMax THEN "long" ELSE "int", value)

-----------------------------------------------------------------------------
\* Operators, in the order they are tried; the alternate tries the
\* one-character ones first.
Compound == <<"<..<", "<..", ">>>=", "==~", "===", "!==", "...", "..<", "<=>", "<<=", ">>=", "**=", ">>>",
              "..", "->", "?.", "*.", "?:", "?=", "&=", "|=", "^=", "+=", "-=", "*=", "/=", "%=", "++", "--",
              "=~", "==", "!=", "<=", ">=", "&&", "||", "**", "<<", ">>">>
Symbols == <<"{", "}", "(", ")", "[", "]", ";", ",", ":", ".", "=", "+", "-", "*", "/", "%", "<", ">", "?", "!",
             "|", "&", "^", "~", "@">>
CascadeShortFirst == Symbols \o Compound
Cascade == Compound \o Symbols
Matches(i) == {n \in DOMAIN Cascade : Slice(i, Len(Cascade[n])) = Cascade[n]}
Operator(i) == Cascade[CHOOSE n \in Matches(i) : \A m \in Matches(i) : n <= m]

\* ends_expression: a / behind one of these divides.
EndsExpression == {"ident", "int", "long", "double", "float", "decimal", "big", "string", "gstring", "regex",
                   "true", "false", "null", ")", "]", "}", "++", "--"}

-----------------------------------------------------------------------------
\* The lexer's loop.
Start(i) == [at |-> i, line |-> 1, depth |-> 0, out |-> <<>>, ok |-> TRUE]
Token(st, kind, value) == [kind |-> kind, value |-> value, line |-> st.line, offset |-> st.at]
Push(st, kind, value, next) == [st EXCEPT !.out = Append(@, Token(st, kind, value)), !.at = next]
LastKind(st) == IF st.out = <<>> THEN "none" ELSE Last(st.out).kind

Newline(st) ==
    LET n == [st EXCEPT !.line = @ + 1]
    IN  IF n.depth = 0 /\ LastKind(st) \notin {"none", "nl"} THEN Push(n, "nl", "", st.at + 1)
        ELSE [n EXCEPT !.at = @ + 1]
Comment(st) ==
    IF Slice(st.at, 2) = "//" THEN [st EXCEPT !.at = PastLine(st.at + 2)]
    ELSE LET end == PastComment(st.at + 2)
         IN  [st EXCEPT !.at = end, !.line = @ + NewlinesIn(st.at + 2, end - 2)]
Word(st) ==
    LET end == Past(st.at, IdentPart \cup {"$"})
        w == Spelling(st.at, end)
    IN  IF w \in KeywordWords THEN Push(st, w, "", end) ELSE Push(st, "ident", w, end)
PushNumber(st, n) == IF n.kind = "error" THEN [st EXCEPT !.ok = FALSE] ELSE Push(st, n.kind, n.value, n.next)
OrNumber(r, at) == IF r.kind = "none" THEN Number(at) ELSE r
Numeral(st) == PushNumber(st, OrNumber(RadixInt(st.at), st.at))

\* A literal is a string when nothing in it is a placeholder.
Unplaced(part) == part[2]
StringToken(st, b) ==
    LET plain == b.parts = <<>> \/ (Len(b.parts) = 1 /\ b.parts[1][1] = "text")
        value == IF b.parts = <<>> THEN "" ELSE IF plain THEN Unplaced(b.parts[1]) ELSE b.parts
        p == Push(st, IF plain THEN "string" ELSE "gstring", value, b.at)
    IN  IF b.ok THEN [p EXCEPT !.line = @ + b.lines] ELSE [st EXCEPT !.ok = FALSE]
Pattern(st, b) ==
    LET source == FoldLeft(LAMBDA s, p : s \o IF p[1] = "text" THEN p[2] ELSE "${" \o p[2] \o "}", "", b.parts)
    IN  IF b.ok THEN Push([st EXCEPT !.line = @ + b.lines], "regex", source, b.at) ELSE [st EXCEPT !.ok = FALSE]
StringLiteral(st) ==
    LET q == Char(st.at)
        triple == Slice(st.at, 3) = q \o q \o q
    IN  StringToken(st, Quoted(ScanAt(st.at + (IF triple THEN 3 ELSE 1)), q, triple))
Punctuation(st) ==
    LET op == Operator(st.at)
        p == Push(st, op, "", st.at + Len(op))
    IN  CASE Matches(st.at) = {} -> [st EXCEPT !.ok = FALSE]
          [] Matches(st.at) # {} /\ op \in {"(", "["} -> [p EXCEPT !.depth = @ + 1]
          [] Matches(st.at) # {} /\ op \in {")", "]"} -> [p EXCEPT !.depth = IF @ = 0 THEN 0 ELSE @ - 1]
          [] OTHER -> p

LexStep(st) ==
    CASE Char(st.at) = "\n" -> Newline(st)
      [] Char(st.at) \in Spaces -> [st EXCEPT !.at = @ + 1]
      [] Slice(st.at, 2) \in {"//", "/*"} -> Comment(st)
      [] Char(st.at) \in IdentStart \/ (Char(st.at) = "$" /\ Char(st.at + 1) # "/") -> Word(st)
      [] Char(st.at) \in Digits -> Numeral(st)
      [] Char(st.at) \in {"'", "\""} -> StringLiteral(st)
      [] Slice(st.at, 2) = "~/" -> Pattern(st, Slashy(ScanAt(st.at + 2)))
      [] Slice(st.at, 2) = "$/" -> StringToken(st, DollarSlashy(ScanAt(st.at + 2)))
      [] OTHER -> IF Char(st.at) = "/" /\ LastKind(st) \notin EndsExpression
                  THEN StringToken(st, Slashy(ScanAt(st.at + 1)))
                  ELSE Punctuation(st)
RECURSIVE Run(_)
Run(st) == IF Done(st.at) \/ ~st.ok THEN st ELSE Run(LexStep(st))

Shebang == IF Slice(1, 2) = "#!" THEN PastLine(1) ELSE 1
Lexed == Run(Start(Shebang))
=============================================================================
