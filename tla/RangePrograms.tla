---------------------------- MODULE RangePrograms ----------------------------
(***************************************************************************)
(* What a range is: the values met going from its first end to its second  *)
(* by ones, less the ends it excludes.                                     *)
(***************************************************************************)
EXTENDS Ranges

CONSTANTS RangeEnds,     \* the ends of the ranges written, in halves
          ListLength     \* the length of a list they are used on

VARIABLE written         \* <<kind, from, to, inclusive, exclLeft>>, or <<>>

rangeVars == <<range, written>>

InOrder(S, descending) ==
    LET up == IF S = {} THEN <<>> ELSE SelectSeq([k \in 1 .. Max(S) - Min(S) + 1 |-> Min(S) + k - 1], LAMBDA v : v \in S)
    IN  IF descending THEN Reverse(up) ELSE up
Between(from, to, inclusive, exclLeft) ==
    LET lo == Min({from, to})
        hi == Max({from, to})
        values == {v \in lo .. hi : (v - from) % One = 0 /\ (v = from => ~exclLeft) /\ (v = to => inclusive)}
    IN  InOrder(values, from > to)
SaidRange == Between(written[2], written[3], written[4], written[5])

KindOf(from, to, kind) == IF kind = "char" THEN kind ELSE IF from % One = 0 /\ to % One = 0 THEN "int" ELSE "dec"
RangeInit == range = RangeOf("int", 0, 0, FALSE, FALSE, Unstepped) /\ written = <<>>
WriteRange ==
    /\ written = <<>>
    /\ \E kind \in {"number", "char"}, from, to \in RangeEnds, inclusive, exclLeft \in BOOLEAN :
         LET k == KindOf(from, to, kind)
         IN  /\ kind = "char" => from % One = 0 /\ to % One = 0 /\ from >= 0 /\ to >= 0
             /\ written' = <<k, from, to, inclusive, exclLeft>>
             /\ range' = NewRange(k, from, to, inclusive, exclLeft)

Ascending(s) == InOrder(ToSet(s), FALSE)
Countable == range.kind # "dec"        \* the others' sizes are Groovy's own arithmetic

\* Each thing a range answers is about the same values, however its two ends
\* are written and excluded: the walk, the size, the bounds, `contains`, the
\* sub-ranges, the stepped ranges, and the elements it picks from a list.
AnswersItsValues ==
    written # <<>> =>
        LET said == SaidRange
            near == Min(RangeEnds) - 2 .. Max(RangeEnds) + 2
        IN  /\ Elements(range) = said
            /\ Countable => SizeOf(range) = Len(said)
            /\ (Countable /\ said # <<>>) => Lower(range) = Min(ToSet(said)) /\ Upper(range) = Max(ToSet(said))
            /\ \A v \in near : RangeContains(range, v) = (v \in ToSet(said))
            /\ ~range.exclLeft => \A v \in near :
                 WithinBounds(range, v) = (said # <<>> /\ IF Countable THEN Min(ToSet(said)) <= v /\ v <= Max(ToSet(said))
                                                         ELSE Min({range.from, range.to}) <= v /\ v <= Max({range.from, range.to}) /\ (v = range.to => range.inclusive))
            /\ Countable => \A i \in 0 .. Len(said) : \A j \in i .. Len(said) :
                 Elements(WindowOf(range, i, j)) = InOrder(ToSet(SubSeq(Ascending(said), i + 1, j)), IsReverse(range))
            /\ \A n \in {1, 2, 3} :
                 LET every(s) == [i \in 1 .. (Len(s) + n - 1) \div n |-> s[(i - 1) * n + 1]]
                 IN  /\ EveryNth(range, n) = every(said) /\ EveryNth(range, -n) = every(Reverse(said))
                     /\ (range.kind = "int" /\ said # <<>>) =>
                          /\ Elements(ByStep(range, n * One)) = every(Ascending(said))
                          /\ SizeOf(ByStep(range, n * One)) = Len(every(said))
            /\ range.kind = "int" =>
                 LET at(h) == IF h < 0 THEN h + ListLength * One ELSE h
                     picked == Between(at(written[2]), at(written[3]), written[4], written[5])
                 IN  PositionsIn(range, ListLength) = [i \in DOMAIN picked |-> picked[i] \div One]
=============================================================================
