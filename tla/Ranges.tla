------------------------------- MODULE Ranges -------------------------------
(***************************************************************************)
(* src/src/host.rs: groovy.lang.Range.  A range is one record, and each of *)
(* its operations computes from the record on its own: the walk, the size, *)
(* the bounds, the containment tests, the windows, the stepped walk, and   *)
(* the positions a range picks out of a list.                              *)
(*                                                                         *)
(* Values are counted in halves, so that 1.5 is 3; kind is "int" when both *)
(* ends are Integers, "dec" when one is a decimal, "char" for characters.  *)
(***************************************************************************)
EXTENDS Integers, Sequences, SequencesExt, FiniteSets, FiniteSetsExt

VARIABLE range       \* [kind, from, to, inclusive, exclLeft, step]

One == 2             \* a step of one, in halves
Unstepped == 0
RangeOf(kind, from, to, inclusive, exclLeft, step) ==
    [kind |-> kind, from |-> from, to |-> to, inclusive |-> inclusive, exclLeft |-> exclLeft, step |-> step]
Successor(v, forward) == IF forward THEN v + One ELSE v - One
IsReverse(r) == r.from > r.to
IsEmptyRange(r) == ~r.inclusive /\ r.from = r.to
RangeClass(r) ==
    CASE r.step # Unstepped -> "NumberRange"
      [] r.step = Unstepped /\ IsEmptyRange(r) -> "EmptyRange"
      [] OTHER -> CASE r.kind = "char" -> "ObjectRange" [] r.kind = "int" -> "IntRange" [] r.kind = "dec" -> "NumberRange"

\* createRange, the first end excluded.
Stepped(kind, from, to, inclusive) ==      \* an ObjectRange's ends, moved inward
    LET last == IF inclusive THEN to ELSE Successor(to, from > to)
    IN  RangeOf(kind, Successor(from, from <= last), last, TRUE, FALSE, Unstepped)
ExclusiveLeft(kind, from, to, inclusive) ==
    LET sameSide == kind = "char" \/ (from < 0) = (to < 0)
    IN  CASE from = to \/ (~inclusive /\ sameSide /\ Successor(from, from < to) = to) -> RangeOf(kind, from, from, FALSE, FALSE, Unstepped)
          [] kind = "char" /\ from # to /\ (inclusive \/ Successor(from, from < to) # to) -> Stepped(kind, from, to, inclusive)
          [] OTHER -> RangeOf(kind, from, to, inclusive, TRUE, Unstepped)
NewRange(kind, from, to, inclusive, exclLeft) ==
    IF exclLeft THEN ExclusiveLeft(kind, from, to, inclusive) ELSE RangeOf(kind, from, to, inclusive, FALSE, Unstepped)

\* range_bound with the second end always taken for the upper one.
BoundAscending(r, upper) ==
    LET end == IF upper THEN Max({r.from, r.to}) ELSE Min({r.from, r.to})
    IN  IF RangeClass(r) \notin {"EmptyRange", "NumberRange"} /\ ~r.inclusive /\ upper THEN Successor(end, FALSE) ELSE end
\* range_bound: the end an exclusive walk stops short of is moved inward.
BoundOf(r, upper) ==
    LET desc == IsReverse(r)
        end == IF upper THEN Max({r.from, r.to}) ELSE Min({r.from, r.to})
        adjusts == RangeClass(r) \notin {"EmptyRange", "NumberRange"}
    IN  CASE adjusts /\ ~r.inclusive /\ upper # desc -> Successor(end, desc)
          [] adjusts /\ r.exclLeft /\ upper = desc -> Successor(end, ~desc)
          [] OTHER -> end
Lower(r) == BoundOf(r, FALSE)
Upper(r) == BoundOf(r, TRUE)

\* range_elements.
RECURSIVE WalkFrom(_, _)
WalkFrom(r, cur) ==
    LET past == \/ IF IsReverse(r) THEN cur < r.to ELSE cur > r.to
                \/ cur = r.to /\ ~r.inclusive
    IN  IF past THEN <<>> ELSE <<cur>> \o WalkFrom(r, Successor(cur, ~IsReverse(r)))
RECURSIVE StepFrom(_, _, _, _)
StepFrom(r, next, delta, ascending) ==
    LET more == \/ IF ascending THEN next < Upper(r) ELSE next > Lower(r)
                \/ r.inclusive /\ next = IF ascending THEN Upper(r) ELSE Lower(r)
    IN  IF more THEN <<next>> \o StepFrom(r, IF ascending THEN next + delta ELSE next - delta, delta, ascending) ELSE <<>>
SteppedElements(r, step) ==
    LET ascending == IF step < 0 THEN IsReverse(r) ELSE ~IsReverse(r)
        delta == Max({step, -step})
        start == IF ascending THEN Lower(r) ELSE Upper(r)
    IN  IF step = 0 THEN <<>>
        ELSE StepFrom(r, IF ~r.exclLeft THEN start ELSE IF ascending THEN start + delta ELSE start - delta, delta, ascending)
Elements(r) ==
    IF r.step # Unstepped THEN SteppedElements(r, r.step)
    ELSE WalkFrom(r, IF r.exclLeft THEN Successor(r.from, ~IsReverse(r)) ELSE r.from)

\* Division truncates towards zero.
Truncated(a, b) == IF (a < 0) = (b < 0) THEN Max({a, -a}) \div Max({b, -b}) ELSE -(Max({a, -a}) \div Max({b, -b}))
Span(r) == (IF r.inclusive THEN Upper(r) ELSE Upper(r) - One) - (IF r.exclLeft THEN Lower(r) + One ELSE Lower(r))
SizeOf(r) ==
    CASE r.step # Unstepped -> Truncated(Span(r), r.step) + 1
      [] RangeClass(r) = "IntRange" -> Max({(Upper(r) - Lower(r)) \div One + 1, 0})
      [] RangeClass(r) = "NumberRange" /\ r.step = Unstepped -> Truncated(Span(r), One) + 1
      [] OTHER -> LET gap == Max({r.to - r.from, r.from - r.to}) IN gap \div One + (IF r.inclusive THEN 1 ELSE 0)

\* range_contains and range_contains_within_bounds.
RangeContains(r, v) ==
    IF RangeClass(r) = "IntRange" THEN v % One = 0 /\ Lower(r) <= v /\ v <= Upper(r) ELSE v \in ToSet(Elements(r))
WithinBounds(r, v) ==
    CASE RangeClass(r) \in {"IntRange", "ObjectRange"} -> Lower(r) <= v /\ v <= Upper(r)
      [] RangeClass(r) = "NumberRange" ->
           /\ Lower(r) < v \/ (Lower(r) = v /\ (IsReverse(r) => r.inclusive))
           /\ Upper(r) > v \/ (Upper(r) = v /\ (~IsReverse(r) => r.inclusive))
      [] OTHER -> RangeContains(r, v)

\* range_sublist: the window [i, j) of the ascending elements.
NoRange == <<>>
WindowOf(r, i, j) ==
    LET asc == IF IsReverse(r) THEN Reverse(Elements(r)) ELSE Elements(r)
        ends == IF IsReverse(r) THEN <<asc[j], asc[i + 1]>> ELSE <<asc[i + 1], asc[j]>>
    IN  CASE i < 0 \/ j > SizeOf(r) \/ i > j -> NoRange
          [] i = j /\ i >= 0 /\ j <= SizeOf(r) -> RangeOf(r.kind, Lower(r), Lower(r), FALSE, FALSE, Unstepped)
          [] OTHER -> RangeOf(r.kind, ends[1], ends[2], TRUE, FALSE, Unstepped)

\* range_step: every n-th element, from the far end when n is negative.
EveryNth(r, n) ==
    LET seq == IF n < 0 THEN Reverse(Elements(r)) ELSE Elements(r)
    IN  [i \in 1 .. (Len(seq) + Max({n, -n}) - 1) \div Max({n, -n}) |-> seq[(i - 1) * Max({n, -n}) + 1]]

\* range_by: a NumberRange over the bounds, whose step is n.
ByStep(r, n) ==
    LET whole == RangeClass(r) = "IntRange"
    IN  RangeOf(r.kind, Lower(r), Upper(r), whole \/ r.inclusive, ~whole /\ r.exclLeft, n)

\* normalize_range_index: the positions a range of Integers picks, counted
\* in ones from 0, of a list of len elements.
PositionsIn(r, len) ==
    LET resolved(i) == IF i < 0 THEN len + i ELSE i
        a == resolved(r.from \div One)
        b == resolved(r.to \div One)
        shift == IF r.inclusive THEN 0 ELSE 1
        lo == IF a > b THEN b + shift ELSE IF r.exclLeft THEN a + 1 ELSE a
        hi == IF a > b THEN (IF r.exclLeft THEN a - 1 ELSE a) ELSE b - shift
        up == [k \in 1 .. Max({0, hi - lo + 1}) |-> lo + k - 1]
    IN  IF a > b THEN Reverse(up) ELSE up
=============================================================================
