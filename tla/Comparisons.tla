---------------------------- MODULE Comparisons ----------------------------
(***************************************************************************)
(* What the equalities, the hashes, the keys and the orders owe each       *)
(* other, asked of pairs of values and of heaps that may reach themselves. *)
(***************************************************************************)
EXTENDS Equality

CONSTANTS Atoms,       \* values that hold no others
          Heaps,       \* functions from handles to objects
          SortedLists  \* lists of numbers to sort

VARIABLE compared      \* <<heap, left, right>>, <<"sort", items>> or <<>>

NoHeap == <<>>
H1 == <<"obj", 1>>
H2 == <<"obj", 2>>
ComparedInit == compared = <<>>
CompareAtoms == compared = <<>> /\ \E a, b \in Atoms : compared' = <<NoHeap, a, b>>
CompareObjects == compared = <<>> /\ \E heap \in Heaps : compared' = <<heap, H1, H2>>
SortItems == compared = <<>> /\ \E items \in SortedLists : compared' = <<"sort", items>>
comparedVars == compared

IsPair == Len(compared) = 3
IsHeapPair == IsPair /\ compared[1] # NoHeap
IsAtomPair == IsPair /\ compared[1] = NoHeap

NumbersWithDoubles(a, b) == \A v \in {a, b} : IsNumber(v) /\ Kind(v) # "nan" /\ (Kind(v) # "negzero" => Magnitude(ToBigInteger(v[2]).u) <= DoubleExact)
BooleanAndDecimal(a, b) == "bool" \in {Kind(a), Kind(b)} /\ (IsDecHandle(a) \/ IsDecHandle(b))
\* No two members of a set are equal with coercion.
Apart(heap, v) == Shape(heap, v) = "set" => LET ms == MembersOf(heap, v) IN \A i, j \in DOMAIN ms : i # j => ~ValuesEqual(heap, ms[i], ms[j]).eq
PlainList(heap, v) == Shape(heap, v) = "list" /\ \A x \in Holds(heap, v) : ~IsObj(x)

KeysAgree(eq, a, b) == BucketKey(eq, a) = BucketKey(eq, b) \/ NoKey \in {BucketKey(eq, a), BucketKey(eq, b)}

\* What two values' answers to the equalities owe: coercing and mirrored are
\* the coercing one's in both orders, java that of the stricter.
AnswersAgree(heap, a, b, coercing, mirrored, java) ==
    /\ (Apart(heap, a) /\ Apart(heap, b) /\ ~coercing.cyc /\ ~mirrored.cyc) => coercing.eq = mirrored.eq
    /\ (Kind(a) # "nan" /\ java.eq /\ ~java.cyc) => coercing.eq
    /\ (java.eq /\ (IsAtomPair \/ (PlainList(heap, a) /\ PlainList(heap, b)))) => ObjectHash(heap, a) = ObjectHash(heap, b)
    /\ (coercing.eq /\ ~coercing.cyc /\ Shape(heap, a) = "list") => Shape(heap, b) \in {"list", "range"}
    /\ IsAtomPair =>
         /\ java.eq = JavaEquals(heap, b, a).eq
         /\ \A eq \in {"java", "groovy"} : (SetEqual(heap, eq, a, b) /\ ~BooleanAndDecimal(a, b)) => KeysAgree(eq, a, b)
         /\ java.eq = (EncodeKey(a) = EncodeKey(b))
         /\ (~BooleanAndDecimal(a, b) /\ ~UnboxedPair(a, b)) => OperatorEquals(heap, a, b) = coercing.eq
\* Values that are equal are one to everything that looks a value up: the
\* equality is symmetric, the stricter equality implies the coercing one,
\* equal values share their hash, their bucket of a set's index and, when
\* Java calls them equal, the key a map stores them under; and `==` on two
\* values is `==` on two lists of them.  A Boolean against a decimal is the
\* exception `KeysAreShared` is about, an operator with a box the one of
\* OperatorLaws!BoxesComputeOnTheNumbers.
EqualValuesAreOne ==
    IsPair => LET heap == compared[1]
                  a == compared[2]
                  b == compared[3]
              IN  AnswersAgree(heap, a, b, ValuesEqual(heap, a, b), ValuesEqual(heap, b, a), JavaEquals(heap, a, b))
\* host.rs, SetEq::key: "Two values this equality calls equal always share a
\* key".
KeysAreShared == IsAtomPair => (SetEqual(NoHeap, "groovy", compared[2], compared[3]) => KeysAgree("groovy", compared[2], compared[3]))

\* Reachability, the walk's guard left out.
RECURSIVE ReachFrom(_, _, _)
ReachFrom(heap, seen, selfToo) ==
    LET next == seen \cup UNION {{x \in Holds(heap, v) : IsObj(x) /\ (selfToo \/ x # v)} : v \in seen}
    IN  IF next = seen THEN seen ELSE ReachFrom(heap, next, selfToo)
After(heap, v, selfToo) == ReachFrom(heap, {x \in Holds(heap, v) : IsObj(x) /\ (selfToo \/ x # v)}, selfToo)
ReachesACycle(heap, v, selfToo) == \E x \in {v} \cup After(heap, v, selfToo) : x \in After(heap, x, selfToo)
DepthBound == 7        \* more than the pairs of distinct handles

\* A walk over collections that reach themselves raises exactly where one
\* that remembers nothing would not end, and otherwise answers what it would:
\* `==` and `equals` by the pairs they compare, hashCode by the handles it is
\* inside, inspect and toString by the cycles longer than "(this Collection)".
WalksEndOrRaise ==
    IsHeapPair => LET heap == compared[1]
                      a == compared[2]
                      b == compared[3]
                  IN  /\ \A mode \in {"groovy", "java"} :
                           LET walk == Guarded(heap, mode, a, b, Unbounded)
                               deep == Guarded(heap, mode, a, b, Inside(DepthBound))
                           IN  walk.cyc = deep.cyc /\ (~walk.cyc => walk.eq = deep.eq)
                      /\ ObjectHash(heap, a).cyc = ReachesACycle(heap, a, TRUE)
                      /\ InspectRaises(heap, a) = ReachesACycle(heap, a, FALSE)
\* host.rs, render_value: a cycle raises "instead of overflowing the Rust
\* stack"; the text `<=>` puts in its message walks the members on its own.
JavaTextEnds == IsHeapPair => (Compared(compared[2], compared[3]) = Refused => JavaTextEndsWithin(compared[1], compared[2], DepthBound))

Comparable(a, b) == NumbersWithDoubles(a, b) \/ (IsText(a) /\ IsText(b)) \/ (Kind(a) = Kind(b) /\ Kind(a) \in {"char", "bool"})
StableSort(s) ==
    LET before(i, j) == CompareValues(s[i], s[j]) < 0 \/ (CompareValues(s[i], s[j]) = 0 /\ i < j)
        place(i) == Cardinality({j \in DOMAIN s : j = i \/ before(j, i)})
    IN  [k \in DOMAIN s |-> s[CHOOSE i \in DOMAIN s : place(i) = k]]

\* Two values that can be compared have one order: `<=>` and `<` agree with
\* each other, with `==`, and with the order read backwards; sort is stable
\* under it, and min and max are the first of the sorted extremes.  An
\* operator with a box goes its own way (see above).
OrdersAgree ==
    /\ (IsAtomPair /\ Comparable(compared[2], compared[3])) =>
         LET a == compared[2]
             b == compared[3]
         IN  /\ Compared(a, b) = -Compared(b, a)
             /\ "negzero" \notin {Kind(a), Kind(b)} =>
                  /\ ~UnboxedPair(a, b) => /\ Compared(a, b) = OperatorOrder(a, b)
                                           /\ (Compared(a, b) = 0) = OperatorEquals(NoHeap, a, b)
                  /\ \A c \in Atoms : (Comparable(b, c) /\ Comparable(a, c) /\ Kind(c) # "negzero" /\ Compared(a, b) <= 0 /\ Compared(b, c) <= 0) => Compared(a, c) <= 0
    /\ Len(compared) = 2 =>
         LET items == compared[2]
             numbers == SelectSeq(items, LAMBDA v : Kind(v) # "null")
         IN  /\ SortValues(items) = StableSort(items)
             /\ (numbers # <<>> /\ \A v \in ToSet(numbers) : Kind(v) \notin {"nan", "negzero"}) =>
                  /\ Extreme(items, -1) = StableSort(numbers)[1]
                  /\ CompareValues(Extreme(items, 1), Last(StableSort(numbers))) = 0
=============================================================================
