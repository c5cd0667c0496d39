------------------------------ MODULE Iteration ------------------------------
(***************************************************************************)
(* The methods that run a closure: over a list (dispatch_iteration), a map *)
(* (dispatch_map_iteration) and a number (dispatch_number_iteration) of    *)
(* src/src/host.rs.                                                        *)
(*                                                                         *)
(* A walk is one call of such a method.  It runs over a snapshot of its    *)
(* receiver and calls the closure for one element at a time; the closure   *)
(* answers, raises, or writes to the receiver meanwhile, and what the      *)
(* method makes of its answers is stored, when the method stores at all,   *)
(* over whatever the receiver holds by then.  An exception is pending      *)
(* until somebody looks: each loop checks for it itself.                   *)
(***************************************************************************)
EXTENDS Integers, Sequences, SequencesExt, FiniteSets, FiniteSetsExt

CONSTANTS
    ListWalks, MapWalks, NumberWalks,   \* the calls made, as walk records
    Answers,            \* what a closure answers an element with
    OrderAnswers,       \* what it answers a comparison with, or as a key
    MaxAsked,           \* bound on the calls of one walk
    LongHalf, IntHalf   \* half as many as there are longs and ints

VARIABLES
    walk,           \* the method, its snapshot and its closure, or NoWalk
    closureCalls,   \* the calls of the closure: their arguments and how they ended
    pending,        \* the call whose exception is on its way out, or 0
    receiver,       \* what the receiver holds now
    answer          \* what the method answered, or Unanswered

walkVars == <<walk, closureCalls, pending, receiver, answer>>

NoWalk == [kind |-> "none", method |-> "none"]
Unanswered == <<"unanswered">>

Null == <<"null">>
BoolV(b) == <<"bool", b>>
IntV(n) == <<"int", n>>
ListV(s) == <<"list", s>>
MapV(s) == <<"map", s>>
EntryV(k, v) == <<"entry", k, v>>
ZeroText == <<"text", "0">>
Extra == EntryV(IntV(9), IntV(9))       \* what a closure puts into a map of its own

Said == [i \in DOMAIN closureCalls |-> closureCalls[i].says]

-----------------------------------------------------------------------------
\* Values as the methods read them.

\* groovy_truthy, and the truth of the virtual machine (external).
Truthy(v) == v \notin {Null, BoolV(FALSE), IntV(0), ListV(<<>>), MapV(<<>>)}
IsTruthy(v) == v \notin {Null, BoolV(FALSE), IntV(0), ZeroText}

IterationElements(v) ==
    CASE v = Null -> <<>>
      [] v[1] \in {"list", "map"} -> v[2]
      [] OTHER -> <<v>>

EntryPairs(v) ==
    CASE v[1] = "map" -> v[2]
      [] v[1] = "entry" -> <<v>>
      [] v[1] = "list" /\ Len(v[2]) = 2 -> <<EntryV(v[2][1], v[2][2])>>
      [] OTHER -> <<>>

\* A map is its entries in order: a key written again keeps its place.
InMap(entries, k) == \E i \in DOMAIN entries : entries[i][2] = k
At(entries, k) == IF InMap(entries, k) THEN entries[CHOOSE i \in DOMAIN entries : entries[i][2] = k][3] ELSE Null
Put(entries, k, v) ==
    IF InMap(entries, k) THEN [i \in DOMAIN entries |-> IF entries[i][2] = k THEN EntryV(k, v) ELSE entries[i]]
    ELSE Append(entries, EntryV(k, v))
Without(entries, keys) ==
    LET upTo[n \in 0 .. Len(entries)] ==
            IF n = 0 THEN <<>> ELSE IF entries[n][2] \in keys THEN upTo[n - 1] ELSE Append(upTo[n - 1], entries[n])
    IN  upTo[Len(entries)]

-----------------------------------------------------------------------------
\* What a closure is called with.  clo.params counts its parameters, clo.min
\* those without a default.
ItemArgs(clo, it) == IF clo.min >= 2 /\ it[1] = "list" THEN it[2] ELSE <<it>>
EntryArgs(clo, e) == IF clo.params >= 2 THEN <<e[2], e[3]>> ELSE <<e>>

\* permutations_of: by position, so equal elements give equal permutations.
PermutationsOf(s) ==
    LET of[t \in Seq(ToSet(s))] ==
            IF t = <<>> THEN <<<<>>>>
            ELSE FlattenSeq([i \in DOMAIN t |-> LET rest == of[RemoveAt(t, i)] IN [j \in DOMAIN rest |-> <<t[i]>> \o rest[j]]])
    IN  of[s]
Permuted(s) == LET p == PermutationsOf(s) IN [i \in DOMAIN p |-> ListV(p[i])]

\* What the loop runs over: the set of permutations in whatever order its table
\* has, the elements after the first one when that one opens the fold.
Snapshots(w) ==
    CASE w.method = "reverseEach" -> {Reverse(w.items)}
      [] w.method = "eachPermutation" -> {Permuted(w.items)}
      [] w.method = "permutations" -> SetToSeqs(ToSet(Permuted(w.items)))
      [] w.method = "findIndexValues" -> {SubSeq(w.items, w.from + 1, Len(w.items))}
      [] w.method = "inject" /\ w.seed = Unanswered -> {Tail(w.items)}
      [] OTHER -> {w.items}
Seed(w) == IF w.method = "inject" /\ w.seed = Unanswered THEN w.items[1] ELSE w.seed

\* What a call of the closure is given for the i-th element.
ElementArgs(w, i, says) ==
    LET it == w.items[i]
        parts == IF w.kind = "map" /\ w.clo.params >= 3 THEN <<it[2], it[3]>> ELSE <<it>>
    IN  CASE w.method = "eachWithIndex" -> Append(parts, IntV(i - 1))
          [] w.method = "inject" -> <<IF i = 1 THEN w.seed ELSE says[i - 1]>> \o parts
          [] w.method \in {"forEach", "replaceAll"} -> <<it[2], it[3]>>
          [] w.method \in {"groupBy", "sum"} /\ w.kind = "list" -> <<it>>
          [] OTHER -> IF w.kind = "map" /\ w.method # "grep" THEN EntryArgs(w.clo, it) ELSE ItemArgs(w.clo, it)

-----------------------------------------------------------------------------
\* One turn of each loop: what an answer v for the i-th element adds.
Collect(acc, v) == Append(acc, v)
CollectMany(acc, v) == acc \o IterationElements(v)
CollectEntriesOnce(acc, v) == FoldLeft(LAMBDA m, e : IF InMap(m, e[2]) THEN m ELSE Append(m, e), acc, EntryPairs(v))
CollectEntries(acc, v) == FoldLeft(LAMBDA m, e : Put(m, e[2], e[3]), acc, EntryPairs(v))
FindResults(acc, v) == IF v = Null THEN acc ELSE Append(acc, v)
Grep(acc, it, v) == IF Truthy(v) THEN Append(acc, it) ELSE acc
FindAll(acc, it, v) == IF Truthy(v) THEN Append(acc, it) ELSE acc
Split(acc, it, v) == IF Truthy(v) THEN [acc EXCEPT ![1] = Append(@, it)] ELSE [acc EXCEPT ![2] = Append(@, it)]
Count(acc, v) == IF Truthy(v) THEN acc + 1 ELSE acc
FindIndexValues(acc, from, i, v) == IF Truthy(v) THEN Append(acc, IntV(from + i - 1)) ELSE acc
GroupBy(acc, it, v) == Put(acc, v, Append(IF InMap(acc, v) THEN At(acc, v) ELSE <<>>, it))
CountBy(acc, v) == Put(acc, v, 1 + IF InMap(acc, v) THEN At(acc, v) ELSE 0)
RemoveIf(acc, m, it, v) == IF IsTruthy(v) = (m = "retainAll") THEN Append(acc, it) ELSE acc
MapRemoveIf(acc, m, e, v) == IF Truthy(v) # (m = "retainAll") THEN acc \cup {e[2]} ELSE acc

\* groovy_sum_add, over the integers and lists of the model.
SumAdd(a, v) ==
    CASE a = Unanswered -> v
      [] a[1] = "int" /\ v[1] = "int" -> IntV(a[2] + v[2])
      [] a[1] = "list" -> ListV(a[2] \o IterationElements(v))
      [] OTHER -> Null

\* The methods an answer may decide before the last element.
EndsAt(m, v) ==
    CASE m \in {"any", "find", "findIndexOf"} -> Truthy(v)
      [] m \in {"every", "takeWhile", "dropWhile"} -> ~Truthy(v)
      [] m = "findResult" -> v # Null
      [] OTHER -> FALSE
Decide(acc, m, i, v) == IF EndsAt(m, v) \/ (m = "findLastIndexOf" /\ Truthy(v)) THEN i ELSE acc

Deciders == {"any", "every", "find", "findIndexOf", "findLastIndexOf", "findResult", "takeWhile", "dropWhile"}
Removers == {"removeAll", "retainAll", "removeIf"}
Visitors == {"each", "eachWithIndex", "reverseEach", "eachPermutation", "forEach", "replaceAll"}

Opening(w) ==
    CASE w.method \in Deciders \cup {"count"} -> 0
      [] w.method = "split" -> <<<<>>, <<>>>>
      [] w.method = "inject" -> w.seed
      [] w.method = "sum" -> w.seed
      [] w.kind = "map" /\ w.method \in Removers -> {}
      [] OTHER -> <<>>

Turn(w, acc, i, it, v) ==
    CASE w.method \in Visitors -> acc
      [] w.method \in Deciders -> Decide(acc, w.method, i, v)
      [] w.method \in {"collect", "permutations"} -> Collect(acc, v)
      [] w.method = "collectMany" -> CollectMany(acc, v)
      [] w.method = "collectEntries" -> CollectEntries(acc, v)
      [] w.method = "findResults" -> FindResults(acc, v)
      [] w.method = "grep" -> Grep(acc, it, v)
      [] w.method = "findAll" -> FindAll(acc, it, v)
      [] w.method = "split" -> Split(acc, it, v)
      [] w.method = "count" -> Count(acc, v)
      [] w.method = "findIndexValues" -> FindIndexValues(acc, w.from, i, v)
      [] w.method = "groupBy" -> GroupBy(acc, it, v)
      [] w.method = "countBy" -> CountBy(acc, v)
      [] w.method = "inject" -> v
      [] w.method = "sum" -> SumAdd(acc, v)
      [] w.method \in Removers -> IF w.kind = "map" THEN MapRemoveIf(acc, w.method, it, v) ELSE RemoveIf(acc, w.method, it, v)

Acc(w, says) ==
    LET after[n \in 0 .. Len(says)] == IF n = 0 THEN Opening(w) ELSE Turn(w, after[n - 1], n, w.items[n], says[n])
    IN  after[Len(says)]

\* The answer when the loop is over.  The methods of a map that keep entries
\* rebuild a map, unless they had no closure and read it as its entries.
Rebuilt(w, s) == IF w.kind = "map" /\ ~w.plain /\ w.method \in {"findAll", "takeWhile", "dropWhile"} THEN MapV(s) ELSE ListV(s)
DecidedBy(w, cut, says) ==
    CASE w.method = "any" -> BoolV(cut # 0)
      [] w.method = "every" -> BoolV(cut = 0)
      [] w.method = "find" -> IF cut = 0 THEN Null ELSE w.items[cut]
      [] w.method = "findResult" -> IF cut = 0 THEN w.seed ELSE says[cut]
      [] w.method \in {"findIndexOf", "findLastIndexOf"} -> IntV(cut - 1)
      [] w.method = "takeWhile" -> Rebuilt(w, IF cut = 0 THEN w.items ELSE SubSeq(w.items, 1, cut - 1))
      [] w.method = "dropWhile" -> Rebuilt(w, IF cut = 0 THEN <<>> ELSE SubSeq(w.items, cut, Len(w.items)))

Made(w, says) ==
    LET acc == Acc(w, says)
    IN  CASE w.method \in {"each", "eachWithIndex", "reverseEach"} -> <<"receiver">>
          [] w.method = "eachPermutation" -> <<"generator">>
          [] w.method \in {"forEach", "replaceAll"} -> Null
          [] w.method \in Deciders -> DecidedBy(w, acc, says)
          [] w.method = "count" -> IntV(acc)
          [] w.method = "inject" -> acc
          [] w.method = "sum" -> IF acc = Unanswered THEN Null ELSE acc
          [] w.method \in Removers -> BoolV(IF w.kind = "map" THEN acc # {} ELSE acc # w.items)
          [] w.method \in {"collectEntries", "groupBy", "countBy"} -> MapV(acc)
          [] OTHER -> Rebuilt(w, acc)

-----------------------------------------------------------------------------
\* The methods that order elements by a comparator or a key.  Their loops ask
\* as they go: what they do with the comparisons answered so far is either the
\* next pair they compare or the outcome.
Orderings == {"sort", "toSorted", "unique", "toUnique", "max", "min"}

Compares(a, b) == [need |-> <<a, b>>, out |-> <<>>, rest |-> <<>>]
Outcome(out, rest) == [need |-> <<>>, out |-> out, rest |-> rest]

\* sort_values: halves are sorted, then merged; the right one goes first when
\* it is less.
GoesRight(m) == [m EXCEPT !.right = Tail(@), !.out = Append(@, m.right[1]), !.used = @ + 1]
GoesLeft(m) == [m EXCEPT !.left = Tail(@), !.out = Append(@, m.left[1]), !.used = @ + 1]
Drained(m) == m.left = <<>> \/ m.right = <<>>
TakeLesserOrTied(m, o) == IF Drained(m) THEN m ELSE IF o <= 0 THEN GoesRight(m) ELSE GoesLeft(m)
TakeLesser(m, o) == IF Drained(m) THEN m ELSE IF o < 0 THEN GoesRight(m) ELSE GoesLeft(m)
Merged(l, r, orders) ==
    LET after[k \in 0 .. Len(orders)] ==
            IF k = 0 THEN [left |-> l, right |-> r, out |-> <<>>, used |-> 0] ELSE TakeLesser(after[k - 1], orders[k])
        m == after[Len(orders)]
    IN  IF Drained(m) THEN Outcome(m.out \o m.left \o m.right, SubSeq(orders, m.used + 1, Len(orders)))
        ELSE Compares(m.right[1], m.left[1])
SortedBy(s, orders) ==
    LET from[t \in Seq(ToSet(s)), os \in Seq(ToSet(orders))] ==
            IF Len(t) < 2 THEN Outcome(t, os)
            ELSE LET l == from[SubSeq(t, 1, Len(t) \div 2), os]
                     r == from[SubSeq(t, Len(t) \div 2 + 1, Len(t)), l.rest]
                 IN  IF l.need # <<>> THEN l ELSE IF r.need # <<>> THEN r ELSE Merged(l.out, r.out, r.rest)
    IN  from[s, orders]

\* unique: an element is compared with every kept one, also past a match.
FirstOf(s) == SubSeq(s, 1, IF s = <<>> THEN 0 ELSE 1)
RestOf(s) == SubSeq(s, 2, Len(s))
KeepUnlike(u, o) ==
    LET same == u.same \/ o = 0
    IN  IF u.rest = <<>> THEN u
        ELSE IF u.at < Len(u.kept) THEN [u EXCEPT !.at = @ + 1, !.same = same]
        ELSE [rest |-> Tail(u.rest), kept |-> IF same THEN u.kept ELSE Append(u.kept, u.rest[1]), at |-> 1, same |-> FALSE]
Uniques(s, orders) ==
    LET after[k \in 0 .. Len(orders)] ==
            IF k = 0 THEN [rest |-> RestOf(s), kept |-> FirstOf(s), at |-> 1, same |-> FALSE] ELSE KeepUnlike(after[k - 1], orders[k])
        u == after[Len(orders)]
    IN  IF u.rest = <<>> THEN Outcome(u.kept, <<>>) ELSE Compares(u.rest[1], u.kept[u.at])

\* extreme_value: the best so far stays on a tie.
Prefer(e, want, o) ==
    IF e.rest = <<>> THEN e ELSE [rest |-> Tail(e.rest), best |-> IF o = want THEN FirstOf(e.rest) ELSE e.best]
Extremes(s, want, orders) ==
    LET after[k \in 0 .. Len(orders)] ==
            IF k = 0 THEN [rest |-> RestOf(s), best |-> FirstOf(s)] ELSE Prefer(after[k - 1], want, orders[k])
        e == after[Len(orders)]
    IN  IF e.rest = <<>> THEN Outcome(e.best, <<>>) ELSE Compares(e.rest[1], e.best[1])

\* OrderBy.apply: a comparator's answer, or two keys in their natural order,
\* null first.  What no number is counts as zero.
ToInt(v) == IF v[1] = "int" THEN v[2] ELSE 0
SignOf(n) == IF n < 0 THEN -1 ELSE IF n > 0 THEN 1 ELSE 0
KeyOrder(a, b) ==
    IF Null \in {a, b} THEN (IF b = Null THEN 1 ELSE 0) - (IF a = Null THEN 1 ELSE 0) ELSE SignOf(a[2] - b[2])
OrdersOf(w, says) ==
    IF w.clo.params >= 2 THEN [i \in DOMAIN says |-> SignOf(ToInt(says[i]))]
    ELSE [i \in 1 .. Len(says) \div 2 |-> KeyOrder(says[2 * i - 1], says[2 * i])]

Arranged(w, says) ==
    CASE w.method \in {"sort", "toSorted"} -> SortedBy(w.items, OrdersOf(w, says))
      [] w.method \in {"unique", "toUnique"} -> Uniques(w.items, OrdersOf(w, says))
      [] w.method = "max" -> Extremes(w.items, 1, OrdersOf(w, says))
      [] w.method = "min" -> Extremes(w.items, -1, OrdersOf(w, says))

\* A comparator takes both elements, a key closure one after the other.
ComparisonArgs(w, says) ==
    LET need == Arranged(w, says).need
    IN  IF need = <<>> \/ w.clo.params >= 2 THEN need ELSE <<need[1 + (Len(says) % 2)]>>

ArrangedAnswer(w, says) ==
    LET out == Arranged(w, says).out
    IN  CASE w.method \in {"max", "min"} -> IF out = <<>> THEN Null ELSE out[1]
          [] OTHER -> IF w.kind = "map" THEN MapV(out) ELSE ListV(out)

-----------------------------------------------------------------------------
\* partitionPoint: the interval left to search after the answers so far, for
\* the first element the closure rejects.
Middle(bounds) == bounds[1] + (bounds[2] - bounds[1]) \div 2
Halved(bounds, v) == IF Truthy(v) THEN <<Middle(bounds) + 1, bounds[2]>> ELSE <<bounds[1], Middle(bounds) - 1>>
Bounds(w, says) ==
    LET after[n \in 0 .. Len(says)] == IF n = 0 THEN <<w.lo, w.hi - 1>> ELSE Halved(after[n - 1], says[n])
    IN  after[Len(says)]

-----------------------------------------------------------------------------
\* The number loops, as i, the last i and the step.
Wrap(n, half) == ((n + half) % (2 * half)) - half
StepToBound(to, by) == to
StepLimit(to, by) == to - SignOf(by)
NumberLoop(w) ==
    CASE w.method = "times" -> <<0, Wrap(w.from, IntHalf) - 1, 1>>
      [] w.method = "upto" -> <<w.from, w.to, 1>>
      [] w.method = "downto" -> <<w.from, w.to, -1>>
      [] OTHER -> <<w.from, StepLimit(w.to, w.by), w.by>>
\* upto may not count down; a bound one step short of which is no long admits
\* nothing.
RefusesBound(w) == (w.method = "upto" /\ w.to < w.from) \/ (w.method = "downto" /\ w.to > w.from)
AdmitsNothing(w) == w.method = "step" /\ StepLimit(w.to, w.by) # Wrap(StepLimit(w.to, w.by), LongHalf)
Index(w, n) == Wrap(NumberLoop(w)[1] + n * NumberLoop(w)[3], LongHalf)
Within(w, i) == IF NumberLoop(w)[3] > 0 THEN i <= NumberLoop(w)[2] ELSE i >= NumberLoop(w)[2]
\* step_fractional: the receiver, a bound and a step in tenths, exactly.
FractionAt(w, n) == w.from + n * w.by
ShortOf(w, cur) == IF w.by > 0 THEN cur < w.to ELSE cur > w.to

-----------------------------------------------------------------------------
\* computeIfAbsent, compute, computeIfPresent and merge: at most one call, on
\* the value the key had before it.
Computers == {"computeIfAbsent", "computeIfPresent", "compute", "merge"}
Old(w) == At(w.items, w.key)
NeedsNoCall(w) == \/ w.method = "computeIfAbsent" /\ Old(w) # Null
                  \/ w.method \in {"computeIfPresent", "merge"} /\ Old(w) = Null
Uncalled(w) ==
    CASE w.method = "computeIfAbsent" -> Old(w)
      [] w.method = "computeIfPresent" -> Null
      [] w.method = "merge" -> w.value
ComputeArgs(w) ==
    CASE w.method = "computeIfAbsent" -> <<w.key>>
      [] w.method = "merge" -> <<Old(w), w.value>>
      [] OTHER -> <<w.key, Old(w)>>
\* A null answer removes the key, but computeIfAbsent stores nothing then.
Computed(w, entries, v) ==
    IF v # Null THEN Put(entries, w.key, v)
    ELSE IF w.method = "computeIfAbsent" THEN entries ELSE Without(entries, {w.key})

-----------------------------------------------------------------------------
\* The arguments of the next call, or <<>> when the method is through.
NextIndex(w, n) ==
    CASE w.fraction -> IF ShortOf(w, FractionAt(w, n)) THEN <<IntV(FractionAt(w, n))>> ELSE <<>>
      [] OTHER -> IF ~AdmitsNothing(w) /\ Within(w, Index(w, n)) THEN <<IntV(Index(w, n))>> ELSE <<>>
NextArgs ==
    LET n == Len(closureCalls)
        bounds == Bounds(walk, Said)
    IN  CASE walk.kind = "number" -> NextIndex(walk, n)
          [] walk.method \in Orderings -> ComparisonArgs(walk, Said)
          [] walk.method = "partitionPoint" ->
               IF bounds[1] <= bounds[2] THEN ItemArgs(walk.clo, walk.items[Middle(bounds) + 1]) ELSE <<>>
          [] walk.method \in Computers -> IF n = 0 /\ ~NeedsNoCall(walk) THEN ComputeArgs(walk) ELSE <<>>
          [] OTHER -> IF n < Len(walk.items) /\ (n > 0 => ~EndsAt(walk.method, closureCalls[n].says))
                      THEN ElementArgs(walk, n + 1, Said) ELSE <<>>

\* A method with no closure reads the elements themselves, count those equal
\* to its argument; the scan ends where it is decided.
PlainSays(w) ==
    LET read == [i \in DOMAIN w.items |-> IF w.method = "count" THEN BoolV(w.items[i] = w.value) ELSE w.items[i]]
        ends == {i \in DOMAIN read : EndsAt(w.method, read[i])}
    IN  IF ends = {} THEN read ELSE SubSeq(read, 1, Min(ends))

Outcomes(w, says) ==
    CASE w.kind = "number" -> Null
      [] w.method \in Orderings -> ArrangedAnswer(w, says)
      [] w.method = "partitionPoint" -> IntV(Bounds(w, says)[1])
      [] w.method \in Computers -> IF NeedsNoCall(w) THEN Uncalled(w) ELSE says[1]
      [] OTHER -> Made(w, says)

\* What the method stores in its receiver.  A list method stores the elements
\* it kept of its copy; a filter of a map drops keys from the map as it is.
MapRetainCopied(w, dropped) == Without(w.items, dropped)
MapRetain(w, dropped) == Without(receiver, dropped)
StoredBack(w, says) ==
    CASE w.kind = "list" /\ w.method \in Removers -> Acc(w, says)
      [] w.kind = "list" /\ w.method \in {"sort", "unique"} -> Arranged(w, says).out
      [] w.kind = "map" /\ w.method \in Removers -> MapRetain(w, Acc(w, says))
      [] w.method = "merge" /\ NeedsNoCall(w) -> Put(receiver, w.key, w.value)
      [] w.method \in Computers /\ ~NeedsNoCall(w) -> Computed(w, receiver, says[1])
      [] OTHER -> receiver

-----------------------------------------------------------------------------
WalkFields == {"kind", "method", "items", "copied", "clo", "plain", "seed", "from", "lo", "hi", "to", "by", "fraction", "key", "value"}
IsSequence(s) == s \in Seq({s[i] : i \in DOMAIN s})
\* Unanswered is no value.  A map has one entry for a key.  A step of zero is
\* refused before the loop.
ASSUME WalksAssumption ==
    /\ Unanswered \notin Answers \cup OrderAnswers
    /\ LongHalf \in Nat \ {0} /\ IntHalf \in 1 .. LongHalf /\ MaxAsked \in Nat
    /\ \A w \in ListWalks \cup MapWalks \cup NumberWalks : DOMAIN w = WalkFields /\ IsSequence(w.items)
    /\ \A w \in ListWalks : w.kind = "list"
    /\ \A w \in MapWalks :
          /\ w.kind = "map" /\ w.key # Extra[2] /\ (w.plain => w.method \notin Removers \cup Computers)
          /\ \A i \in DOMAIN w.items : w.items[i] = EntryV(w.items[i][2], w.items[i][3]) /\ w.items[i][2] # Extra[2]
          /\ w.method \in Computers => Unanswered \notin {w.value} \cup {w.items[i][3] : i \in DOMAIN w.items}
          /\ \A i, j \in DOMAIN w.items : w.items[i][2] = w.items[j][2] => i = j
    /\ \A w \in NumberWalks :
          /\ w.kind = "number" /\ w.method \in {"times", "upto", "downto", "step"} /\ ~w.plain
          /\ w.from \in Int /\ w.to \in Int /\ w.by \in Int /\ (w.method = "step" => w.by # 0)
          /\ IF w.fraction THEN w.method = "step" ELSE {w.from, w.to} \subseteq -LongHalf .. LongHalf - 1

IterationInit == walk = NoWalk /\ closureCalls = <<>> /\ pending = 0 /\ receiver = <<>> /\ answer = Unanswered

HostRaised == -1
RefusesCall(w) == \/ w.kind = "number" /\ RefusesBound(w)
                  \/ w.items = <<>> /\ w.method = "eachPermutation"
                  \/ w.items = <<>> /\ w.method = "inject" /\ w.seed = Unanswered

\* invoke of a method that runs a closure: the receiver is copied.
StartWalk(w) ==
    /\ walk = NoWalk
    /\ receiver' = w.items
    /\ closureCalls' = <<>>
    /\ IF RefusesCall(w)
       THEN walk' = w /\ pending' = HostRaised /\ answer' = Null
       ELSE /\ \E its \in Snapshots(w) : walk' = [w EXCEPT !.items = its, !.copied = w.items, !.seed = Seed(w)]
            /\ pending' = pending
            /\ answer' = IF w.plain THEN Made(w, PlainSays(w)) ELSE answer

Running == walk # NoWalk /\ answer = Unanswered
Calls(v, raises, puts) ==
    /\ Running /\ NextArgs # <<>> /\ Len(closureCalls) < MaxAsked
    /\ closureCalls' = Append(closureCalls, [args |-> NextArgs, says |-> v, raises |-> raises, puts |-> puts])
    /\ UNCHANGED walk

MayAnswer ==      \* a number loop does not read its answers
    CASE walk.kind = "number" -> {Null}
      [] walk.method \in Orderings -> OrderAnswers
      [] OTHER -> Answers
Written(entries, v) == IF walk.method = "replaceAll" THEN Put(entries, NextArgs[1], v) ELSE entries

\* The closure answers; what is pending stays pending.
Returns ==
    /\ \E v \in MayAnswer : Calls(v, FALSE, FALSE) /\ receiver' = Written(receiver, v)
    /\ UNCHANGED <<pending, answer>>

\* It puts something else into the receiver first.
Rewrites == walk.method \in Computers \cup {"replaceAll"} \/ (walk.kind = "map" /\ walk.method \in Removers)
Puts ==
    /\ Running /\ Rewrites /\ ~InMap(receiver, Extra[2])
    /\ \E v \in MayAnswer : Calls(v, FALSE, TRUE) /\ receiver' = Written(Append(receiver, Extra), v)
    /\ UNCHANGED <<pending, answer>>

\* It raises, or unwinds with what was pending when it was called.  The loop
\* that looks at the pending exception answers nothing; one that orders goes on.
ChecksButSplit(m) == m \notin Orderings \cup {"split"}
ChecksPending(m) == m \notin Orderings
Raises ==
    /\ Calls(Null, TRUE, FALSE)
    /\ pending' = Len(closureCalls) + 1
    /\ answer' = IF ChecksPending(walk.method) THEN Null ELSE answer
    /\ UNCHANGED receiver
Unwinds ==
    /\ pending # 0 /\ Calls(Null, FALSE, FALSE)
    /\ UNCHANGED <<pending, answer, receiver>>
\* A handler in its body catches what was pending.
Catches ==
    /\ pending # 0
    /\ \E v \in MayAnswer : Calls(v, FALSE, FALSE)
    /\ pending' = 0
    /\ UNCHANGED <<answer, receiver>>

Ends ==
    /\ Running /\ NextArgs = <<>>
    /\ answer' = Outcomes(walk, Said)
    /\ receiver' = StoredBack(walk, Said)
    /\ UNCHANGED <<walk, closureCalls, pending>>

IterationNext ==
    \/ walk = NoWalk /\ \E w \in ListWalks \cup MapWalks \cup NumberWalks : StartWalk(w)
    \/ Returns \/ Puts \/ Raises \/ Unwinds \/ Catches \/ Ends
IterationSpec == IterationInit /\ [][IterationNext]_walkVars
=============================================================================
