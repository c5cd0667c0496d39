------------------------------ MODULE WalkLaws ------------------------------
(***************************************************************************)
(* What the methods that run a closure promise, said over the calls that   *)
(* were made of it.                                                        *)
(***************************************************************************)
EXTENDS Iteration

Asked == Len(closureCalls)
Finished == walk # NoWalk /\ answer # Unanswered
AnswersGiven == [i \in DOMAIN closureCalls |-> closureCalls[i].says]
NoRaise == pending = 0 /\ \A i \in DOMAIN closureCalls : ~closureCalls[i].raises

\* host.rs: "Host-side loops that drive user code (GDK iteration, ...) must
\* stop as soon as one is" in flight: the call that raised is the last one.
HostLoopsStop == \A i \in DOMAIN closureCalls : closureCalls[i].raises => i = Asked

\* Every loop that does not order elements stops so, answers nothing, hands on
\* the exception its own call raised, and leaves in the receiver what the
\* closure had put there, or what its completed turns had written.
LeftByCalls ==
    LET put == IF \E i \in DOMAIN closureCalls : closureCalls[i].puts THEN <<Extra>> ELSE <<>>
        wrote(e) == IF walk.method = "replaceAll" /\ \E i \in DOMAIN closureCalls : ~closureCalls[i].raises /\ closureCalls[i].args[1] = e[2]
                    THEN EntryV(e[2], closureCalls[CHOOSE i \in DOMAIN closureCalls : closureCalls[i].args[1] = e[2]].says) ELSE e
    IN  [i \in DOMAIN walk.copied |-> wrote(walk.copied[i])] \o put
RaiseEndsTheWalk ==
    (walk # NoWalk /\ walk.method \notin Orderings) =>
        \A i \in DOMAIN closureCalls : closureCalls[i].raises =>
            /\ i = Asked /\ pending = i /\ answer = Null
            /\ walk.kind = "map" => receiver = LeftByCalls

-----------------------------------------------------------------------------
\* The elements at some positions, in order.
ElementsAt(S) == LET order == SetToSortSeq(S, <) IN [i \in DOMAIN order |-> walk.items[order[i]]]
Keep(S) == IF walk.kind = "map" /\ walk.method # "grep" THEN MapV(ElementsAt(S)) ELSE ListV(ElementsAt(S))
FirstSeen(keys) == SetToSortSeq({CHOOSE i \in DOMAIN keys : keys[i] = k /\ \A j \in 1 .. i - 1 : keys[j] # k : k \in ToSet(keys)}, <)
Keyed(keys, value(_)) == LET at == FirstSeen(keys) IN [i \in DOMAIN at |-> EntryV(keys[at[i]], value({j \in DOMAIN keys : keys[j] = keys[at[i]]}))]

PairsGiven == FlattenSeq([i \in DOMAIN closureCalls |-> EntryPairs(closureCalls[i].says)])

\* What each method's documentation says it answers, over the answers given.
Documented(says) ==
    LET accepted == {i \in DOMAIN says : Truthy(says[i])}
        rejected == DOMAIN says \ accepted
        m == walk.method
        n == Len(walk.items)
        pairs == PairsGiven
    IN  CASE m \in {"each", "eachWithIndex", "reverseEach"} -> <<"receiver">>
          [] m = "eachPermutation" -> <<"generator">>
          [] m \in {"forEach", "replaceAll"} -> Null
          [] m \in {"collect", "permutations"} -> ListV(says)
          [] m = "collectMany" -> ListV(FlattenSeq([i \in DOMAIN says |-> IterationElements(says[i])]))
          [] m = "collectEntries" -> MapV(Keyed([i \in DOMAIN pairs |-> pairs[i][2]], LAMBDA S : pairs[Max(S)][3]))
          [] m = "findResults" -> ListV(SelectSeq(says, LAMBDA v : v # Null))
          [] m \in {"findAll", "grep"} -> Keep(accepted)
          [] m = "split" -> ListV(<<ElementsAt(accepted), ElementsAt(rejected)>>)
          [] m = "count" -> IntV(Cardinality(accepted))
          [] m = "findIndexValues" -> ListV([i \in 1 .. Cardinality(accepted) |-> IntV(walk.from + SetToSortSeq(accepted, <)[i] - 1)])
          [] m = "groupBy" -> MapV(Keyed(says, ElementsAt))
          [] m = "countBy" -> MapV(Keyed(says, Cardinality))
          [] m = "any" -> BoolV(accepted # {})
          [] m = "every" -> BoolV(rejected = {})
          [] m = "find" -> IF accepted = {} THEN Null ELSE walk.items[Min(accepted)]
          [] m = "findIndexOf" -> IntV(IF accepted = {} THEN -1 ELSE Min(accepted) - 1)
          [] m = "findLastIndexOf" -> IntV(Max(accepted \cup {0}) - 1)
          [] m = "findResult" -> IF says # <<>> /\ Last(says) # Null THEN Last(says) ELSE walk.seed
          [] m = "takeWhile" -> Keep(1 .. Min(rejected \cup {n + 1}) - 1)
          [] m = "dropWhile" -> Keep(Min(rejected \cup {n + 1}) .. n)
          [] m = "inject" -> IF says = <<>> THEN walk.seed ELSE Last(says)
          [] m \in Removers -> BoolV((IF m = "retainAll" THEN rejected ELSE accepted) # {})

\* The calls a method needs: the elements up to the one that decides.
Needed(says) ==
    LET decisive == {i \in DOMAIN says :
            CASE walk.method \in {"any", "find", "findIndexOf"} -> Truthy(says[i])
              [] walk.method \in {"every", "takeWhile", "dropWhile"} -> ~Truthy(says[i])
              [] walk.method = "findResult" -> says[i] # Null
              [] OTHER -> FALSE}
    IN  Min(decisive \cup {Len(walk.items)})

\* The methods whose closure takes a list or an entry apart.
SpreadsItems == walk.method \notin {"groupBy", "sum", "inject", "eachWithIndex", "grep"} \cup Orderings \cup Computers
TakesApart(c) ==
    /\ (walk.kind = "list" /\ walk.clo.min >= 2 /\ SpreadsItems) => Len(c.args) # 1 \/ c.args[1][1] # "list"
    /\ (walk.kind = "map" /\ walk.clo.params >= 2 /\ SpreadsItems) => Len(c.args) >= 2

ByElement == walk.kind # "number" /\ walk.method \notin Orderings \cup Computers \cup {"partitionPoint", "sum"}
AnswersAsDocumented ==
    (Finished /\ NoRaise) =>
        /\ (ByElement /\ ~walk.plain) => /\ answer = Documented(AnswersGiven)
                                         /\ Asked = Needed(AnswersGiven)
        /\ walk.method = "inject" => \A i \in 2 .. Asked : closureCalls[i].args[1] = closureCalls[i - 1].says
        /\ walk.plain => \E says \in {[i \in DOMAIN walk.items |-> IF walk.method = "count" THEN BoolV(walk.items[i] = walk.value) ELSE walk.items[i]]} :
                             (walk.method \notin {"sum", "findAll", "collectEntries"}) => answer = Documented(says)
        /\ \A i \in DOMAIN closureCalls : TakesApart(closureCalls[i])
        /\ (walk.method = "partitionPoint" /\ \E cut \in walk.lo .. walk.hi : \A i \in DOMAIN closureCalls :
                Truthy(closureCalls[i].says) = (\E j \in walk.lo .. cut - 1 : closureCalls[i].args = ItemArgs(walk.clo, walk.items[j + 1])))
           => /\ answer[2] \in walk.lo .. walk.hi
              /\ \A i \in DOMAIN closureCalls : Truthy(closureCalls[i].says) = (\E j \in walk.lo .. answer[2] - 1 : closureCalls[i].args = ItemArgs(walk.clo, walk.items[j + 1]))

-----------------------------------------------------------------------------
\* Whatever total preorder the answers of a comparator or a key closure agree
\* with, sort is stable for it, max and min keep the first of the extremes and
\* unique the first of each class.
Ranks == [ToSet(walk.items) -> 0 .. 2]
AgreesWith(rank) ==
    IF walk.clo.params >= 2
    THEN \A i \in DOMAIN closureCalls : SignOf(closureCalls[i].says[2]) = SignOf(rank[closureCalls[i].args[1]] - rank[closureCalls[i].args[2]])
    ELSE \A i \in DOMAIN closureCalls : closureCalls[i].says[2] = rank[closureCalls[i].args[1]]
PositionIn(s, v) == CHOOSE i \in DOMAIN s : s[i] = v
InOrder(out, rank) ==
    \A i, j \in DOMAIN out : i < j =>
        \/ rank[out[i]] < rank[out[j]]
        \/ rank[out[i]] = rank[out[j]] /\ PositionIn(walk.items, out[i]) < PositionIn(walk.items, out[j])
OrdersByTheClosure ==
    (Finished /\ NoRaise /\ walk.method \in Orderings) =>
        \A rank \in Ranks : AgreesWith(rank) =>
            CASE walk.method \in {"sort", "toSorted"} ->
                   Len(answer[2]) = Len(walk.items) /\ ToSet(answer[2]) = ToSet(walk.items) /\ InOrder(answer[2], rank)
              [] walk.method \in {"unique", "toUnique"} ->
                   answer[2] = SelectSeq(walk.items, LAMBDA v : \A u \in ToSet(walk.items) :
                                   (rank[u] = rank[v] /\ u # v) => PositionIn(walk.items, v) < PositionIn(walk.items, u))
              [] OTHER ->
                   LET sign == IF walk.method = "max" THEN 1 ELSE -1
                       best == {i \in DOMAIN walk.items : \A j \in DOMAIN walk.items :
                                    sign * (rank[walk.items[i]] - rank[walk.items[j]]) >= 0}
                   IN  answer = IF best = {} THEN Null ELSE walk.items[Min(best)]

\* A method of a map writes the keys it was called for and no other: what the
\* closure put into the map meanwhile is still there.
JudgedOut == {walk.items[i][2] : i \in {j \in DOMAIN closureCalls : Truthy(closureCalls[j].says) # (walk.method = "retainAll")}}
KeepsWhatTheClosurePut ==
    (Finished /\ NoRaise /\ walk.kind = "map") =>
        CASE walk.method \in Removers -> receiver = Without(LeftByCalls, JudgedOut)
          [] walk.method \in Computers ->
               /\ Without(receiver, {walk.key}) = Without(LeftByCalls, {walk.key})
               /\ At(receiver, walk.key) = IF walk.method = "computeIfAbsent" /\ answer = Null THEN At(walk.copied, walk.key) ELSE answer
          [] OTHER -> receiver = LeftByCalls

-----------------------------------------------------------------------------
\* A number loop runs for the values a counting loop would, each once, unless
\* the step past the last one wraps.
IsCounting == walk.kind = "number" /\ pending # HostRaised
Value(n) == IF walk.method = "times" THEN n ELSE walk.from + n * (IF walk.method = "step" THEN walk.by ELSE IF walk.method = "upto" THEN 1 ELSE -1)
InSpan(v) ==
    CASE walk.method = "times" -> v < Wrap(walk.from, IntHalf)
      [] walk.method = "upto" -> v <= walk.to
      [] walk.method = "downto" -> v >= walk.to
      [] OTHER -> IF walk.by > 0 THEN v < walk.to ELSE v > walk.to
CountsAsWritten ==
    IsCounting =>
        LET counted == {n \in 0 .. MaxAsked : InSpan(Value(n))}
            wraps == \E n \in counted : Value(n + 1) # Wrap(Value(n + 1), LongHalf)
        IN  /\ \A i \in DOMAIN closureCalls : ~wraps => i - 1 \in counted /\ closureCalls[i].args = <<IntV(Value(i - 1))>>
            /\ (Finished /\ pending = 0 /\ ~wraps) => Asked = Cardinality(counted)
=============================================================================
