------------------------------ MODULE MCWalks ------------------------------
(***************************************************************************)
(* The calls made: every method that calls a closure, on small receivers,  *)
(* with a closure that answers anything, raises or writes to the receiver. *)
(***************************************************************************)
EXTENDS WalkLaws

LOCAL pair == ListV(<<IntV(1), IntV(2)>>)
LOCAL base ==
    [kind |-> "list", method |-> "each", items |-> <<>>, copied |-> <<>>, clo |-> [params |-> 1, min |-> 1], plain |-> FALSE,
     seed |-> Null, from |-> 0, lo |-> 0, hi |-> 0, to |-> 0, by |-> 0, fraction |-> FALSE, key |-> Null, value |-> Null]
LOCAL one == [params |-> 1, min |-> 1]
LOCAL two == [params |-> 2, min |-> 2]
LOCAL twoOrOne == [params |-> 2, min |-> 1]
LOCAL three == [params |-> 3, min |-> 3]
LOCAL On(kind, m, items, clo) == [base EXCEPT !.kind = kind, !.method = m, !.items = items, !.clo = clo]

LOCAL Lists == {<<>>, <<IntV(1)>>, <<pair, IntV(0)>>, <<IntV(1), IntV(2), IntV(1)>>}
LOCAL ItemMethods ==
    {"each", "reverseEach", "collect", "collectMany", "collectEntries", "findResults", "grep", "findAll", "split", "count",
     "findIndexValues", "groupBy", "countBy", "removeAll", "retainAll", "removeIf", "any", "every", "find", "findIndexOf",
     "findLastIndexOf", "findResult", "takeWhile", "dropWhile"}
LOCAL Distinct == {<<>>, <<IntV(1)>>, <<IntV(1), IntV(2)>>, <<IntV(1), IntV(2), IntV(3)>>}
MCListWalks ==
    {On("list", m, items, clo) : m \in ItemMethods, items \in Lists, clo \in {one, two}}
        \cup {On("list", m, <<pair, IntV(0)>>, twoOrOne) : m \in {"each", "collect"}}
        \cup {On("list", "eachWithIndex", items, two) : items \in Lists}
        \cup {[On("list", "findIndexValues", items, one) EXCEPT !.from = 1] : items \in {<<IntV(1)>>, <<IntV(1), IntV(2), IntV(1)>>}}
        \cup {[On("list", "sum", items, one) EXCEPT !.seed = Unanswered] : items \in Lists}
        \cup {[On("list", "inject", items, two) EXCEPT !.seed = s] : items \in Lists, s \in {Unanswered, IntV(0)}}
        \cup {On("list", m, items, one) : m \in {"eachPermutation", "permutations"}, items \in {<<>>, <<IntV(1)>>, <<IntV(1), IntV(2)>>, <<IntV(1), IntV(1)>>}}
        \cup {[On("list", "partitionPoint", items, one) EXCEPT !.hi = Len(items)] : items \in Distinct}
        \cup {[On("list", m, items, one) EXCEPT !.plain = TRUE] : m \in {"grep", "findAll", "find", "any", "every", "collect", "collectEntries", "findResults"}, items \in Lists}
        \cup {[On("list", "count", items, one) EXCEPT !.plain = TRUE, !.value = IntV(1)] : items \in Lists}
        \cup {On("list", m, items, clo) : m \in Orderings, items \in Distinct, clo \in {one, two}}

LOCAL Entries == {<<>>, <<EntryV(IntV(1), IntV(1))>>, <<EntryV(IntV(1), IntV(0)), EntryV(IntV(2), IntV(1))>>}
LOCAL EntryMethods ==
    {"each", "eachWithIndex", "reverseEach", "grep", "collectMany", "collectEntries", "collect", "findAll", "find", "any", "every", "takeWhile",
     "dropWhile", "groupBy", "findResult", "findResults", "count", "countBy", "removeAll", "retainAll", "forEach", "replaceAll"}
MCMapWalks ==
    {On("map", m, items, clo) : m \in EntryMethods, items \in Entries, clo \in {one, two}}
        \cup {On("map", "eachWithIndex", items, three) : items \in Entries}
        \cup {[On("map", "inject", items, clo) EXCEPT !.seed = IntV(0)] : items \in Entries, clo \in {two, three}}
        \cup {[On("map", m, items, one) EXCEPT !.plain = TRUE] : m \in {"findAll", "find", "any", "every"}, items \in Entries}
        \cup {On("map", m, items, clo) : m \in {"sort", "max", "min"}, items \in Entries, clo \in {one, two}}
        \cup {[On("map", m, items, two) EXCEPT !.key = k, !.value = IntV(1)] : m \in Computers, items \in Entries, k \in {IntV(1), IntV(2)}}

LOCAL Long == -LongHalf .. LongHalf - 1
MCNumberWalks ==
    {[On("number", m, <<>>, one) EXCEPT !.from = f, !.to = t, !.by = b] :
        m \in {"times", "upto", "downto"}, f \in Long, t \in Long, b \in {0}}
      \cup {[On("number", "step", <<>>, one) EXCEPT !.from = f, !.to = t, !.by = b] : f \in Long, t \in Long, b \in {-3, -1, 1, 2}}
      \cup {[On("number", "step", <<>>, one) EXCEPT !.from = f, !.to = t, !.by = b, !.fraction = TRUE] : f \in {-10, 10}, t \in {-12, 0, 13}, b \in {-5, 7}}

MCAnswers == {Null, IntV(0), IntV(1), pair, MapV(<<EntryV(IntV(1), IntV(0))>>)}
MCOrderAnswers == {IntV(-1), IntV(0), IntV(1)}
=============================================================================
