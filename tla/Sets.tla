-------------------------------- MODULE Sets --------------------------------
(***************************************************************************)
(* src/src/host.rs: java.util's sets.  A set keeps its elements in a       *)
(* sequence beside an index from an element's key to the positions that    *)
(* hold one of that key; the index is off once an element has no key.  The *)
(* kind says which equality makes two elements one and in which order they *)
(* are presented.  A view writes through to the set or refuses.            *)
(*                                                                         *)
(* What the values are is Equality's matter: here their equalities, keys,  *)
(* hashes and orders are parameters.                                       *)
(***************************************************************************)
EXTENDS Integers, Sequences, SequencesExt, FiniteSets, FiniteSetsExt

CONSTANTS SetValues,           \* the values put in a set and looked for
          SetArguments,        \* the lists of them it is combined with
          SetKinds,            \* the kinds of set: [impl, req]
          MaxElements,         \* bound on the elements of a set
          MaxSetCalls,         \* bound on the calls made on it
          EqualUnder(_, _, _), \* SetEq::equal: the equality, two values
          KeyUnder(_, _),      \* SetEq::key: the equality, a value
          Keyless,             \* its answer for a value without a key
          HashOf(_),           \* hashCode, below 2^16
          HashKnown(_),        \* java_hash answers for the value
          Comparables,         \* the values a set puts in order
          OrderOf(_, _),       \* natural_order
          ComparatorKey(_)     \* what the comparator closure goes by

SetEqs == {"groovy", "java"}
Kinds == [impl : {"linked", "hash", "tree", "treeby"}, req : Nat]

ASSUME SetsAssumption ==
    /\ SetKinds \subseteq Kinds /\ SetArguments \subseteq Seq(SetValues)
    /\ \A v \in SetValues : HashOf(v) \in Nat
\* "Two values this equality calls equal always share a key."
ASSUME EqualityAssumption ==
    \A eq \in SetEqs : \A a, b \in SetValues :
       /\ EqualUnder(eq, a, b) => EqualUnder(eq, b, a)
       /\ EqualUnder(eq, a, b) => KeyUnder(eq, a) = KeyUnder(eq, b) \/ Keyless \in {KeyUnder(eq, a), KeyUnder(eq, b)}
\* The numbers, NaN aside, are in one order, up to those that are equal.
ASSUME OrderAssumption ==
    LET below(a, b) == OrderOf(a, b) < 0
    IN  /\ \A v \in Comparables : ComparatorKey(v) \in Int
        /\ \A a, b \in Comparables : /\ below(a, b) => ~below(b, a)
                                     /\ below(a, b) \/ below(b, a) \/ EqualUnder("groovy", a, b)
        /\ \A a, b, c \in Comparables : below(a, c) => below(a, b) \/ below(b, c)

VARIABLES setKind,        \* a member of SetKinds
          setItems,       \* the elements, in the order they were added
          setIndex,       \* whether it is on, and key -> positions
          table,          \* java.util.HashMap's own table, for OrderedAsJava
          removed,        \* an element was removed from that table
          setCalls

setVars == <<setKind, setItems, setIndex, table, removed, setCalls>>

\* SetEq::of.
EqOf(kind) == IF kind.impl \in {"tree", "treeby"} THEN "groovy" ELSE "java"
Same(kind, a, b) == EqualUnder(EqOf(kind), a, b)

\* SetIndex.
Index(on, at) == [on |-> on, at |-> at]
IndexOff == Index(FALSE, [k \in {} |-> {}])
Recorded(index, key, pos) ==
    IF ~index.on \/ key = Keyless THEN IndexOff
    ELSE Index(TRUE, [k \in DOMAIN index.at \cup {key} |-> {i \in {pos} : k = key} \cup UNION {index.at[j] : j \in DOMAIN index.at \cap {k}}])
BuildIndex(items, eq) ==
    LET keys == {KeyUnder(eq, items[i]) : i \in DOMAIN items}
    IN  IF Keyless \in keys THEN IndexOff ELSE Index(TRUE, [k \in keys |-> {i \in DOMAIN items : KeyUnder(eq, items[i]) = k}])
\* find: the positions to look at, all of them when the index cannot say.
Candidates(index, items, eq, probe) ==
    LET key == KeyUnder(eq, probe)
    IN  IF ~index.on \/ key = Keyless THEN DOMAIN items ELSE IF key \in DOMAIN index.at THEN index.at[key] ELSE {}
IndexMember(index, items, eq, probe) == \E i \in Candidates(index, items, eq, probe) : i \in DOMAIN items /\ EqualUnder(eq, items[i], probe)
\* A list under an index of its own.
Has(items, eq, probe) == IndexMember(BuildIndex(items, eq), items, eq, probe)

\* dedup_values.
Once(out, eq, v) == IF Has(out, eq, v) THEN out ELSE Append(out, v)
Dedup(items, eq) ==
    LET upTo[n \in 0 .. Len(items)] == IF n = 0 THEN <<>> ELSE Once(upTo[n - 1], eq, items[n])
    IN  upTo[Len(items)]

\* comparator_order, for a set ordered by a closure.
ComparatorOrder(a, b) == ComparatorKey(a) - ComparatorKey(b)
Position(items, probe) == {i \in DOMAIN items : ComparatorOrder(items[i], probe) = 0}
Pushed(out, v) == IF Position(out, v) = {} THEN Append(out, v) ELSE out
PushedBy(items, more) ==
    LET upTo[n \in 0 .. Len(more)] == IF n = 0 THEN items ELSE Pushed(upTo[n - 1], more[n])
    IN  upTo[Len(more)]
IsMember(probe) ==
    IF setKind.impl = "treeby" THEN Position(setItems, probe) # {} ELSE IndexMember(setIndex, setItems, EqOf(setKind), probe)

\* The members of S along an order of them, a set of pairs.
Ranked(S, before) == [k \in 1 .. Cardinality(S) |-> CHOOSE i \in S : Cardinality({j \in S : <<j, i>> \in before}) = k - 1]
Earlier(S) == {p \in S \X S : p[1] < p[2]}
\* filter: the elements at some positions.
Picked(s, keep) == LET at == Ranked(keep, Earlier(keep)) IN [k \in DOMAIN at |-> s[at[k]]]
\* sort_by: stable, so positions not below each other stay as they are.
Stably(S, below) == {p \in S \X S : p \in below \/ (<<p[2], p[1]>> \notin below /\ p[1] < p[2])}
SortedBy(s, below) == LET at == Ranked(DOMAIN s, Stably(DOMAIN s, below)) IN [k \in DOMAIN at |-> s[at[k]]]

\* table_size_for, and hash_order's loop: a capacity doubles while it is small.
Doubling(small) == LET from[c \in Nat \ {0}] == IF c \in small THEN from[2 * c] ELSE c IN from
TableSizeFor(n) == Doubling({c \in Nat : c < n})[1]
Full(n, cap) == n > (cap * 3) \div 4
Doubled(n, cap) == Doubling({c \in Nat : Full(n, c)})[cap]
\* A value java_hash has no answer for stays in bucket 0.
BucketOf(v, cap) == IF HashKnown(v) THEN HashOf(v) % cap ELSE 0
PairsOf(items) == (DOMAIN items) \X (DOMAIN items)
HashOrderIn(items, cap) == SortedBy(items, {p \in PairsOf(items) : BucketOf(items[p[1]], cap) < BucketOf(items[p[2]], cap)})
HashOrderAsAsked(items, req) == HashOrderIn(items, TableSizeFor(req))
HashOrder(items, req) == HashOrderIn(items, Doubled(Len(items), TableSizeFor(req)))
SetElements(items, kind) ==
    CASE kind.impl = "linked" -> items
      [] kind.impl = "hash" -> HashOrder(items, kind.req)
      [] kind.impl = "tree" -> SortedBy(items, {p \in PairsOf(items) : OrderOf(items[p[1]], items[p[2]]) < 0})
      [] kind.impl = "treeby" -> SortedBy(items, {p \in PairsOf(items) : ComparatorOrder(items[p[1]], items[p[2]]) < 0})

\* java.util.HashMap: a power-of-two table of chains, which only grows: each
\* chain splits in two, in its order.
TableOf(req) == [cap |-> TableSizeFor(req), size |-> 0, chains |-> [b \in 0 .. TableSizeFor(req) - 1 |-> <<>>]]
Split(t) ==
    LET old(b) == t.chains[b % t.cap]
    IN  [cap |-> 2 * t.cap, size |-> t.size,
         chains |-> [b \in 0 .. 2 * t.cap - 1 |-> Picked(old(b), {i \in DOMAIN old(b) : BucketOf(old(b)[i], 2 * t.cap) = b})]]
Chained(t, v) == [cap |-> t.cap, size |-> t.size + 1, chains |-> [t.chains EXCEPT ![BucketOf(v, t.cap)] = Append(@, v)]]
Put(t, v) == IF Full(t.size + 1, t.cap) THEN Split(Chained(t, v)) ELSE Chained(t, v)
\* The elements after the first ones, put in their order.
PutAll(t, from, items) ==
    LET upTo[n \in 0 .. Len(items) - from] == IF n = 0 THEN t ELSE Put(upTo[n - 1], items[from + n])
    IN  upTo[Len(items) - from]
Without(t, items) ==
    [t EXCEPT !.size = Len(items), !.chains = [b \in DOMAIN t.chains |-> Picked(t.chains[b], {i \in DOMAIN t.chains[b] : t.chains[b][i] \in ToSet(items)})]]
Places(t) == UNION {{b} \X (DOMAIN t.chains[b]) : b \in DOMAIN t.chains}
Chainwise(S) == {p \in S \X S : p[1][1] < p[2][1] \/ (p[1][1] = p[2][1] /\ p[1][2] < p[2][2])}
Iterated(t) == LET at == Ranked(Places(t), Chainwise(Places(t))) IN [k \in DOMAIN at |-> t.chains[at[k][1]][at[k][2]]]

Writable(via) == via = "set"            \* set_push and set_store ask write_refused first
\* set_store rebuilds the index over what it stores.
StoreIndexKept(via, items, eq) == setIndex
StoreIndex(via, items, eq) == IF Writable(via) THEN BuildIndex(items, eq) ELSE setIndex
Store(via, items) ==
    /\ setIndex' = StoreIndex(via, items, EqOf(setKind))
    /\ setItems' = IF Writable(via) THEN items ELSE setItems
SetPush(via, v) ==
    /\ setItems' = IF Writable(via) THEN Append(setItems, v) ELSE setItems
    /\ setIndex' = IF Writable(via) THEN Recorded(setIndex, KeyUnder(EqOf(setKind), v), Len(setItems) + 1) ELSE setIndex
    /\ table' = IF Writable(via) THEN Put(table, v) ELSE table
Shrinks(via, items) ==
    LET fewer == Writable(via) /\ Len(items) < Len(setItems)
    IN  table' = (IF fewer THEN Without(table, items) ELSE table) /\ removed' = (removed \/ fewer)
Counted == setCalls < MaxSetCalls /\ setCalls' = setCalls + 1 /\ UNCHANGED setKind

\* dispatch_set_fast, dispatch_tree_by and dispatch_set_method.
AddTo(via, v) ==
    /\ Counted /\ Len(setItems) < MaxElements
    /\ IF IsMember(v) THEN UNCHANGED <<setItems, setIndex, table>> ELSE SetPush(via, v)
    /\ UNCHANGED removed
\* The positions a removal leaves: all but the first the comparator finds, or
\* those of the elements the equality tells from the value.
Left(v) ==
    IF setKind.impl = "treeby" THEN DOMAIN setItems \ {Min(Position(setItems, v))}
    ELSE {i \in DOMAIN setItems : ~Same(setKind, setItems[i], v)}
RemoveFrom(via, v) ==
    /\ Counted
    /\ IF setKind.impl = "treeby" /\ Position(setItems, v) = {} THEN UNCHANGED <<setItems, setIndex, table, removed>>
       ELSE \E kept \in {Picked(setItems, Left(v))} : Store(via, kept) /\ Shrinks(via, kept)
AddAllTo(via, more) ==
    /\ Counted
    /\ \E added \in {IF setKind.impl = "treeby" THEN PushedBy(setItems, more) ELSE Dedup(setItems \o more, EqOf(setKind))} :
           /\ Len(added) <= MaxElements
           /\ Store(via, added)
           /\ table' = IF Writable(via) THEN PutAll(table, Len(setItems), added) ELSE table
           /\ UNCHANGED removed
\* The positions of the elements a list has, under an equality or, in a set
\* ordered by a closure, as its comparator says.
PositionsHeld(items, eq, list) == {i \in DOMAIN items : Has(list, eq, items[i])}
PositionsMatched(items, list) == {i \in DOMAIN items : \E j \in DOMAIN list : ComparatorOrder(items[i], list[j]) = 0}
RemoveAllFrom(via, less) ==
    /\ Counted
    /\ \E kept \in {IF setKind.impl = "treeby" THEN Picked(setItems, DOMAIN setItems \ PositionsMatched(setItems, less))
                     ELSE Dedup(Picked(setItems, DOMAIN setItems \ PositionsHeld(setItems, EqOf(setKind), less)), EqOf(setKind))} :
          Store(via, kept) /\ Shrinks(via, kept)
RetainAllOf(via, those) ==
    /\ Counted
    /\ \E kept \in {Dedup(Picked(setItems, PositionsHeld(setItems, EqOf(setKind), those)), EqOf(setKind))} :
          Store(via, kept) /\ Shrinks(via, kept)
ClearSet(via) == Counted /\ Store(via, <<>>) /\ Shrinks(via, <<>>)

\* make_set: the operators answer a new set of the same kind, over the
\* elements in the order the old one presents them.
MakeSet(items) ==
    \E once \in {Dedup(items, EqOf(setKind))} :
        /\ Len(once) <= MaxElements
        /\ setItems' = once
        /\ setIndex' = BuildIndex(once, EqOf(setKind))
        /\ table' = PutAll(TableOf(setKind.req), 0, once)
        /\ removed' = FALSE
Presented == SetElements(setItems, setKind)
PlusSet(more) == Counted /\ MakeSet(IF setKind.impl = "treeby" THEN PushedBy(setItems, more) ELSE Presented \o more)
MinusSet(less) ==
    /\ Counted
    /\ MakeSet(IF setKind.impl = "treeby" THEN Picked(setItems, DOMAIN setItems \ PositionsMatched(setItems, less))
               ELSE Picked(Presented, DOMAIN Presented \ PositionsHeld(Presented, "groovy", less)))
IntersectSet(those) == Counted /\ MakeSet(Picked(Presented, PositionsHeld(Presented, "groovy", those)))

\* A set that orders its elements holds values that have an order.
Given == {v \in SetValues : setKind.impl \in {"tree", "treeby"} => v \in Comparables}
SetInit ==
    /\ setKind \in SetKinds
    /\ setItems = <<>> /\ setIndex = BuildIndex(<<>>, EqOf(setKind))
    /\ table = TableOf(setKind.req)
    /\ removed = FALSE /\ setCalls = 0
SetNext ==
    \/ \E via \in {"set", "view"} : ClearSet(via) \/ \E v \in Given : AddTo(via, v) \/ RemoveFrom(via, v)
    \/ \E vs \in SetArguments \cap Seq(Given) : \/ AddAllTo("set", vs) \/ RemoveAllFrom("set", vs) \/ RetainAllOf("set", vs)
                                                \/ PlusSet(vs) \/ MinusSet(vs) \/ IntersectSet(vs)
SetSpec == SetInit /\ [][SetNext]_setVars

OneElement(a, b) == IF setKind.impl = "treeby" THEN ComparatorOrder(a, b) = 0 ELSE Same(setKind, a, b)
\* After any calls, on the set or on a view of it, a set finds exactly the
\* values a scan of its elements finds, holds no two elements that are one,
\* and its index, while it is on, names the positions of every element and
\* no others.
IndexFindsWhatAScanFinds ==
    /\ \A i, j \in DOMAIN setItems : i # j => ~OneElement(setItems[i], setItems[j])
    /\ \A v \in Given : IsMember(v) = \E i \in DOMAIN setItems : OneElement(setItems[i], v)
    /\ \A k \in DOMAIN setIndex.at : \A i \in setIndex.at[k] : i \in DOMAIN setItems /\ KeyUnder(EqOf(setKind), setItems[i]) = k
    /\ setIndex.on => \A i \in DOMAIN setItems : \E k \in DOMAIN setIndex.at : i \in setIndex.at[k]

\* A set presents its elements once each, in insertion order, in its
\* comparator's, or in the order of java.util.HashMap's buckets.
OrderedAsJava ==
    LET shown == Presented
    IN  /\ Len(shown) = Len(setItems) /\ ToSet(shown) = ToSet(setItems)
        /\ (setKind.impl = "hash" /\ ~removed /\ \A v \in ToSet(shown) : HashKnown(v)) => shown = Iterated(table)
        /\ setKind.impl = "tree" => \A i \in 1 .. Len(shown) - 1 : OrderOf(shown[i], shown[i + 1]) < 0
        /\ setKind.impl = "treeby" => \A i \in 1 .. Len(shown) - 1 : ComparatorOrder(shown[i], shown[i + 1]) < 0
\* host.rs, hash_order: a set iterates as the JDK lays its entries out; a
\* table of the JDK does not shrink when its elements go.
IteratesAsTheTable == setKind.impl = "hash" => Presented = Iterated(table)
=============================================================================
