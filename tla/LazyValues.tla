----------------------------- MODULE LazyValues -----------------------------
(***************************************************************************)
(* Values src/src/host.rs computes on demand with a closure and keeps: the *)
(* answers of a memoized closure, the entries of a map withDefault and the *)
(* elements of a list withDefault (lazy or eager).  A closure may read any *)
(* key of the same stores, the one it is computing and larger ones too, so *)
(* computations nest; LazyDepth bounds how deep, as the stack does.        *)
(*                                                                         *)
(* A list past its end is read in a loop: the range of indexes is fixed    *)
(* before the first closure runs, and each value is pushed at the end,     *)
(* wherever that is by then.  grownUnder remembers that the list grew      *)
(* while an element that is to be pushed was being computed.               *)
(***************************************************************************)
EXTENDS Integers, Sequences, SequencesExt, FiniteSets

CONSTANTS
    MaxKey,         \* keys are 0 .. MaxKey
    LazyDepth,      \* the most computations in progress
    RaisingStores   \* the stores whose closures may raise: of "memo", "map", "list"

ASSUME MaxKeyAssumption == MaxKey \in Nat

VARIABLES
    eager,          \* the list's kind
    autoGrow,       \* the map's: whether it keeps what its closure answers
    memo,           \* MEMO: key -> answer
    entries,        \* the map's entries
    cells,          \* the list's elements, Gap where it holds null
    computing,      \* the closures running, innermost first
    lazyRaised,     \* an exception is on its way out of them
    answered,       \* <<store, key>> that a closure answered, the last time it ended
    grownUnder      \* the list grew under a computation whose value is pushed

lazyVars == <<eager, autoGrow, memo, entries, cells, computing, lazyRaised, answered, grownUnder>>

LazyKeys == 0 .. MaxKey
Gap == -1
Result(k) == 10 + k           \* what the closure answers for a key

\* A list's value is pushed at the end, or set where the list holds null.
Computation(store, key, upto, pushes) == [store |-> store, key |-> key, upto |-> upto, pushes |-> pushes]
BeginCompute(store, key, upto, pushes) == computing' = <<Computation(store, key, upto, pushes)>> \o computing

Extended(f, k, v) == [x \in DOMAIN f \cup {k} |-> IF x = k THEN v ELSE f[x]]
GapsOf(n) == [i \in 1 .. n |-> Gap]

LazyInit ==
    /\ eager \in BOOLEAN /\ autoGrow \in BOOLEAN
    /\ memo = <<>> /\ entries = <<>> /\ cells = <<>>
    /\ computing = <<>> /\ answered = {}
    /\ lazyRaised = FALSE /\ grownUnder = FALSE

\* The script, or the innermost closure, may read.
MayRead == ~lazyRaised /\ Len(computing) < LazyDepth

\* invoke_derived: a memoized closure is called.
CallMemoized ==
    \E k \in LazyKeys :
      /\ MayRead /\ k \notin DOMAIN memo
      /\ BeginCompute("memo", k, k, FALSE)
      /\ UNCHANGED <<eager, autoGrow, memo, entries, cells, lazyRaised, answered, grownUnder>>

\* A missing key of the map is read: m[k], m.k, m.get(k).
ReadMissing ==
    \E k \in LazyKeys :
      /\ MayRead /\ k \notin DOMAIN entries
      /\ BeginCompute("map", k, k, FALSE)
      /\ UNCHANGED <<eager, autoGrow, memo, entries, cells, lazyRaised, answered, grownUnder>>

\* What was running when the list grew.
GrewUnder(running) ==
    grownUnder' = (grownUnder \/ (Len(cells') > Len(cells) /\ \E i \in DOMAIN running : running[i].pushes))

\* list_default_get: a lazy list fills the gap before the index with nulls,
\* an eager one computes every element on the way.  An index from the end is
\* that of an element the list holds.
FirstMissingRestart(k) == IF eager THEN 0 ELSE k
FirstMissing(k) == IF eager THEN Len(cells) ELSE k
ReadElement ==
    \E k \in LazyKeys :
      /\ MayRead
      /\ IF k >= Len(cells) THEN TRUE ELSE ~eager /\ cells[k + 1] = Gap
      /\ cells' = IF k >= Len(cells) /\ ~eager THEN cells \o GapsOf(k - Len(cells)) ELSE cells
      /\ BeginCompute("list", FirstMissing(k), k, k >= Len(cells))
      /\ GrewUnder(computing)
      /\ UNCHANGED <<eager, autoGrow, memo, entries, lazyRaised, answered>>

\* Where an element goes: at the end, wherever it is, or over the null.
PlacedLast(c, v) == Append(cells, v)
Place(c, v) == IF c.pushes THEN Append(cells, v) ELSE [cells EXCEPT ![c.key + 1] = v]

\* The closure returns and its value is kept.  After a raise invoke_closure
\* answers null: a memo and a map keep that, a list only where it sets one.
KeepValue(c, v, raised) ==
    /\ memo' = IF c.store = "memo" THEN Extended(memo, c.key, v) ELSE memo
    /\ entries' = IF c.store = "map" /\ autoGrow THEN Extended(entries, c.key, v) ELSE entries
    /\ cells' = IF c.store = "list" /\ ~(raised /\ c.pushes) THEN Place(c, v) ELSE cells

BodyReturns ==
    /\ ~lazyRaised /\ computing # <<>>
    /\ LET c == Head(computing)
       IN  /\ KeepValue(c, Result(c.key), FALSE)
           /\ computing' = IF c.key < c.upto THEN <<Computation(c.store, c.key + 1, c.upto, TRUE)>> \o Tail(computing)
                           ELSE Tail(computing)
           /\ answered' = answered \cup {<<c.store, c.key>>}
    /\ GrewUnder(Tail(computing))
    /\ UNCHANGED <<eager, autoGrow, lazyRaised>>

\* The closure raises, or does not take the exception of one it called; a
\* list computes the element again when it is read again.
BodyRaises ==
    /\ computing # <<>> /\ Head(computing).store \in RaisingStores
    /\ KeepValue(Head(computing), Gap, TRUE)
    /\ computing' = Tail(computing)
    /\ lazyRaised' = (Tail(computing) # <<>>)
    /\ answered' = answered \ {<<Head(computing).store, Head(computing).key>>}
    /\ UNCHANGED <<eager, autoGrow, grownUnder>>

BodyCatches == /\ lazyRaised /\ lazyRaised' = FALSE
               /\ UNCHANGED <<eager, autoGrow, memo, entries, cells, computing, answered, grownUnder>>

LazyNext == \/ CallMemoized \/ ReadMissing \/ ReadElement
            \/ BodyReturns \/ BodyRaises \/ BodyCatches

LazySpec == LazyInit /\ [][LazyNext]_lazyVars

-----------------------------------------------------------------------------
\* What a store holds for a key that it holds: null after a raise.
LastAnswer(store, k) == IF <<store, k>> \in answered THEN Result(k) ELSE Gap

\* Whatever the closures read of their own store or another's, a memo and a
\* map hold under each key what its own closure answered (host.rs:5470,
\* 10475).  A list holds no value before its index, an eager one no null, and
\* each value at its index as long as the list did not grow under an element
\* being computed (host.rs:4827-4842).
KeptAreResults ==
    /\ \A k \in DOMAIN memo : memo[k] = LastAnswer("memo", k)
    /\ \A k \in DOMAIN entries : entries[k] = LastAnswer("map", k)
    /\ \A i \in DOMAIN cells :
          /\ cells[i] \in {Gap} \cup {Result(j) : j \in 0 .. i - 1}
          /\ eager => cells[i] # Gap
          /\ grownUnder \/ cells[i] = LastAnswer("list", i - 1)

\* What a closure answered, and did not raise for since, is not computed
\* again, however the reads nest: by a memo and a map that grows never, by a
\* list unless it grew under an element being computed (host.rs:5464, 10461,
\* 4829).
ComputedOnce ==
    [][(computing' # computing /\ Len(computing') >= Len(computing)) =>
          LET c == Head(computing')
          IN  \/ <<c.store, c.key>> \notin answered
              \/ c.store = "list" /\ grownUnder
              \/ c.store = "map" /\ ~autoGrow]_lazyVars

\* host.rs:4803-4805: "past the end the list grows to reach `i` - with nulls
\* and the default at `i` when lazy, with the default at every new position
\* when eager".  So an index whose default was answered holds it.
DefaultsAtTheirIndex ==
    computing = <<>> =>
        \A k \in LazyKeys : <<"list", k>> \in answered => k < Len(cells) /\ cells[k + 1] = Result(k)
=============================================================================
