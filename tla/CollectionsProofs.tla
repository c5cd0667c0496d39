-------------------------- MODULE CollectionsProofs --------------------------
(***************************************************************************)
(* The collections of src/src/host.rs and src/src/host/seq.rs that keep    *)
(* more than their elements.                                               *)
(*                                                                         *)
(* Values computed on demand, for every number of keys, every depth of     *)
(* computations, whichever keys the closures read and whichever of them    *)
(* raise.  A list that grows under an element being computed pushes that   *)
(* element beyond its index: it is never pushed before it, and if the list *)
(* did not grow it is pushed at its index (ListPlaces).  What a closure    *)
(* answered is in its store (AnsweredIsStored), in a list as long as it    *)
(* did not grow so.                                                        *)
(*                                                                         *)
(* The binary heap of PriorityQueue, and the stack and deque, for any      *)
(* elements and bounds: a sift moves an element along a path of places     *)
(* that each lead to the next: the ancestors, or the lesser children.  One *)
(* lemma says what such a shift keeps (ShiftedCounts), one for each        *)
(* direction that it mends a heap out of order at one place (UpOrdered,    *)
(* DownOrdered); construct, add, poll and remove-at follow from them.      *)
(***************************************************************************)
EXTENDS LazyValues, Queues, CommonLemmas, FiniteSetTheorems

Stores == {"memo", "map", "list"}
Results == {Result(k) : k \in LazyKeys}
Kept == Results \cup {Gap}
Computations == [store : Stores, key : LazyKeys, upto : LazyKeys, pushes : BOOLEAN]

TypeOK ==
    /\ eager \in BOOLEAN /\ autoGrow \in BOOLEAN /\ lazyRaised \in BOOLEAN /\ grownUnder \in BOOLEAN
    /\ computing \in Seq(Computations)
    /\ cells \in Seq(Kept)
    /\ memo \in [DOMAIN memo -> Kept] /\ DOMAIN memo \subseteq LazyKeys
    /\ entries \in [DOMAIN entries -> Kept] /\ DOMAIN entries \subseteq LazyKeys
    /\ answered \subseteq Stores \X LazyKeys

\* A computation of a list with n elements, an eager one or not, that grew
\* under an element being computed or not.
Fits(c, isEager, n, grown) ==
    /\ c.key <= c.upto
    /\ c.store # "list" => c.key = c.upto /\ ~c.pushes
    /\ c.store = "list" =>
         /\ IF c.pushes THEN c.key <= n /\ (grown \/ c.key = n) ELSE c.key < n
         /\ IF isEager THEN c.pushes ELSE c.key = c.upto

ListPlaces ==
    \A i \in 1 .. Len(computing) : Fits(computing[i], eager, Len(cells), grownUnder)

Filled(s, k) == k < Len(s) /\ s[k + 1] # Gap
AnsweredIsStored ==
    \A k \in LazyKeys :
      /\ <<"memo", k>> \in answered => k \in DOMAIN memo
      /\ (<<"map", k>> \in answered /\ autoGrow) => k \in DOMAIN entries
      /\ (<<"list", k>> \in answered /\ ~grownUnder) => Filled(cells, k)

OnlyGrowingKeeps == autoGrow \/ DOMAIN entries = {}

IInv == TypeOK /\ ListPlaces /\ AnsweredIsStored /\ OnlyGrowingKeeps /\ KeptAreResults

-----------------------------------------------------------------------------
\* A result is never the gap, and belongs to one key.
LEMMA ResultsKept ==
    /\ \A k \in LazyKeys : k \in Nat /\ Result(k) \in Kept /\ Result(k) # Gap
    /\ Gap \in Kept
BY MaxKeyAssumption DEF Result, Results, Kept, Gap, LazyKeys

\* The invariant holds before anything is computed.
LEMMA LazyInitIInv == LazyInit => IInv
<1> SUFFICES ASSUME LazyInit PROVE IInv
  OBVIOUS
<1>1. <<>> \in [DOMAIN <<>> -> Kept] /\ DOMAIN <<>> = {}
  OBVIOUS
<1>2. memo = <<>> /\ entries = <<>> /\ cells = <<>>
  BY DEF LazyInit
<1>3. /\ memo \in [DOMAIN memo -> Kept] /\ DOMAIN memo \subseteq LazyKeys
      /\ entries \in [DOMAIN entries -> Kept] /\ DOMAIN entries \subseteq LazyKeys
  BY <1>1, <1>2, Zenon
<1>4. /\ eager \in BOOLEAN /\ autoGrow \in BOOLEAN /\ lazyRaised \in BOOLEAN
      /\ grownUnder \in BOOLEAN /\ answered \subseteq Stores \X LazyKeys
      /\ computing \in Seq(Computations) /\ cells \in Seq(Kept)
  BY EmptySeq, Zenon DEF LazyInit
<1>5. TypeOK
  BY <1>3, <1>4, Zenon DEF TypeOK
<1>6. KeptAreResults
  <2>1. DOMAIN memo = {} /\ DOMAIN entries = {} /\ DOMAIN cells = {}
    BY <1>1, <1>2, Zenon
  <2> QED BY <2>1 DEF KeptAreResults
<1>7. OnlyGrowingKeeps
  BY <1>1, <1>2, Zenon DEF OnlyGrowingKeeps
<1> QED BY <1>5, <1>6, <1>7 DEF LazyInit, IInv, ListPlaces, AnsweredIsStored

\* A computation stays in place when the list grows.
LEMMA FitsStays ==
    ASSUME NEW c \in Computations, NEW isEager \in BOOLEAN, NEW n \in Nat, NEW m \in Nat,
           NEW g \in BOOLEAN, NEW h \in BOOLEAN,
           Fits(c, isEager, n, g), n <= m, g => h, m # n /\ c.pushes => h
    PROVE  Fits(c, isEager, m, h)
<1>1. c.key \in Nat /\ c.pushes \in BOOLEAN
  BY ResultsKept DEF Computations
<1>2. CASE c.store = "list"
  <2>1. CASE c.pushes
    <3>1. c.key <= n /\ (g \/ c.key = n)
      BY <1>2, <2>1 DEF Fits
    <3>2. c.key <= m /\ (h \/ c.key = m)
      BY <1>1, <2>1, <3>1
    <3> QED BY <1>2, <2>1, <3>2 DEF Fits
  <2>2. CASE ~c.pushes
    <3>1. c.key < n
      BY <1>2, <2>2 DEF Fits
    <3>2. c.key < m
      BY <1>1, <3>1
    <3> QED BY <1>2, <2>2, <3>2 DEF Fits
  <2> QED BY <2>1, <2>2
<1>3. CASE c.store # "list"
  BY <1>3 DEF Fits
<1> QED BY <1>2, <1>3

\* A lazy list read past its end first grows to the index with gaps.
LEMMA GapsGrow ==
    ASSUME TypeOK, NEW k \in LazyKeys, k >= Len(cells)
    PROVE  /\ cells \o GapsOf(k - Len(cells)) \in Seq(Kept)
           /\ Len(cells) \in Nat
           /\ Len(cells \o GapsOf(k - Len(cells))) = k
           /\ \A i \in 1 .. Len(cells) : (cells \o GapsOf(k - Len(cells)))[i] = cells[i]
           /\ \A i \in Len(cells) + 1 .. k : (cells \o GapsOf(k - Len(cells)))[i] = Gap
<1>1. Len(cells) \in Nat /\ k \in Nat /\ cells \in Seq(Kept)
  BY MaxKeyAssumption, LenProperties DEF TypeOK, LazyKeys
<1> DEFINE gaps == GapsOf(k - Len(cells))
<1>2. gaps \in Seq(Kept) /\ Len(gaps) = k - Len(cells)
      /\ \A i \in 1 .. k - Len(cells) : gaps[i] = Gap
  BY <1>1 DEF GapsOf, Kept
<1> HIDE DEF gaps
<1>3. /\ cells \o gaps \in Seq(Kept) /\ Len(cells \o gaps) = k
      /\ \A i \in 1 .. k : (cells \o gaps)[i] =
                             IF i <= Len(cells) THEN cells[i] ELSE gaps[i - Len(cells)]
  BY <1>1, <1>2, ConcatProperties
<1>4. \A i \in Len(cells) + 1 .. k : (cells \o gaps)[i] = Gap
  BY <1>1, <1>2, <1>3
<1> QED BY <1>1, <1>3, <1>4 DEF gaps

-----------------------------------------------------------------------------
\* The script or the innermost closure begins a computation c; the values
\* stay, but for the gaps that a lazy list gets.
Begins(c) ==
    /\ c \in Computations /\ computing' = <<c>> \o computing
    /\ UNCHANGED <<eager, autoGrow, memo, entries, lazyRaised, answered>>
    /\ cells' \in Seq(Kept) /\ Len(cells) <= Len(cells')
    /\ \A i \in 1 .. Len(cells) : cells'[i] = cells[i]
    /\ \A i \in Len(cells) + 1 .. Len(cells') : cells'[i] = Gap
    /\ Len(cells') # Len(cells) => ~eager
    /\ GrewUnder(computing)
    /\ Fits(c, eager, Len(cells'), grownUnder')

\* What the growth of a list changes of the computations that go on.
LEMMA OthersStay ==
    ASSUME IInv, cells' \in Seq(Kept), Len(cells) <= Len(cells'), grownUnder' \in BOOLEAN,
           NEW i \in 1 .. Len(computing), grownUnder => grownUnder',
           Len(cells') # Len(cells) /\ computing[i].pushes => grownUnder'
    PROVE  computing[i] \in Computations /\ Fits(computing[i], eager, Len(cells'), grownUnder')
<1>1. computing[i] \in Computations /\ eager \in BOOLEAN /\ grownUnder \in BOOLEAN
  BY ElementOfSeq DEF IInv, TypeOK
<1>2. Len(cells) \in Nat /\ Len(cells') \in Nat
  BY LenProperties DEF IInv, TypeOK
<1>3. Fits(computing[i], eager, Len(cells), grownUnder)
  BY DEF IInv, ListPlaces
<1> QED BY <1>1, <1>2, <1>3, FitsStays

\* What begins leaves every answer where it is.
LEMMA BeginKeepsIInv ==
    ASSUME IInv, NEW c, Begins(c)
    PROVE  IInv' /\ Head(computing') = c
<1>1. /\ c \in Computations /\ computing \in Seq(Computations) /\ computing' = <<c>> \o computing
  BY DEF Begins, IInv, TypeOK
<1>2. /\ computing' \in Seq(Computations) /\ Head(computing') = c /\ computing'[1] = c
      /\ Len(computing) \in Nat /\ Len(computing') = Len(computing) + 1
      /\ \A i \in 2 .. Len(computing) + 1 : computing'[i] = computing[i - 1]
  BY <1>1, Push
<1>3. /\ cells \in Seq(Kept) /\ cells' \in Seq(Kept) /\ Len(cells) <= Len(cells')
      /\ Len(cells) \in Nat /\ Len(cells') \in Nat
      /\ DOMAIN cells = 1 .. Len(cells) /\ DOMAIN cells' = 1 .. Len(cells')
      /\ DOMAIN computing = 1 .. Len(computing)
  BY <1>1, LenProperties DEF Begins, IInv, TypeOK
<1>4. /\ grownUnder' \in BOOLEAN /\ (grownUnder => grownUnder')
      /\ \A i \in 1 .. Len(computing) :
            Len(cells') # Len(cells) /\ computing[i].pushes => grownUnder'
  <2>1. grownUnder' = (grownUnder \/ (Len(cells') > Len(cells) /\ \E i \in DOMAIN computing : computing[i].pushes))
    BY DEF Begins, GrewUnder
  <2>2. grownUnder \in BOOLEAN
    BY DEF IInv, TypeOK
  <2>3. grownUnder' \in BOOLEAN /\ (grownUnder => grownUnder')
    BY <2>1, <2>2, Zenon
  <2>4. ASSUME NEW i \in 1 .. Len(computing), Len(cells') # Len(cells), computing[i].pushes
        PROVE  grownUnder'
    <3>0. Len(cells) \in Nat /\ Len(cells') \in Nat /\ Len(cells) <= Len(cells')
      BY <1>3, Zenon
    <3>1. Len(cells') > Len(cells)
      BY <2>4, <3>0
    <3>2. \E j \in DOMAIN computing : computing[j].pushes
      BY <1>3, <2>4, Zenon
    <3> QED BY <2>1, <3>1, <3>2, Zenon
  <2> QED BY <2>3, <2>4
<1>5. UNCHANGED <<eager, autoGrow, memo, entries, lazyRaised, answered>>
  BY DEF Begins
<1>6. TypeOK'
  BY <1>2, <1>3, <1>4, <1>5 DEF IInv, TypeOK
<1>7. ListPlaces'
  <2> SUFFICES ASSUME NEW i \in 1 .. Len(computing')
               PROVE  Fits(computing'[i], eager, Len(cells'), grownUnder')
    BY <1>5 DEF ListPlaces
  <2>1. CASE i = 1
    BY <1>2, <2>1 DEF Begins
  <2>2. CASE i # 1
    <3>1. i - 1 \in 1 .. Len(computing) /\ computing'[i] = computing[i - 1]
      BY <1>2, <2>2
    <3>2. Fits(computing[i - 1], eager, Len(cells'), grownUnder')
      BY <1>3, <1>4, <3>1, OthersStay
    <3> QED BY <3>1, <3>2
  <2> QED BY <2>1, <2>2
<1>8. AnsweredIsStored'
  <2> SUFFICES ASSUME NEW k \in LazyKeys
               PROVE  /\ <<"memo", k>> \in answered => k \in DOMAIN memo
                      /\ (<<"map", k>> \in answered /\ autoGrow) => k \in DOMAIN entries
                      /\ (<<"list", k>> \in answered /\ ~grownUnder') => Filled(cells', k)
    BY <1>5 DEF AnsweredIsStored
  <2>1. Filled(cells, k) => Filled(cells', k)
    <3> SUFFICES ASSUME k < Len(cells), cells[k + 1] # Gap PROVE k < Len(cells') /\ cells'[k + 1] # Gap
      BY DEF Filled
    <3>1. k \in Nat /\ k + 1 \in 1 .. Len(cells)
      BY <1>3, ResultsKept
    <3>2. cells'[k + 1] = cells[k + 1]
      BY <3>1 DEF Begins
    <3> QED BY <1>3, <3>1, <3>2
  <2> QED BY <1>4, <2>1 DEF IInv, AnsweredIsStored
<1>9. KeptAreResults'
  <2>1. \A k \in DOMAIN memo' : memo'[k] = LastAnswer("memo", k)'
    BY <1>5 DEF IInv, KeptAreResults, LastAnswer
  <2>2. \A k \in DOMAIN entries' : entries'[k] = LastAnswer("map", k)'
    BY <1>5 DEF IInv, KeptAreResults, LastAnswer
  <2>3. ASSUME NEW i \in DOMAIN cells'
        PROVE  /\ cells'[i] \in {Gap} \cup {Result(j) : j \in 0 .. i - 1}
               /\ eager => cells'[i] # Gap
               /\ grownUnder' \/ cells'[i] = LastAnswer("list", i - 1)
    <3>0. i \in 1 .. Len(cells')
      BY <1>3, <2>3, Zenon
    <3>1. CASE i <= Len(cells)
      <4>1. i \in 1 .. Len(cells)
        BY <1>3, <3>0, <3>1
      <4>2. i \in DOMAIN cells /\ cells'[i] = cells[i]
        BY <1>3, <4>1, Zenon DEF Begins
      <4> QED BY <1>4, <4>2 DEF IInv, KeptAreResults
    <3>2. CASE ~(i <= Len(cells))
      <4>3. Len(cells) \in Nat /\ Len(cells') \in Nat /\ Len(cells) <= Len(cells')
        BY <1>3, Zenon
      <4>0. i \in Len(cells) + 1 .. Len(cells') /\ Len(cells') # Len(cells)
        BY <3>0, <3>2, <4>3
      <4>1. i \in Len(cells) + 1 .. Len(cells') /\ cells'[i] = Gap /\ ~eager
        BY <4>0, Zenon DEF Begins
      <4>2. ~grownUnder' => <<"list", i - 1>> \notin answered
        <5> SUFFICES ASSUME ~grownUnder', <<"list", i - 1>> \in answered PROVE FALSE
          OBVIOUS
        <5>1. i - 1 \in LazyKeys
          BY DEF IInv, TypeOK
        <5>2. i - 1 < Len(cells)
          BY <1>4, <5>1 DEF IInv, AnsweredIsStored, Filled
        <5> QED BY <1>3, <4>1, <5>2
      <4> QED BY <4>1, <4>2 DEF LastAnswer
    <3> QED BY <3>1, <3>2
  <2> QED BY <1>5, <2>1, <2>2, <2>3 DEF KeptAreResults, LastAnswer, Gap, Result
<1>10. OnlyGrowingKeeps'
  BY <1>5 DEF IInv, OnlyGrowingKeeps
<1> QED BY <1>2, <1>6, <1>7, <1>8, <1>9, <1>10 DEF IInv

\* What is computed was not answered, or it is an element of a list that grew
\* under one being computed, or one that its map does not keep.
NotAnswered(c) ==
    \/ <<c.store, c.key>> \notin answered
    \/ c.store = "list" /\ grownUnder
    \/ c.store = "map" /\ ~autoGrow

\* A call of a memoized closure with arguments that its memo lacks.
LEMMA CallMemoizedBegins ==
    ASSUME IInv, CallMemoized
    PROVE  IInv' /\ NotAnswered(Head(computing'))
<1>1. PICK k \in LazyKeys :
        /\ k \notin DOMAIN memo /\ BeginCompute("memo", k, k, FALSE)
        /\ UNCHANGED <<eager, autoGrow, memo, entries, cells, lazyRaised, answered, grownUnder>>
  BY DEF CallMemoized
<1> DEFINE c == Computation("memo", k, k, FALSE)
<1>2. /\ c \in Computations /\ c.store = "memo" /\ c.key = k /\ c.upto = k /\ ~c.pushes
  BY DEF Computation, Computations, Stores
<1>3. computing' = <<c>> \o computing
  BY <1>1 DEF BeginCompute
<1> HIDE DEF c
<1>4. cells' = cells /\ cells \in Seq(Kept) /\ Len(cells) \in Nat /\ k \in Nat
      /\ grownUnder' = grownUnder /\ grownUnder \in BOOLEAN
  BY <1>1, ResultsKept, LenProperties DEF IInv, TypeOK
<1>5. Fits(c, eager, Len(cells'), grownUnder')
  BY <1>2, <1>4 DEF Fits
<1>6. GrewUnder(computing)
  BY <1>4 DEF GrewUnder
<1>7. Begins(c)
  BY <1>1, <1>2, <1>3, <1>4, <1>5, <1>6 DEF Begins
<1>8. IInv' /\ Head(computing') = c
  BY <1>7, BeginKeepsIInv
<1>9. <<"memo", k>> \notin answered
  BY <1>1 DEF IInv, AnsweredIsStored
<1> QED BY <1>2, <1>8, <1>9 DEF NotAnswered

\* A read of a key that the map lacks.
LEMMA ReadMissingBegins ==
    ASSUME IInv, ReadMissing
    PROVE  IInv' /\ NotAnswered(Head(computing'))
<1>1. PICK k \in LazyKeys :
        /\ k \notin DOMAIN entries /\ BeginCompute("map", k, k, FALSE)
        /\ UNCHANGED <<eager, autoGrow, memo, entries, cells, lazyRaised, answered, grownUnder>>
  BY DEF ReadMissing
<1> DEFINE c == Computation("map", k, k, FALSE)
<1>2. /\ c \in Computations /\ c.store = "map" /\ c.key = k /\ c.upto = k /\ ~c.pushes
  BY DEF Computation, Computations, Stores
<1>3. computing' = <<c>> \o computing
  BY <1>1 DEF BeginCompute
<1> HIDE DEF c
<1>4. cells' = cells /\ cells \in Seq(Kept) /\ Len(cells) \in Nat /\ k \in Nat
      /\ grownUnder' = grownUnder /\ grownUnder \in BOOLEAN
  BY <1>1, ResultsKept, LenProperties DEF IInv, TypeOK
<1>5. Fits(c, eager, Len(cells'), grownUnder')
  BY <1>2, <1>4 DEF Fits
<1>6. GrewUnder(computing)
  BY <1>4 DEF GrewUnder
<1>7. Begins(c)
  BY <1>1, <1>2, <1>3, <1>4, <1>5, <1>6 DEF Begins
<1>8. IInv' /\ Head(computing') = c
  BY <1>7, BeginKeepsIInv
<1>9. <<"map", k>> \notin answered \/ ~autoGrow
  BY <1>1 DEF IInv, AnsweredIsStored
<1> QED BY <1>2, <1>8, <1>9 DEF NotAnswered

\* A read of an element that the list lacks, or a lazy one holds as null.
LEMMA ReadElementBegins ==
    ASSUME IInv, ReadElement
    PROVE  IInv' /\ NotAnswered(Head(computing'))
<1>1. PICK k \in LazyKeys :
        /\ IF k >= Len(cells) THEN TRUE ELSE ~eager /\ cells[k + 1] = Gap
        /\ cells' = IF k >= Len(cells) /\ ~eager THEN cells \o GapsOf(k - Len(cells)) ELSE cells
        /\ BeginCompute("list", FirstMissing(k), k, k >= Len(cells))
        /\ GrewUnder(computing)
        /\ UNCHANGED <<eager, autoGrow, memo, entries, lazyRaised, answered>>
  BY DEF ReadElement
<1> DEFINE c == Computation("list", FirstMissing(k), k, k >= Len(cells))
<1>2. /\ k \in Nat /\ Len(cells) \in Nat /\ cells \in Seq(Kept) /\ k \in 0 .. MaxKey
      /\ eager \in BOOLEAN /\ grownUnder \in BOOLEAN
  BY ResultsKept, LenProperties DEF IInv, TypeOK, LazyKeys
<1>3. FirstMissing(k) = IF eager THEN Len(cells) ELSE k
  BY DEF FirstMissing
<1>4. eager => Len(cells) <= k
  BY <1>1, <1>2
<1>5. FirstMissing(k) \in LazyKeys
  BY <1>2, <1>3, <1>4, MaxKeyAssumption DEF LazyKeys
<1>6. /\ c \in Computations /\ c.store = "list" /\ c.key = FirstMissing(k) /\ c.upto = k
      /\ c.pushes = (k >= Len(cells))
  BY <1>5 DEF Computation, Computations, Stores
<1>7. computing' = <<c>> \o computing
  BY <1>1 DEF BeginCompute
<1> HIDE DEF c
<1>8. /\ cells' \in Seq(Kept) /\ Len(cells) <= Len(cells')
      /\ \A i \in 1 .. Len(cells) : cells'[i] = cells[i]
      /\ \A i \in Len(cells) + 1 .. Len(cells') : cells'[i] = Gap
      /\ Len(cells') # Len(cells) => ~eager
      /\ Len(cells') = IF k >= Len(cells) /\ ~eager THEN k ELSE Len(cells)
  <2>1. CASE k >= Len(cells) /\ ~eager
    BY <1>1, <1>2, <2>1, GapsGrow DEF IInv
  <2>2. CASE ~(k >= Len(cells) /\ ~eager)
    BY <1>1, <1>2, <2>2
  <2> QED BY <2>1, <2>2
<1>9. Fits(c, eager, Len(cells'), grownUnder')
  <2>1. FirstMissing(k) <= k
    BY <1>2, <1>3, <1>4
  <2>2. IF k >= Len(cells) THEN FirstMissing(k) = Len(cells') ELSE FirstMissing(k) < Len(cells')
    BY <1>1, <1>2, <1>3, <1>8
  <2>3. IF eager THEN k >= Len(cells) ELSE FirstMissing(k) = k
    BY <1>2, <1>3, <1>4
  <2>4. FirstMissing(k) \in Nat
    BY <1>2, <1>3
  <2>5. c.pushes => FirstMissing(k) <= Len(cells') /\ FirstMissing(k) = Len(cells')
    <3>1. c.pushes => k >= Len(cells)
      BY <1>6, Zenon
    <3> QED BY <2>2, <2>4, <3>1
  <2>6. ~c.pushes => FirstMissing(k) < Len(cells')
    <3>1. ~c.pushes => ~(k >= Len(cells))
      BY <1>6, Zenon
    <3> QED BY <2>2, <3>1
  <2>7. IF eager THEN c.pushes ELSE c.key = c.upto
    BY <1>6, <2>3
  <2>8. IF c.pushes THEN c.key <= Len(cells') /\ (grownUnder' \/ c.key = Len(cells')) ELSE c.key < Len(cells')
    BY <1>6, <2>5, <2>6, Zenon
  <2> QED BY <1>6, <2>1, <2>7, <2>8, Zenon DEF Fits
<1>10. Begins(c)
  BY <1>1, <1>6, <1>7, <1>8, <1>9 DEF Begins
<1>11. IInv' /\ Head(computing') = c
  BY <1>10, BeginKeepsIInv
<1>12. <<"list", c.key>> \notin answered \/ grownUnder
  <2>1. ~Filled(cells, FirstMissing(k))
    BY <1>1, <1>2, <1>3, <1>4 DEF Filled
  <2> QED BY <1>5, <1>6, <2>1 DEF IInv, AnsweredIsStored
<1> QED BY <1>6, <1>11, <1>12 DEF NotAnswered

-----------------------------------------------------------------------------
\* The innermost computation is the first, the others follow it.
LEMMA Innermost ==
    ASSUME TypeOK, computing # <<>>
    PROVE  /\ Head(computing) \in Computations /\ Head(computing) = computing[1]
           /\ Head(computing).store \in Stores /\ Head(computing).pushes \in BOOLEAN
           /\ Head(computing).key \in LazyKeys /\ Head(computing).upto \in LazyKeys
           /\ Head(computing).key \in Nat /\ Head(computing).upto \in Nat
           /\ Len(computing) \in Nat \ {0} /\ 1 \in 1 .. Len(computing)
           /\ Tail(computing) \in Seq(Computations)
           /\ Len(Tail(computing)) = Len(computing) - 1
           /\ \A i \in 1 .. Len(computing) - 1 : Tail(computing)[i] = computing[i + 1]
<1>1. computing \in Seq(Computations)
  BY DEF TypeOK
<1>2. \A d \in Computations : /\ d.store \in Stores /\ d.pushes \in BOOLEAN
                              /\ d.key \in LazyKeys /\ d.upto \in LazyKeys
                              /\ d.key \in Nat /\ d.upto \in Nat
  BY MaxKeyAssumption DEF Computations, LazyKeys
<1> QED BY <1>1, <1>2, Pop

\* A store with one key more.
LEMMA ExtendedType ==
    ASSUME NEW f, f \in [DOMAIN f -> Kept], DOMAIN f \subseteq LazyKeys,
           NEW k \in LazyKeys, NEW v \in Kept
    PROVE  /\ Extended(f, k, v) \in [DOMAIN Extended(f, k, v) -> Kept]
           /\ DOMAIN Extended(f, k, v) = DOMAIN f \cup {k}
           /\ DOMAIN Extended(f, k, v) \subseteq LazyKeys
           /\ \A x \in DOMAIN Extended(f, k, v) : Extended(f, k, v)[x] = IF x = k THEN v ELSE f[x]
BY DEF Extended

\* The innermost closure answers, or raises and leaves null.
Left(raised) == IF raised THEN Gap ELSE Result(Head(computing).key)
Ends(raised) ==
    LET c == Head(computing)
    IN  /\ computing # <<>> /\ raised \in BOOLEAN
        /\ KeepValue(c, Left(raised), raised)
        /\ answered' = IF raised THEN answered \ {<<c.store, c.key>>} ELSE answered \cup {<<c.store, c.key>>}
        /\ IF raised THEN grownUnder' = grownUnder ELSE GrewUnder(Tail(computing))
        /\ eager' = eager /\ autoGrow' = autoGrow /\ lazyRaised' \in BOOLEAN

\* What it leaves is a value, and the last answer for its key alone.
LEMMA EndAnswers ==
    ASSUME IInv, NEW raised, Ends(raised)
    PROVE  /\ Left(raised) \in Kept
           /\ \A s, k : <<s, k>> = <<Head(computing).store, Head(computing).key>> =>
                 Left(raised) = LastAnswer(s, k)'
           /\ answered' \subseteq Stores \X LazyKeys
           /\ \A s, k : <<s, k>> # <<Head(computing).store, Head(computing).key>> =>
                 /\ <<s, k>> \in answered' <=> <<s, k>> \in answered
                 /\ LastAnswer(s, k)' = LastAnswer(s, k)
<1> DEFINE c == Head(computing)
<1>1. c.key \in LazyKeys /\ c.store \in Stores
  BY Innermost DEF Ends, IInv
<1>2. Left(raised) \in Kept
  BY <1>1, ResultsKept DEF Left
<1>3. answered' = IF raised THEN answered \ {<<c.store, c.key>>} ELSE answered \cup {<<c.store, c.key>>}
  BY DEF Ends
<1>4. answered' \subseteq Stores \X LazyKeys
  BY <1>1, <1>3 DEF IInv, TypeOK
<1>6. ASSUME NEW s, NEW k, <<s, k>> = <<c.store, c.key>> PROVE Left(raised) = LastAnswer(s, k)'
  <2>1. <<s, k>> \in answered' <=> ~raised
    BY <1>3, <1>6
  <2>2. k = c.key
    BY <1>6
  <2> QED BY <2>1, <2>2 DEF Left, LastAnswer, Result, Gap
<1>7. ASSUME NEW s, NEW k, <<s, k>> # <<c.store, c.key>>
      PROVE  /\ <<s, k>> \in answered' <=> <<s, k>> \in answered
             /\ LastAnswer(s, k)' = LastAnswer(s, k)
  <2>1. <<s, k>> \in answered' <=> <<s, k>> \in answered
    BY <1>3, <1>7
  <2> QED BY <2>1 DEF LastAnswer, Result, Gap
<1> QED BY <1>2, <1>4, <1>6, <1>7

\* The memo and the map with the key that ends.
LEMMA EndKeys ==
    ASSUME IInv, NEW raised, Ends(raised)
    PROVE  /\ memo' \in [DOMAIN memo' -> Kept] /\ DOMAIN memo' \subseteq LazyKeys
           /\ entries' \in [DOMAIN entries' -> Kept] /\ DOMAIN entries' \subseteq LazyKeys
           /\ \A k \in LazyKeys : /\ <<"memo", k>> \in answered' => k \in DOMAIN memo'
                                  /\ (<<"map", k>> \in answered' /\ autoGrow') => k \in DOMAIN entries'
           /\ \A k \in DOMAIN memo' : memo'[k] = LastAnswer("memo", k)'
           /\ \A k \in DOMAIN entries' : entries'[k] = LastAnswer("map", k)'
           /\ OnlyGrowingKeeps'
<1> DEFINE c == Head(computing)
           v == Left(raised)
<1>1. c.key \in LazyKeys /\ c.store \in Stores /\ v \in Kept /\ autoGrow' = autoGrow
  BY Innermost, EndAnswers DEF Ends, IInv
<1>2. \A s, k : <<s, k>> = <<c.store, c.key>> => v = LastAnswer(s, k)'
  BY EndAnswers
<1>3. \A s, k : <<s, k>> # <<c.store, c.key>> =>
         /\ <<s, k>> \in answered' <=> <<s, k>> \in answered
         /\ LastAnswer(s, k)' = LastAnswer(s, k)
  BY EndAnswers
<1>4. /\ memo \in [DOMAIN memo -> Kept] /\ DOMAIN memo \subseteq LazyKeys
      /\ entries \in [DOMAIN entries -> Kept] /\ DOMAIN entries \subseteq LazyKeys
      /\ \A k \in LazyKeys : /\ <<"memo", k>> \in answered => k \in DOMAIN memo
                             /\ (<<"map", k>> \in answered /\ autoGrow) => k \in DOMAIN entries
      /\ \A k \in DOMAIN memo : memo[k] = LastAnswer("memo", k)
      /\ \A k \in DOMAIN entries : entries[k] = LastAnswer("map", k)
  BY DEF IInv, TypeOK, AnsweredIsStored, KeptAreResults
<1>5. /\ memo' = IF c.store = "memo" THEN Extended(memo, c.key, v) ELSE memo
      /\ entries' = IF c.store = "map" /\ autoGrow THEN Extended(entries, c.key, v) ELSE entries
  BY DEF Ends, KeepValue
<1>6. /\ Extended(memo, c.key, v) \in [DOMAIN Extended(memo, c.key, v) -> Kept]
      /\ DOMAIN Extended(memo, c.key, v) = DOMAIN memo \cup {c.key}
      /\ DOMAIN Extended(memo, c.key, v) \subseteq LazyKeys
      /\ \A x \in DOMAIN Extended(memo, c.key, v) :
            Extended(memo, c.key, v)[x] = IF x = c.key THEN v ELSE memo[x]
  BY <1>1, <1>4, ExtendedType
<1>7. /\ Extended(entries, c.key, v) \in [DOMAIN Extended(entries, c.key, v) -> Kept]
      /\ DOMAIN Extended(entries, c.key, v) = DOMAIN entries \cup {c.key}
      /\ DOMAIN Extended(entries, c.key, v) \subseteq LazyKeys
      /\ \A x \in DOMAIN Extended(entries, c.key, v) :
            Extended(entries, c.key, v)[x] = IF x = c.key THEN v ELSE entries[x]
  BY <1>1, <1>4, ExtendedType
<1> HIDE DEF c, v
<1>8. /\ memo' \in [DOMAIN memo' -> Kept] /\ DOMAIN memo' \subseteq LazyKeys
      /\ \A k \in LazyKeys : <<"memo", k>> \in answered' => k \in DOMAIN memo'
      /\ \A k \in DOMAIN memo' : memo'[k] = LastAnswer("memo", k)'
  <2>1. CASE c.store = "memo"
    <3>1. memo' = Extended(memo, c.key, v)
      BY <1>5, <2>1
    <3>2. /\ memo' \in [DOMAIN memo' -> Kept] /\ DOMAIN memo' = DOMAIN memo \cup {c.key}
          /\ DOMAIN memo' \subseteq LazyKeys
          /\ \A x \in DOMAIN memo' : memo'[x] = IF x = c.key THEN v ELSE memo[x]
      BY <1>6, <3>1, Zenon
    <3>3. \A k \in LazyKeys : <<"memo", k>> \in answered' => k \in DOMAIN memo'
      BY <1>3, <1>4, <3>2
    <3>4. ASSUME NEW k \in DOMAIN memo' PROVE memo'[k] = LastAnswer("memo", k)'
      <4>1. CASE k = c.key
        <5>1. memo'[k] = v /\ <<"memo", k>> = <<c.store, c.key>>
          BY <2>1, <3>2, <4>1
        <5> QED BY <1>2, <5>1, Zenon
      <4>2. CASE k # c.key
        <5>1. memo'[k] = memo[k] /\ k \in DOMAIN memo /\ <<"memo", k>> # <<c.store, c.key>>
          BY <3>2, <4>2
        <5>2. LastAnswer("memo", k)' = LastAnswer("memo", k)
          BY <1>3, <5>1
        <5> QED BY <1>4, <5>1, <5>2
      <4> QED BY <4>1, <4>2
    <3> QED BY <3>2, <3>3, <3>4
  <2>2. CASE c.store # "memo"
    <3>1. memo' = memo
      BY <1>5, <2>2
    <3>2. \A k : /\ <<"memo", k>> \in answered' <=> <<"memo", k>> \in answered
                 /\ LastAnswer("memo", k)' = LastAnswer("memo", k)
      BY <1>3, <2>2
    <3> QED BY <1>4, <3>1, <3>2, Zenon
  <2> QED BY <2>1, <2>2
<1>9. /\ entries' \in [DOMAIN entries' -> Kept] /\ DOMAIN entries' \subseteq LazyKeys
      /\ \A k \in LazyKeys : (<<"map", k>> \in answered' /\ autoGrow) => k \in DOMAIN entries'
      /\ \A k \in DOMAIN entries' : entries'[k] = LastAnswer("map", k)'
  <2>1. CASE c.store = "map" /\ autoGrow
    <3>1. entries' = Extended(entries, c.key, v)
      BY <1>5, <2>1
    <3>2. /\ entries' \in [DOMAIN entries' -> Kept] /\ DOMAIN entries' = DOMAIN entries \cup {c.key}
          /\ DOMAIN entries' \subseteq LazyKeys
          /\ \A x \in DOMAIN entries' : entries'[x] = IF x = c.key THEN v ELSE entries[x]
      BY <1>7, <3>1, Zenon
    <3>3. \A k \in LazyKeys : (<<"map", k>> \in answered' /\ autoGrow) => k \in DOMAIN entries'
      BY <1>3, <1>4, <3>2
    <3>4. ASSUME NEW k \in DOMAIN entries' PROVE entries'[k] = LastAnswer("map", k)'
      <4>1. CASE k = c.key
        <5>1. entries'[k] = v /\ <<"map", k>> = <<c.store, c.key>>
          BY <2>1, <3>2, <4>1
        <5> QED BY <1>2, <5>1, Zenon
      <4>2. CASE k # c.key
        <5>1. entries'[k] = entries[k] /\ k \in DOMAIN entries /\ <<"map", k>> # <<c.store, c.key>>
          BY <3>2, <4>2
        <5>2. LastAnswer("map", k)' = LastAnswer("map", k)
          BY <1>3, <5>1
        <5> QED BY <1>4, <5>1, <5>2
      <4> QED BY <4>1, <4>2
    <3> QED BY <3>2, <3>3, <3>4
  <2>2. CASE c.store # "map"
    <3>1. entries' = entries
      BY <1>5, <2>2
    <3>2. \A k : /\ <<"map", k>> \in answered' <=> <<"map", k>> \in answered
                 /\ LastAnswer("map", k)' = LastAnswer("map", k)
      BY <1>3, <2>2
    <3> QED BY <1>4, <3>1, <3>2, Zenon
  <2>3. CASE ~autoGrow
    <3>1. entries' = entries
      BY <1>5, <2>3
    <3>2. DOMAIN entries = {} /\ DOMAIN entries' = {}
      BY <2>3, <3>1 DEF IInv, OnlyGrowingKeeps
    <3> QED BY <1>4, <2>3, <3>1, <3>2
  <2> QED BY <2>1, <2>2, <2>3
<1>10. OnlyGrowingKeeps'
  BY <1>1, <1>5 DEF IInv, OnlyGrowingKeeps
<1> QED BY <1>1, <1>8, <1>9, <1>10

\* The list with the element that ends: one more at its end, or one set.
LEMMA EndCells ==
    ASSUME IInv, NEW raised, Ends(raised)
    PROVE  /\ cells' \in Seq(Kept) /\ Len(cells) \in Nat /\ Len(cells') \in Nat
           /\ Len(cells) <= Len(cells')
           /\ Len(cells') # Len(cells) =>
                /\ Head(computing).store = "list" /\ Head(computing).pushes /\ ~raised
                /\ Len(cells') = Len(cells) + 1
           /\ Head(computing).store = "list" /\ Head(computing).pushes /\ ~raised =>
                Len(cells') = Len(cells) + 1
           /\ \A i \in 1 .. Len(cells) :
                \/ cells'[i] = cells[i] /\ <<"list", i - 1>> # <<Head(computing).store, Head(computing).key>>
                \/ cells'[i] = cells[i] /\ Head(computing).pushes /\ Head(computing).store = "list"
                \/ /\ <<"list", i - 1>> = <<Head(computing).store, Head(computing).key>>
                   /\ ~eager /\ cells'[i] = Left(raised)
           /\ \A i \in Len(cells) + 1 .. Len(cells') : cells'[i] = Left(raised)
           /\ Head(computing).store = "list" => Fits(Head(computing), eager, Len(cells), grownUnder)
<1> DEFINE c == Head(computing)
           v == Left(raised)
<1>1. c.key \in Nat /\ c.store \in Stores /\ c.pushes \in BOOLEAN /\ v \in Kept
  BY Innermost, EndAnswers DEF Ends, IInv
<1>2. cells \in Seq(Kept) /\ Len(cells) \in Nat /\ eager \in BOOLEAN
  BY LenProperties DEF IInv, TypeOK
<1>3. Fits(c, eager, Len(cells), grownUnder)
  BY Innermost DEF Ends, IInv, ListPlaces
<1>4. cells' = IF c.store = "list" /\ ~(raised /\ c.pushes) THEN Place(c, v) ELSE cells
  BY DEF Ends, KeepValue
<1>5. raised \in BOOLEAN
  BY DEF Ends
<1> HIDE DEF c, v
<1>6. CASE c.store = "list" /\ c.pushes /\ ~raised
  <2>1. cells' = Append(cells, v)
    BY <1>4, <1>6 DEF Place
  <2>2. /\ cells' \in Seq(Kept) /\ Len(cells') = Len(cells) + 1
        /\ cells'[Len(cells) + 1] = v
        /\ \A i \in 1 .. Len(cells) : cells'[i] = cells[i]
    BY <1>1, <1>2, <2>1, AppendProperties
  <2>3. Len(cells') \in Nat /\ Len(cells) <= Len(cells')
    BY <1>2, <2>2
  <2>4. \A i \in Len(cells) + 1 .. Len(cells') : cells'[i] = v
    BY <1>2, <2>2
  <2> QED BY <1>2, <1>3, <1>6, <2>2, <2>3, <2>4 DEF c, v
<1>7. CASE c.store = "list" /\ ~c.pushes
  <2>1. cells' = [cells EXCEPT ![c.key + 1] = v]
    BY <1>4, <1>7 DEF Place
  <2>2. c.key < Len(cells) /\ ~eager
    BY <1>2, <1>3, <1>7 DEF Fits
  <2>3. c.key + 1 \in 1 .. Len(cells)
    BY <1>1, <1>2, <2>2
  <2>4. /\ cells' \in Seq(Kept) /\ Len(cells') = Len(cells)
        /\ \A i \in 1 .. Len(cells) : cells'[i] = IF i = c.key + 1 THEN v ELSE cells[i]
    BY <1>1, <1>2, <2>1, <2>3, ExceptSeq
  <2>5. ASSUME NEW i \in 1 .. Len(cells)
        PROVE  \/ cells'[i] = cells[i] /\ <<"list", i - 1>> # <<c.store, c.key>>
               \/ <<"list", i - 1>> = <<c.store, c.key>> /\ ~eager /\ cells'[i] = v
    <3>1. CASE i = c.key + 1
      <4>1. i - 1 = c.key
        BY <1>1, <3>1
      <4> QED BY <1>7, <2>2, <2>4, <3>1, <4>1
    <3>2. CASE i # c.key + 1
      <4>1. i - 1 # c.key
        BY <1>1, <3>2
      <4> QED BY <2>4, <3>2, <4>1
    <3> QED BY <3>1, <3>2
  <2>6. \A i \in Len(cells) + 1 .. Len(cells') : cells'[i] = v
    BY <1>2, <2>4
  <2>7. Len(cells') \in Nat /\ Len(cells) <= Len(cells')
    BY <1>2, <2>4
  <2>8. /\ c.store = "list" /\ c.pushes /\ ~raised => Len(cells') = Len(cells) + 1
        /\ Len(cells') = Len(cells)
    BY <1>7, <2>4
  <2>9. \A i \in 1 .. Len(cells) :
           \/ cells'[i] = cells[i] /\ <<"list", i - 1>> # <<c.store, c.key>>
           \/ cells'[i] = cells[i] /\ c.pushes /\ c.store = "list"
           \/ <<"list", i - 1>> = <<c.store, c.key>> /\ ~eager /\ cells'[i] = v
    BY <2>5
  <2>10. cells' \in Seq(Kept)
    BY <2>4
  <2> QED BY <1>2, <1>3, <2>6, <2>7, <2>8, <2>9, <2>10, Zenon DEF c, v
<1>8. CASE ~(c.store = "list" /\ ~(raised /\ c.pushes))
  <2>1. cells' = cells
    BY <1>4, <1>8
  <2>2. \A i \in Len(cells) + 1 .. Len(cells') : cells'[i] = v
    BY <1>2, <2>1
  <2>3. Len(cells') \in Nat /\ Len(cells) <= Len(cells')
    BY <1>2, <2>1
  <2>4. ASSUME NEW i \in 1 .. Len(cells)
        PROVE  \/ cells'[i] = cells[i] /\ <<"list", i - 1>> # <<c.store, c.key>>
               \/ cells'[i] = cells[i] /\ c.pushes /\ c.store = "list"
    BY <1>8, <2>1
  <2>5. /\ c.store = "list" /\ c.pushes /\ ~raised => Len(cells') = Len(cells) + 1
        /\ Len(cells') = Len(cells)
    BY <1>8, <2>1
  <2>6. \A i \in 1 .. Len(cells) :
           \/ cells'[i] = cells[i] /\ <<"list", i - 1>> # <<c.store, c.key>>
           \/ cells'[i] = cells[i] /\ c.pushes /\ c.store = "list"
           \/ <<"list", i - 1>> = <<c.store, c.key>> /\ ~eager /\ cells'[i] = v
    BY <2>4
  <2>7. cells' \in Seq(Kept)
    BY <1>2, <2>1
  <2> QED BY <1>2, <1>3, <2>2, <2>3, <2>5, <2>6, <2>7, Zenon DEF c, v
<1> QED BY <1>5, <1>6, <1>7, <1>8

\* The list only grows under the others when that is recorded.
LEMMA EndGrows ==
    ASSUME IInv, NEW raised, Ends(raised)
    PROVE  /\ grownUnder' \in BOOLEAN /\ (grownUnder => grownUnder')
           /\ \A i \in 2 .. Len(computing) :
                 Len(cells') # Len(cells) /\ computing[i].pushes => grownUnder'
<1>1. /\ Len(cells) \in Nat /\ Len(cells') \in Nat /\ Len(cells) <= Len(cells')
      /\ Len(cells') # Len(cells) => ~raised
  BY EndCells
<1>2. grownUnder \in BOOLEAN /\ raised \in BOOLEAN
  BY DEF IInv, TypeOK, Ends
<1>3. CASE raised
  BY <1>1, <1>2, <1>3 DEF Ends
<1>4. CASE ~raised
  <2>1. grownUnder' = (grownUnder \/ (Len(cells') > Len(cells)
                                       /\ \E j \in DOMAIN Tail(computing) : Tail(computing)[j].pushes))
    BY <1>4 DEF Ends, GrewUnder
  <2>2. grownUnder' \in BOOLEAN /\ (grownUnder => grownUnder')
    BY <1>2, <2>1, Zenon
  <2>3. ASSUME NEW i \in 2 .. Len(computing), Len(cells') # Len(cells), computing[i].pushes
        PROVE  grownUnder'
    <3>1. Len(cells') > Len(cells)
      BY <1>1, <2>3
    <3>2. /\ Len(computing) \in Nat \ {0} /\ Tail(computing) \in Seq(Computations)
          /\ Len(Tail(computing)) = Len(computing) - 1
          /\ \A j \in 1 .. Len(computing) - 1 : Tail(computing)[j] = computing[j + 1]
      BY Innermost DEF Ends, IInv
    <3>3. i - 1 \in 1 .. Len(computing) - 1 /\ (i - 1) + 1 = i
      BY <3>2
    <3>4. i - 1 \in DOMAIN Tail(computing) /\ Tail(computing)[i - 1] = computing[i]
      <4>1. DOMAIN Tail(computing) = 1 .. Len(computing) - 1
        BY <3>2, LenProperties
      <4>2. Tail(computing)[i - 1] = computing[(i - 1) + 1]
        BY <3>2, <3>3
      <4> QED BY <3>3, <4>1, <4>2
    <3> QED BY <2>1, <2>3, <3>1, <3>4, Zenon
  <2> QED BY <2>2, <2>3
<1> QED BY <1>2, <1>3, <1>4

\* What the list holds of the answers.
LEMMA EndList ==
    ASSUME IInv, NEW raised, Ends(raised)
    PROVE  /\ \A k \in LazyKeys : <<"list", k>> \in answered' /\ ~grownUnder' => Filled(cells', k)
           /\ \A i \in 1 .. Len(cells') :
                /\ cells'[i] \in {Gap} \cup {Result(j) : j \in 0 .. i - 1}
                /\ eager => cells'[i] # Gap
                /\ grownUnder' \/ cells'[i] = LastAnswer("list", i - 1)'
<1> DEFINE c == Head(computing)
           v == Left(raised)
<1>1. /\ c.key \in Nat /\ c.key \in LazyKeys /\ c.store \in Stores /\ c.pushes \in BOOLEAN /\ v \in Kept
      /\ raised \in BOOLEAN /\ v = IF raised THEN Gap ELSE Result(c.key)
  BY Innermost, EndAnswers DEF Ends, IInv, Left
<1>2. /\ \A s, k : <<s, k>> = <<c.store, c.key>> => v = LastAnswer(s, k)'
      /\ \A s, k : <<s, k>> # <<c.store, c.key>> =>
            /\ <<s, k>> \in answered' <=> <<s, k>> \in answered
            /\ LastAnswer(s, k)' = LastAnswer(s, k)
      /\ <<c.store, c.key>> \in answered' => ~raised
  <2>1. <<c.store, c.key>> \in answered' => ~raised
    BY DEF Ends
  <2> QED BY <2>1, EndAnswers
<1>3. /\ Len(cells) \in Nat /\ Len(cells') \in Nat /\ Len(cells) <= Len(cells')
      /\ Len(cells') # Len(cells) => c.store = "list" /\ c.pushes /\ ~raised /\ Len(cells') = Len(cells) + 1
      /\ c.store = "list" /\ c.pushes /\ ~raised => Len(cells') = Len(cells) + 1
      /\ \A i \in 1 .. Len(cells) :
           \/ cells'[i] = cells[i] /\ <<"list", i - 1>> # <<c.store, c.key>>
           \/ cells'[i] = cells[i] /\ c.pushes /\ c.store = "list"
           \/ <<"list", i - 1>> = <<c.store, c.key>> /\ ~eager /\ cells'[i] = v
      /\ \A i \in Len(cells) + 1 .. Len(cells') : cells'[i] = v
  BY EndCells
<1>4. c.store = "list" => IF c.pushes THEN c.key <= Len(cells) /\ (grownUnder \/ c.key = Len(cells))
                          ELSE c.key < Len(cells)
  BY EndCells DEF Fits
<1>5. grownUnder' \in BOOLEAN /\ (grownUnder => grownUnder')
  BY EndGrows
<1>6. Result(c.key) # Gap
  BY <1>1, ResultsKept
<1> HIDE DEF c, v
<1>7. ASSUME NEW k \in LazyKeys, <<"list", k>> \in answered', ~grownUnder' PROVE Filled(cells', k)
  <2>1. k \in Nat
    BY ResultsKept
  <2>2. CASE <<"list", k>> = <<c.store, c.key>>
    <3>1. c.store = "list" /\ k = c.key /\ ~raised /\ v # Gap
      BY <1>1, <1>2, <1>6, <1>7, <2>2
    <3>2. CASE c.pushes
      <4>1. k = Len(cells) /\ Len(cells') = Len(cells) + 1
        BY <1>3, <1>4, <1>5, <1>7, <3>1, <3>2
      <4>2. k + 1 \in Len(cells) + 1 .. Len(cells')
        BY <1>3, <4>1
      <4> QED BY <1>3, <3>1, <4>1, <4>2 DEF Filled
    <3>3. CASE ~c.pushes
      <4>1. k < Len(cells) /\ k + 1 \in 1 .. Len(cells) /\ (k + 1) - 1 = k
        BY <1>3, <1>4, <2>1, <3>1, <3>3
      <4>2. cells'[k + 1] = v
        BY <1>3, <2>2, <3>3, <4>1
      <4>3. k < Len(cells')
        BY <1>3, <2>1, <4>1
      <4> QED BY <3>1, <4>2, <4>3 DEF Filled
    <3> QED BY <3>2, <3>3
  <2>3. CASE <<"list", k>> # <<c.store, c.key>>
    <3>1. Filled(cells, k)
      BY <1>2, <1>5, <1>7, <2>3 DEF IInv, AnsweredIsStored
    <3>2. k < Len(cells) /\ cells[k + 1] # Gap
      BY <3>1 DEF Filled
    <3>3. k + 1 \in 1 .. Len(cells) /\ (k + 1) - 1 = k
      BY <1>3, <2>1, <3>2
    <3>4. cells'[k + 1] = cells[k + 1]
      BY <1>3, <2>3, <3>3
    <3>5. k < Len(cells')
      BY <1>3, <2>1, <3>2
    <3> QED BY <3>2, <3>4, <3>5 DEF Filled
  <2> QED BY <2>2, <2>3
<1>8. ASSUME NEW i \in 1 .. Len(cells')
      PROVE  /\ cells'[i] \in {Gap} \cup {Result(j) : j \in 0 .. i - 1}
             /\ eager => cells'[i] # Gap
             /\ grownUnder' \/ cells'[i] = LastAnswer("list", i - 1)'
  <2>1. CASE i \in 1 .. Len(cells)
    <3>1. /\ cells[i] \in {Gap} \cup {Result(j) : j \in 0 .. i - 1}
          /\ eager => cells[i] # Gap
          /\ grownUnder \/ cells[i] = LastAnswer("list", i - 1)
      <4>1. i \in DOMAIN cells
        BY <2>1 DEF IInv, TypeOK
      <4> QED BY <4>1 DEF IInv, KeptAreResults
    <3>2. CASE cells'[i] = cells[i] /\ <<"list", i - 1>> # <<c.store, c.key>>
      <4>1. LastAnswer("list", i - 1)' = LastAnswer("list", i - 1)
        BY <1>2, <3>2
      <4> QED BY <1>5, <3>1, <3>2, <4>1
    <3>3. CASE cells'[i] = cells[i] /\ c.pushes /\ c.store = "list" /\ <<"list", i - 1>> = <<c.store, c.key>>
      <4>1. i - 1 = c.key
        BY <3>3
      <4>2. c.key # Len(cells)
        BY <1>3, <2>1, <4>1
      <4> QED BY <1>4, <1>5, <3>1, <3>3, <4>2
    <3>4. CASE <<"list", i - 1>> = <<c.store, c.key>> /\ ~eager /\ cells'[i] = v
      <4>1. i - 1 = c.key /\ i - 1 \in 0 .. i - 1
        BY <2>1, <3>4
      <4>2. v = LastAnswer("list", i - 1)'
        BY <1>2, <3>4
      <4>3. v = Gap \/ v = Result(i - 1)
        BY <1>1, <4>1
      <4> QED BY <3>4, <4>1, <4>2, <4>3
    <3> QED BY <1>3, <2>1, <3>2, <3>3, <3>4
  <2>2. CASE i \notin 1 .. Len(cells)
    <3>1. i \in Len(cells) + 1 .. Len(cells') /\ Len(cells') # Len(cells)
      BY <1>3, <2>2
    <3>2. c.store = "list" /\ c.pushes /\ ~raised /\ Len(cells') = Len(cells) + 1 /\ cells'[i] = v
      BY <1>3, <3>1
    <3>3. i - 1 = Len(cells) /\ v = Result(c.key)
      BY <1>1, <1>3, <3>1, <3>2
    <3>4. c.key \in 0 .. i - 1 /\ (grownUnder \/ i - 1 = c.key)
      BY <1>1, <1>3, <1>4, <3>2, <3>3
    <3>5. i - 1 = c.key => v = LastAnswer("list", i - 1)'
      BY <1>2, <3>2
    <3> QED BY <1>5, <1>6, <3>2, <3>3, <3>4, <3>5
  <2> QED BY <2>1, <2>2
<1> QED BY <1>7, <1>8

\* A computation ends: everything but the computations in progress.
LEMMA EndStores ==
    ASSUME IInv, NEW raised, Ends(raised), computing' \in Seq(Computations)
    PROVE  TypeOK' /\ AnsweredIsStored' /\ OnlyGrowingKeeps' /\ KeptAreResults'
<1>1. eager' = eager /\ eager \in BOOLEAN /\ autoGrow' \in BOOLEAN /\ lazyRaised' \in BOOLEAN
  BY DEF Ends, IInv, TypeOK
<1>2. cells' \in Seq(Kept) /\ DOMAIN cells' = 1 .. Len(cells')
  <2>1. cells' \in Seq(Kept)
    BY EndCells
  <2> QED BY <2>1, LenProperties
<1>3. /\ memo' \in [DOMAIN memo' -> Kept] /\ DOMAIN memo' \subseteq LazyKeys
      /\ entries' \in [DOMAIN entries' -> Kept] /\ DOMAIN entries' \subseteq LazyKeys
      /\ \A k \in LazyKeys : /\ <<"memo", k>> \in answered' => k \in DOMAIN memo'
                             /\ (<<"map", k>> \in answered' /\ autoGrow') => k \in DOMAIN entries'
      /\ \A k \in DOMAIN memo' : memo'[k] = LastAnswer("memo", k)'
      /\ \A k \in DOMAIN entries' : entries'[k] = LastAnswer("map", k)'
      /\ OnlyGrowingKeeps'
  BY EndKeys
<1>4. grownUnder' \in BOOLEAN
  BY EndGrows
<1>5. answered' \subseteq Stores \X LazyKeys
  BY EndAnswers
<1>6. TypeOK'
  BY <1>1, <1>2, <1>3, <1>4, <1>5, Zenon DEF TypeOK
<1>7. /\ \A k \in LazyKeys : <<"list", k>> \in answered' /\ ~grownUnder' => Filled(cells', k)
      /\ \A i \in 1 .. Len(cells') :
                /\ cells'[i] \in {Gap} \cup {Result(j) : j \in 0 .. i - 1}
                /\ eager => cells'[i] # Gap
                /\ grownUnder' \/ cells'[i] = LastAnswer("list", i - 1)'
  BY EndList
<1>8. AnsweredIsStored'
  BY <1>3, <1>7 DEF AnsweredIsStored
<1>9. KeptAreResults'
  BY <1>1, <1>2, <1>3, <1>7 DEF KeptAreResults, LastAnswer, Gap, Result
<1> QED BY <1>3, <1>6, <1>8, <1>9

\* The computations around the innermost are left as they are.
LEMMA EndOthers ==
    ASSUME IInv, NEW raised, Ends(raised), NEW i \in 2 .. Len(computing)
    PROVE  Fits(computing[i], eager, Len(cells'), grownUnder')
<1>1. i \in 1 .. Len(computing)
  BY Innermost DEF Ends, IInv
<1>2. cells' \in Seq(Kept) /\ Len(cells) <= Len(cells')
  BY EndCells
<1>3. /\ grownUnder' \in BOOLEAN /\ (grownUnder => grownUnder')
      /\ Len(cells') # Len(cells) /\ computing[i].pushes => grownUnder'
  BY EndGrows
<1> QED BY <1>1, <1>2, <1>3, OthersStay

\* The innermost computation ends and its caller goes on.
LEMMA EndKeepsIInv ==
    ASSUME IInv, NEW raised, Ends(raised), computing' = Tail(computing)
    PROVE  IInv'
<1>1. /\ Len(computing) \in Nat \ {0} /\ Len(computing') = Len(computing) - 1
      /\ \A i \in 1 .. Len(computing) - 1 : computing'[i] = computing[i + 1]
      /\ computing' \in Seq(Computations)
  BY Innermost DEF Ends, IInv
<1>2. ListPlaces'
  <2> SUFFICES ASSUME NEW i \in 1 .. Len(computing')
               PROVE  Fits(computing'[i], eager, Len(cells'), grownUnder')
    BY DEF ListPlaces, Ends
  <2>1. i + 1 \in 2 .. Len(computing) /\ computing'[i] = computing[i + 1]
    BY <1>1
  <2>2. Fits(computing[i + 1], eager, Len(cells'), grownUnder')
    BY <2>1, EndOthers
  <2> QED BY <2>1, <2>2
<1> QED BY <1>1, <1>2, EndStores DEF IInv

Advances ==
    LET c == Head(computing)
    IN  /\ c.key < c.upto
        /\ computing' = <<Computation(c.store, c.key + 1, c.upto, TRUE)>> \o Tail(computing)

\* The innermost computation of an eager list goes on with the next index,
\* which was not answered.
LEMMA AdvanceKeepsIInv ==
    ASSUME IInv, Ends(FALSE), Advances
    PROVE  IInv' /\ NotAnswered(Head(computing'))
<1> DEFINE c == Head(computing)
           d == Computation(c.store, c.key + 1, c.upto, TRUE)
<1>1. /\ c \in Computations /\ c.store \in Stores /\ c.pushes \in BOOLEAN
      /\ c.key \in Nat /\ c.upto \in Nat /\ c.upto \in LazyKeys /\ c.key \in LazyKeys
      /\ Len(computing) \in Nat \ {0}
      /\ Tail(computing) \in Seq(Computations) /\ Len(Tail(computing)) = Len(computing) - 1
      /\ \A i \in 1 .. Len(computing) - 1 : Tail(computing)[i] = computing[i + 1]
  BY Innermost DEF Ends, IInv
<1>2. eager \in BOOLEAN /\ Fits(c, eager, Len(cells), grownUnder)
  BY Innermost DEF Ends, IInv, ListPlaces, TypeOK
<1>3. c.store = "list" /\ eager /\ c.pushes /\ c.key < c.upto
  <2>1. c.key < c.upto
    BY DEF Advances
  <2> QED BY <1>1, <1>2, <2>1 DEF Fits
<1>4. c.key <= Len(cells) /\ (grownUnder \/ c.key = Len(cells))
  BY <1>2, <1>3 DEF Fits
<1>5. c.key + 1 \in LazyKeys /\ c.key + 1 <= c.upto
  BY <1>1, <1>3, MaxKeyAssumption DEF LazyKeys
<1>6. /\ d \in Computations /\ d.store = "list" /\ d.key = c.key + 1 /\ d.upto = c.upto /\ d.pushes
  BY <1>1, <1>3, <1>5 DEF Computation, Computations
<1>7. computing' = <<d>> \o Tail(computing)
  BY DEF Advances
<1> HIDE DEF d
<1>8. /\ computing' \in Seq(Computations) /\ computing'[1] = d /\ Head(computing') = d
      /\ Len(computing') = Len(Tail(computing)) + 1
      /\ \A i \in 2 .. Len(Tail(computing)) + 1 : computing'[i] = Tail(computing)[i - 1]
  BY <1>1, <1>6, <1>7, Push
<1>9. Len(cells) \in Nat /\ Len(cells') = Len(cells) + 1
  BY <1>3, EndCells
<1>10. grownUnder' \in BOOLEAN /\ (grownUnder => grownUnder')
  BY EndGrows
<1>11. eager' = eager
  BY DEF Ends
<1> HIDE DEF c
<1>12. Fits(d, eager, Len(cells'), grownUnder')
  BY <1>1, <1>3, <1>4, <1>5, <1>6, <1>9, <1>10 DEF Fits
<1>13. ListPlaces'
  <2> SUFFICES ASSUME NEW i \in 1 .. Len(computing')
               PROVE  Fits(computing'[i], eager, Len(cells'), grownUnder')
    BY <1>11 DEF ListPlaces
  <2>1. CASE i = 1
    BY <1>8, <1>12, <2>1
  <2>2. CASE i # 1
    <3>1. i \in 2 .. Len(computing) /\ i \in 2 .. Len(Tail(computing)) + 1 /\ i - 1 \in 1 .. Len(computing) - 1
      BY <1>1, <1>8, <2>2
    <3>2. computing'[i] = Tail(computing)[i - 1] /\ Tail(computing)[i - 1] = computing[(i - 1) + 1]
      BY <1>1, <1>8, <3>1
    <3>3. (i - 1) + 1 = i
      BY <3>1
    <3>4. Fits(computing[i], eager, Len(cells'), grownUnder')
      BY <3>1, EndOthers
    <3> QED BY <3>2, <3>3, <3>4
  <2> QED BY <2>1, <2>2
<1>14. NotAnswered(d)
  <2> SUFFICES ASSUME <<"list", c.key + 1>> \in answered, ~grownUnder PROVE FALSE
    BY <1>6 DEF NotAnswered
  <2>1. c.key + 1 < Len(cells)
    BY <1>5 DEF IInv, AnsweredIsStored, Filled
  <2> QED BY <1>1, <1>4, <1>9, <2>1
<1> QED BY <1>8, <1>13, <1>14, EndStores DEF IInv

\* The innermost closure returns.
LEMMA ReturnKeepsIInv ==
    ASSUME IInv, BodyReturns
    PROVE  /\ IInv'
           /\ Len(computing') >= Len(computing) => NotAnswered(Head(computing'))
<1> DEFINE c == Head(computing)
<1>1. computing # <<>> /\ Ends(FALSE)
  BY DEF BodyReturns, Ends, Left, IInv, TypeOK
<1>2. Len(computing) \in Nat \ {0} /\ Len(Tail(computing)) = Len(computing) - 1
  BY <1>1, Innermost DEF IInv
<1>3. CASE c.key < c.upto
  <2>1. Advances
    BY <1>3 DEF BodyReturns, Advances
  <2> QED BY <1>1, <1>3, <2>1, AdvanceKeepsIInv
<1>4. CASE ~(c.key < c.upto)
  <2>1. computing' = Tail(computing)
    BY <1>4 DEF BodyReturns
  <2>2. IInv'
    BY <1>1, <2>1, EndKeepsIInv
  <2> QED BY <1>2, <2>1, <2>2
<1> QED BY <1>3, <1>4

\* The innermost closure raises.
LEMMA RaiseKeepsIInv ==
    ASSUME IInv, BodyRaises
    PROVE  IInv' /\ ~(Len(computing') >= Len(computing))
<1>1. computing # <<>> /\ computing' = Tail(computing) /\ Ends(TRUE)
  BY DEF BodyRaises, Ends, Left
<1>2. Len(computing) \in Nat \ {0} /\ Len(computing') = Len(computing) - 1
  BY <1>1, Innermost DEF IInv
<1>3. IInv'
  BY <1>1, EndKeepsIInv
<1> QED BY <1>2, <1>3

\* Nothing but the exception on its way changes.
LEMMA CatchKeepsIInv ==
    ASSUME IInv, UNCHANGED <<eager, autoGrow, memo, entries, cells, computing, answered, grownUnder>>,
           lazyRaised' \in BOOLEAN
    PROVE  IInv'
<1>1. TypeOK'
  BY DEF IInv, TypeOK
<1>2. ListPlaces'
  BY DEF IInv, ListPlaces
<1>3. AnsweredIsStored' /\ OnlyGrowingKeeps'
  BY DEF IInv, AnsweredIsStored, Filled, Gap, OnlyGrowingKeeps
<1>4. KeptAreResults'
  BY DEF IInv, KeptAreResults, LastAnswer, Gap, Result
<1> QED BY <1>1, <1>2, <1>3, <1>4 DEF IInv

\* Every step keeps the invariant, and what a step begins is not answered.
LEMMA NextKeepsIInv ==
    ASSUME IInv, LazyNext
    PROVE  /\ IInv'
           /\ (computing' # computing /\ Len(computing') >= Len(computing)) =>
                 NotAnswered(Head(computing'))
<1>1. CASE CallMemoized
  BY <1>1, CallMemoizedBegins
<1>2. CASE ReadMissing
  BY <1>2, ReadMissingBegins
<1>3. CASE ReadElement
  BY <1>3, ReadElementBegins
<1>4. CASE BodyReturns
  BY <1>4, ReturnKeepsIInv
<1>5. CASE BodyRaises
  BY <1>5, RaiseKeepsIInv
<1>6. CASE BodyCatches
  <2>1. computing' = computing
    BY <1>6 DEF BodyCatches
  <2>2. IInv'
    BY <1>6, CatchKeepsIInv DEF BodyCatches
  <2> QED BY <2>1, <2>2
<1> QED BY <1>1, <1>2, <1>3, <1>4, <1>5, <1>6 DEF LazyNext

-----------------------------------------------------------------------------
\* The computations in progress, the stores and what the closures answered
\* stay consistent, whichever keys the closures read, larger ones included,
\* and whichever of them raise (host.rs:4811-4843, 5459-5471, 10463-10480).
THEOREM LazyInvariant == LazySpec => []IInv
<1>1. LazyInit => IInv
  BY LazyInitIInv
<1>2. IInv /\ [LazyNext]_lazyVars => IInv'
  <2> SUFFICES ASSUME IInv, [LazyNext]_lazyVars PROVE IInv'
    OBVIOUS
  <2>1. CASE LazyNext
    BY <2>1, NextKeepsIInv
  <2>2. CASE UNCHANGED lazyVars
    <3>1. UNCHANGED <<eager, autoGrow, memo, entries, cells, computing, answered, grownUnder>>
          /\ lazyRaised' = lazyRaised
      BY <2>2 DEF lazyVars
    <3>2. lazyRaised' \in BOOLEAN
      BY <3>1 DEF IInv, TypeOK
    <3> QED BY <3>1, <3>2, CatchKeepsIInv
  <2> QED BY <2>1, <2>2
<1> QED BY <1>1, <1>2, PTL DEF LazySpec

\* A memo and a map hold under each key what its closure answered last, null
\* if it raised since.  A list holds each value at its index, unless the list
\* grew under an element being computed: then possibly after it, never before
\* (host.rs:5470, 10475, 4838, 4842).
THEOREM ResultsOnly == LazySpec => []KeptAreResults
<1>1. IInv => KeptAreResults
  BY DEF IInv
<1> QED BY <1>1, LazyInvariant, PTL

\* What a closure answered and did not raise for since is not computed again:
\* by a memo and a map that grows never, by a list unless it grew under an
\* element being computed (host.rs:5464, 10461, 4829).
THEOREM OnceOnly == LazySpec => ComputedOnce
<1>1. IInv /\ [LazyNext]_lazyVars =>
        [(computing' # computing /\ Len(computing') >= Len(computing)) =>
            LET c == Head(computing')
            IN  \/ <<c.store, c.key>> \notin answered
                \/ c.store = "list" /\ grownUnder
                \/ c.store = "map" /\ ~autoGrow]_lazyVars
  BY NextKeepsIInv DEF NotAnswered
<1> QED BY <1>1, LazyInvariant, PTL DEF LazySpec, ComputedOnce

-----------------------------------------------------------------------------
\* What Min and Max choose.
LEMMA MinIs == ASSUME NEW S, NEW e \in S, S \subseteq Nat, \A y \in S : e <= y PROVE Min(S) = e
<1>1. \A x \in S : x \in Nat
  OBVIOUS
<1>2. \A x \in S : (\A y \in S : x <= y) => x = e
  BY <1>1
<1> QED BY <1>2 DEF Min

\* So does Max, at the other end.
LEMMA MaxIs == ASSUME NEW S, NEW e \in S, S \subseteq Nat, \A y \in S : y <= e PROVE Max(S) = e
<1>1. \A x \in S : x \in Nat
  OBVIOUS
<1>2. \A x \in S : (\A y \in S : x >= y) => x = e
  BY <1>1
<1> QED BY <1>1, <1>2 DEF Max

-----------------------------------------------------------------------------
\* The positions that lead one to the next from k to the one that leads to
\* itself, e.
Path(P, S, k, e, rank, next) ==
    /\ P \subseteq S /\ k \in P /\ e \in P /\ next[e] = e
    /\ \A j \in P : rank[e] <= rank[j] /\ rank[j] <= rank[k]
    /\ \A j \in P : j # e => next[j] # j /\ next[j] \in P
    /\ \A j \in P : j # k => \E c \in P : c # e /\ next[c] = j
    /\ \A i, j \in P : i # e /\ j # e /\ next[i] = next[j] => i = j

\* A function that collects the positions collects such a path.
LEMMA PathIs ==
    ASSUME NEW S, NEW N, NEW rank, NEW next, Leads(S, N, rank, next), NEW f,
           \A i \in S : f[i] = IF next[i] = i THEN {i} ELSE {i} \cup f[next[i]],
           NEW k \in S
    PROVE  \E e \in S : Path(f[k], S, k, e, rank, next)
<1> DEFINE Good(i) == \E e \in S : Path(f[i], S, i, e, rank, next)
           T == {i \in S : ~Good(i)}
<1>1. /\ \A i \in S : next[i] \in S /\ rank[i] \in Nat
      /\ \A i \in S : next[i] = i \/ rank[next[i]] < rank[i]
  BY DEF Leads
<1>2. T = {}
  <2> SUFFICES ASSUME T # {} PROVE FALSE
    OBVIOUS
  <2> HIDE DEF Good
  <2>1. rank \in [S -> Nat] /\ next \in [S -> S] /\ T \in SUBSET S
    BY DEF Leads
  <2>2. PICK i \in T : next[i] = i \/ next[i] \notin T
    BY <1>1, <2>1, LeadsOut
  <2>3. i \in S /\ ~Good(i)
    OBVIOUS
  <2>4. CASE next[i] = i
    <3>1. f[i] = {i}
      BY <2>3, <2>4
    <3>2. Path({i}, S, i, i, rank, next)
      BY <1>1, <2>3, <2>4 DEF Path
    <3> QED BY <2>3, <3>1, <3>2 DEF Good
  <2>5. CASE next[i] # i
    <3> DEFINE n == next[i]
    <3>1. n \in S /\ Good(n) /\ f[i] = {i} \cup f[n]
      BY <1>1, <2>2, <2>3, <2>5
    <3>2. PICK e \in S : Path(f[n], S, n, e, rank, next)
      BY <3>1 DEF Good
    <3>3. rank[n] < rank[i] /\ rank[n] \in Nat /\ rank[i] \in Nat /\ rank[e] \in Nat
      BY <1>1, <2>3, <2>5, <3>1
    <3> DEFINE P == f[n]
    <3>4. /\ P \subseteq S /\ n \in P /\ e \in P /\ next[e] = e
          /\ \A j \in P : rank[e] <= rank[j] /\ rank[j] <= rank[n]
          /\ \A j \in P : j # e => next[j] # j /\ next[j] \in P
          /\ \A j \in P : j # n => \E c \in P : c # e /\ next[c] = j
          /\ \A a, b \in P : a # e /\ b # e /\ next[a] = next[b] => a = b
      BY <3>2 DEF Path
    <3>5. i \notin P /\ \A j \in P : j # e => rank[next[j]] < rank[n]
      <4>1. \A j \in P : rank[j] \in Nat /\ rank[j] <= rank[n]
        BY <1>1, <3>4
      <4>2. \A j \in P : j # e => rank[next[j]] < rank[j] /\ rank[next[j]] \in Nat
        BY <1>1, <3>4
      <4> HIDE DEF n, P
      <4> QED BY <3>3, <4>1, <4>2
    <3>6. \A j \in P : j # e => next[j] # n
      <4>1. \A j \in P : j # e => rank[next[j]] < rank[n] /\ rank[next[j]] \in Nat
        BY <1>1, <3>4, <3>5
      <4> HIDE DEF n, P
      <4> QED BY <3>3, <4>1
    <3>7. \A j \in P : rank[e] <= rank[j] /\ rank[j] <= rank[i] /\ rank[e] <= rank[i]
      <4>1. \A j \in P : rank[j] \in Nat
        BY <1>1, <3>4
      <4> HIDE DEF n, P
      <4> QED BY <3>3, <3>4, <4>1
    <3>8. i # e /\ next[i] = n
      BY <3>4, <3>5
    <3> HIDE DEF n, P
    <3>9. Path({i} \cup P, S, i, e, rank, next)
      BY <2>3, <2>5, <3>3, <3>4, <3>5, <3>6, <3>7, <3>8 DEF Path
    <3> QED BY <2>3, <3>1, <3>9 DEF Good, P
  <2> QED BY <2>4, <2>5
<1> QED BY <1>2

-----------------------------------------------------------------------------
Places(s, y) == {i \in DOMAIN s : s[i] = y}

\* An element is at finitely many places of a sequence.
LEMMA PlacesFinite ==
    ASSUME NEW E, NEW s \in Seq(E), NEW y
    PROVE  /\ IsFiniteSet(Places(s, y)) /\ Cardinality(Places(s, y)) \in Nat
           /\ Occurrences(s, y) = Cardinality(Places(s, y))
<1>1. DOMAIN s = 1 .. Len(s) /\ Len(s) \in Nat
  BY LenProperties
<1>2. IsFiniteSet(1 .. Len(s))
  BY <1>1, FS_Interval
<1>3. Places(s, y) \subseteq 1 .. Len(s)
  BY <1>1 DEF Places
<1>4. IsFiniteSet(Places(s, y))
  BY <1>2, <1>3, FS_Subset
<1> QED BY <1>4, FS_CardinalityType DEF Occurrences, Places

\* to takes the places of y in s to the places of y in t, one to one.
Moves(to, s, t, y) ==
    /\ \A i \in DOMAIN s : s[i] = y => to[i] \in DOMAIN t /\ t[to[i]] = y
    /\ \A i, j \in DOMAIN s : s[i] = y /\ s[j] = y /\ to[i] = to[j] => i = j
    /\ \A j \in DOMAIN t : t[j] = y => \E i \in DOMAIN s : s[i] = y /\ to[i] = j

\* What is elsewhere is in as many places.
LEMMA SamePlaces ==
    ASSUME NEW s, NEW t, NEW y, NEW to, IsFiniteSet(Places(s, y)), Moves(to, s, t, y)
    PROVE  Occurrences(t, y) = Occurrences(s, y)
<1> DEFINE A == Places(s, y)
           B == Places(t, y)
           f == [i \in A |-> to[i]]
<1>2. f \in Bijection(A, B)
  BY DEF Bijection, Injection, Surjection, IsInjective, Places, Moves
<1>3. ExistsBijection(A, B)
  BY <1>2 DEF ExistsBijection
<1> HIDE DEF A, B, f
<1>4. Cardinality(A) = Cardinality(B)
  BY <1>3, FS_Bijection DEF A
<1> QED BY <1>4 DEF Occurrences, Places, A, B

One(b) == IF b THEN 1 ELSE 0

\* Putting x where an element is changes two counts.
LEMMA OccurrencesExcept ==
    ASSUME NEW E, NEW s \in Seq(E), NEW k \in DOMAIN s, NEW x \in E, NEW y
    PROVE  Occurrences([s EXCEPT ![k] = x], y) = Occurrences(s, y) - One(s[k] = y) + One(x = y)
<1> DEFINE t == [s EXCEPT ![k] = x]
           A == Places(s, y) \ {k}
<1>1. t \in Seq(E) /\ DOMAIN t = DOMAIN s /\ t[k] = x /\ \A i \in DOMAIN s : i # k => t[i] = s[i]
  OBVIOUS
<1> HIDE DEF t
<1>2. /\ Places(t, y) = IF x = y THEN A \cup {k} ELSE A
      /\ Places(s, y) = IF s[k] = y THEN A \cup {k} ELSE A
  BY <1>1 DEF Places
<1>3. IsFiniteSet(A) /\ k \notin A
  BY PlacesFinite, FS_Subset
<1> HIDE DEF A
<1>4. Cardinality(A) \in Nat /\ Cardinality(A \cup {k}) = Cardinality(A) + 1
  BY <1>3, FS_AddElement, FS_CardinalityType
<1>5. Occurrences(t, y) = Cardinality(A) + One(x = y)
  <2>1. Occurrences(t, y) = Cardinality(Places(t, y))
    BY <1>1, PlacesFinite
  <2> QED BY <1>2, <1>4, <2>1 DEF One
<1>6. Occurrences(s, y) = Cardinality(A) + One(s[k] = y)
  <2>1. Occurrences(s, y) = Cardinality(Places(s, y))
    BY PlacesFinite
  <2> QED BY <1>2, <1>4, <2>1 DEF One
<1> QED BY <1>4, <1>5, <1>6 DEF One, t

\* Appending x adds one to the count of x alone.
LEMMA OccurrencesAppend ==
    ASSUME NEW E, NEW s \in Seq(E), NEW x \in E, NEW y
    PROVE  Occurrences(Append(s, x), y) = Occurrences(s, y) + One(x = y)
<1> DEFINE t == Append(s, x)
           n == Len(s) + 1
           A == Places(s, y)
<1>1. Len(s) \in Nat /\ DOMAIN s = 1 .. Len(s) /\ s \in [1 .. Len(s) -> E]
  BY LenProperties
<1>2. t \in Seq(E) /\ DOMAIN t = 1 .. n /\ t[n] = x /\ \A i \in 1 .. Len(s) : t[i] = s[i]
  BY <1>1, AppendProperties, LenProperties
<1>3. n \notin DOMAIN s /\ 1 .. n = DOMAIN s \cup {n}
  BY <1>1
<1> HIDE DEF t, n
<1>4. Places(t, y) = IF x = y THEN A \cup {n} ELSE A
  BY <1>1, <1>2, <1>3 DEF Places
<1>5. IsFiniteSet(A) /\ n \notin A
  BY <1>3, PlacesFinite DEF Places
<1>6. Occurrences(s, y) = Cardinality(A)
  BY PlacesFinite
<1>7. Occurrences(t, y) = Cardinality(Places(t, y))
  BY <1>2, PlacesFinite
<1> HIDE DEF A
<1>8. Cardinality(A) \in Nat /\ Cardinality(A \cup {n}) = Cardinality(A) + 1
  BY <1>5, FS_AddElement, FS_CardinalityType
<1> QED BY <1>4, <1>6, <1>7, <1>8 DEF One, t

\* So does putting x before the others.
LEMMA OccurrencesPush ==
    ASSUME NEW E, NEW s \in Seq(E), NEW x \in E, NEW y
    PROVE  Occurrences(<<x>> \o s, y) = Occurrences(s, y) + One(x = y)
<1> DEFINE t == <<x>> \o s
           u == Append(s, x)
           n == Len(s) + 1
           to == [i \in 1 .. n |-> IF i = n THEN 1 ELSE i + 1]
<1>1. /\ Len(s) \in Nat /\ DOMAIN s = 1 .. Len(s) /\ s \in [1 .. Len(s) -> E]
      /\ n \in Nat /\ Len(s) = n - 1
  BY LenProperties
<1>2. u \in Seq(E) /\ DOMAIN u = 1 .. n /\ u[n] = x /\ \A i \in 1 .. Len(s) : u[i] = s[i]
  BY <1>1, AppendProperties, LenProperties
<1>3. /\ t \in Seq(E) /\ DOMAIN t = 1 .. n /\ t[1] = x
      /\ \A i \in 1 .. Len(s) : t[i + 1] = s[i]
  <2>1. t \in Seq(E) /\ Len(t) = n /\ t[1] = x /\ \A i \in 1 .. Len(s) : t[i + 1] = s[i]
    BY Push
  <2> QED BY <2>1, LenProperties
<1> HIDE DEF t, u, n
<1>4. \A i \in 1 .. n : to[i] \in 1 .. n /\ t[to[i]] = u[i]
  <2> SUFFICES ASSUME NEW i \in 1 .. n PROVE to[i] \in 1 .. n /\ t[to[i]] = u[i]
    OBVIOUS
  <2>1. CASE i = n
    BY <1>1, <1>2, <1>3, <2>1
  <2>2. CASE i # n
    <3>1. i \in 1 .. Len(s) /\ to[i] = i + 1 /\ i + 1 \in 1 .. n
      BY <1>1, <2>2
    <3> QED BY <1>2, <1>3, <3>1
  <2> QED BY <2>1, <2>2
<1>5. \A i, j \in 1 .. n : to[i] = to[j] => i = j
  BY <1>1
<1>6. \A j \in 1 .. n : \E i \in 1 .. n : to[i] = j
  <2> SUFFICES ASSUME NEW j \in 1 .. n PROVE \E i \in 1 .. n : to[i] = j
    OBVIOUS
  <2>1. CASE j = 1
    BY <1>1, <2>1
  <2>2. CASE j # 1
    <3>1. j - 1 \in 1 .. n /\ j - 1 # n /\ (j - 1) + 1 = j
      BY <1>1, <2>2
    <3>2. to[j - 1] = j
      BY <3>1
    <3> QED BY <3>1, <3>2
  <2> QED BY <2>1, <2>2
<1> HIDE DEF to
<1>7. Occurrences(t, y) = Occurrences(u, y)
  <2>1. \A i \in DOMAIN u : u[i] = y => to[i] \in DOMAIN t /\ t[to[i]] = y
    BY <1>2, <1>3, <1>4
  <2>2. \A i, j \in DOMAIN u : u[i] = y /\ u[j] = y /\ to[i] = to[j] => i = j
    BY <1>2, <1>5
  <2>3. \A j \in DOMAIN t : t[j] = y => \E i \in DOMAIN u : u[i] = y /\ to[i] = j
    <3> SUFFICES ASSUME NEW j \in 1 .. n, t[j] = y PROVE \E i \in 1 .. n : u[i] = y /\ to[i] = j
      BY <1>2, <1>3
    <3>1. PICK i \in 1 .. n : to[i] = j
      BY <1>6
    <3>2. t[to[i]] = u[i]
      BY <1>4
    <3> QED BY <3>1, <3>2
  <2>4. IsFiniteSet(Places(u, y))
    BY <1>2, PlacesFinite
  <2>5. Moves(to, u, t, y)
    BY <2>1, <2>2, <2>3 DEF Moves
  <2> QED BY <2>4, <2>5, SamePlaces
<1>8. Occurrences(u, y) = Occurrences(s, y) + One(x = y)
  BY OccurrencesAppend DEF u
<1> QED BY <1>7, <1>8 DEF t

-----------------------------------------------------------------------------
\* x at the end of the path, what the path passes one place nearer its start.
Shifted(q, P, e, next, x) ==
    [j \in DOMAIN q |-> IF j = e THEN x ELSE IF j \in P THEN q[next[j]] ELSE q[j]]

\* A path does not come back to its start.
LEMMA PathLeaves ==
    ASSUME NEW S, NEW N, NEW rank, NEW next, Leads(S, N, rank, next),
           NEW P, NEW k, NEW e, Path(P, S, k, e, rank, next)
    PROVE  \A j \in P : j # e => next[j] # k
<1>1. SUFFICES ASSUME NEW j \in P, j # e, next[j] = k PROVE FALSE
  OBVIOUS
<1>2. j \in S /\ k \in S /\ next[j] # j /\ rank[j] <= rank[k]
  BY <1>1 DEF Path
<1>3. rank[next[j]] < rank[j] /\ rank[j] \in Nat /\ rank[k] \in Nat
  BY <1>2 DEF Leads
<1> QED BY <1>1, <1>2, <1>3

\* t keeps every element of q but the one at k, and has x besides.
Replaces(t, q, E, k, x) ==
    /\ t \in Seq(E) /\ Len(t) = Len(q)
    /\ \A y : Occurrences(t, y) = Occurrences(q, y) - One(q[k] = y) + One(x = y)

\* Sifting x from k keeps every element but the one at k, and puts in x.
LEMMA ShiftedCounts ==
    ASSUME NEW E, NEW q \in Seq(E), NEW S \in SUBSET DOMAIN q, NEW N, NEW rank, NEW next,
           Leads(S, N, rank, next), NEW P, NEW k, NEW e, Path(P, S, k, e, rank, next),
           NEW x \in E
    PROVE  Replaces(Shifted(q, P, e, next, x), q, E, k, x)
<1> DEFINE t == Shifted(q, P, e, next, x)
           s == [q EXCEPT ![k] = x]
           to == [i \in DOMAIN q |-> IF i = e THEN k ELSE IF i \in P THEN next[i] ELSE i]
<1>1. Len(q) \in Nat /\ DOMAIN q = 1 .. Len(q) /\ q \in [1 .. Len(q) -> E]
  BY LenProperties
<1>2. /\ P \subseteq DOMAIN q /\ k \in P /\ e \in P
      /\ \A j \in P : j # e => next[j] \in P
      /\ \A j \in P : j # k => \E c \in P : c # e /\ next[c] = j
      /\ \A i, j \in P : i # e /\ j # e /\ next[i] = next[j] => i = j
  BY DEF Path
<1>3. \A j \in P : j # e => next[j] # k
  BY PathLeaves
<1>4. t \in [1 .. Len(q) -> E]
  BY <1>1, <1>2 DEF Shifted
<1>5. t \in Seq(E) /\ Len(t) = Len(q) /\ DOMAIN t = DOMAIN q
  BY <1>1, <1>4, LenProperties, SeqDef
<1>6. DOMAIN s = DOMAIN q /\ s[k] = x /\ \A i \in DOMAIN q : i # k => s[i] = q[i]
  BY <1>2
<1>7. \A i \in DOMAIN q : t[i] = IF i = e THEN x ELSE IF i \in P THEN q[next[i]] ELSE q[i]
  BY DEF Shifted
<1> HIDE DEF t, s
<1>8. \A i \in DOMAIN q : to[i] \in DOMAIN q /\ s[to[i]] = t[i]
  BY <1>2, <1>3, <1>6, <1>7
<1>9. \A i, j \in DOMAIN q : to[i] = to[j] => i = j
  BY <1>2, <1>3
<1>10. \A j \in DOMAIN q : \E i \in DOMAIN q : to[i] = j
  <2> SUFFICES ASSUME NEW j \in DOMAIN q PROVE \E i \in DOMAIN q : to[i] = j
    OBVIOUS
  <2>1. CASE j = k
    <3>1. e \in DOMAIN q /\ to[e] = j
      BY <1>2, <2>1
    <3> QED BY <3>1
  <2>2. CASE j \in P /\ j # k
    <3>1. PICK c \in P : c # e /\ next[c] = j
      BY <1>2, <2>2
    <3>2. c \in DOMAIN q /\ to[c] = j
      BY <1>2, <3>1
    <3> QED BY <3>2
  <2>3. CASE j \notin P
    <3>1. to[j] = j
      BY <1>2, <2>3
    <3> QED BY <3>1
  <2> QED BY <2>1, <2>2, <2>3
<1> HIDE DEF to
<1>11. ASSUME NEW y PROVE Occurrences(t, y) = Occurrences(q, y) - One(q[k] = y) + One(x = y)
  <2>1. IsFiniteSet(Places(t, y))
    BY <1>5, PlacesFinite
  <2>2. \A j \in DOMAIN q : s[j] = y => \E i \in DOMAIN q : t[i] = y /\ to[i] = j
    BY <1>8, <1>10
  <2>3. Moves(to, t, s, y)
    BY <1>5, <1>6, <1>8, <1>9, <2>2 DEF Moves
  <2>4. Occurrences(s, y) = Occurrences(t, y)
    BY <2>1, <2>3, SamePlaces
  <2>5. k \in DOMAIN q
    BY <1>2
  <2>6. Occurrences(s, y) = Occurrences(q, y) - One(q[k] = y) + One(x = y)
    BY <2>5, OccurrencesExcept DEF s
  <2> QED BY <2>4, <2>6
<1> QED BY <1>5, <1>11 DEF t, Replaces

-----------------------------------------------------------------------------
\* The parent and the children of a place.
LEMMA Halves ==
    /\ \A i \in Nat : i > 1 => i \div 2 \in Nat /\ 1 <= i \div 2 /\ i \div 2 < i
    /\ \A i, j \in Nat : j = 2 * i \/ j = 2 * i + 1 <=> j \div 2 = i
    /\ \A i, j, n \in Nat : j \div 2 = i /\ j <= n => 2 * i <= n
OBVIOUS

\* f collects what such steps pass.
Collects(f, S, next) ==
    f = [i \in S |-> IF next[i] = i THEN {i} ELSE {i} \cup f[next[i]]]

\* Steps that lead to lower ranks have a function that collects them.
LEMMA CollectedIs ==
    ASSUME NEW S \in SUBSET Nat, NEW N, NEW rank, NEW next, Leads(S, N, rank, next)
    PROVE  \E f : Collects(f, S, next)
<1> DEFINE V == SUBSET Nat
           base == [i \in S |-> {i}]
           step == [i \in S |-> [v \in V |-> {i} \cup v]]
<1>1. base \in [S -> V] /\ step \in [S -> [V -> V]]
  OBVIOUS
<1>2. PICK f \in [S -> V] : Recursive(f, S, next, base, step)
  <2> HIDE DEF V, base, step
  <2> QED BY <1>1, RecursionAlong, Zenon
<1>3. ASSUME NEW i \in S PROVE f[i] = IF next[i] = i THEN {i} ELSE {i} \cup f[next[i]]
  <2>1. next[i] \in S /\ f[next[i]] \in V
    BY DEF Leads
  <2>2. f[i] = IF next[i] = i THEN base[i] ELSE step[i][f[next[i]]]
    <3> HIDE DEF V, base, step
    <3> QED BY <1>2 DEF Recursive
  <2> QED BY <2>1, <2>2
<1> QED BY <1>3 DEF Collects

-----------------------------------------------------------------------------
\* Where sift_up goes from a place, and the places it looks at.
Ident(S) == [i \in S |-> i]
UpNext(q, k, x) ==
    [i \in 1 .. k |-> IF i > 1 /\ QueueKey(x) < QueueKey(q[i \div 2]) THEN i \div 2 ELSE i]

\* sift_up goes from a place to a lower one, or stays.
LEMMA UpLeads ==
    ASSUME NEW q, NEW k \in Nat, NEW x
    PROVE  Leads(1 .. k, k, Ident(1 .. k), UpNext(q, k, x))
<1> DEFINE next == UpNext(q, k, x)
<1>1. \A i \in 1 .. k : i > 1 => i \div 2 \in 1 .. k /\ i \div 2 < i
  BY Halves
<1>2. next \in [1 .. k -> 1 .. k]
  BY <1>1 DEF UpNext
<1>3. \A i \in 1 .. k : next[i] = i \/ next[i] < i
  BY <1>1 DEF UpNext
<1> QED BY <1>2, <1>3 DEF Leads, Ident

\* SiftUp shifts along the path of the ancestors greater than x.
LEMMA SiftUpIs ==
    ASSUME NEW q, NEW k \in Nat \ {0}, NEW x
    PROVE  \E P, e : /\ Path(P, 1 .. k, k, e, Ident(1 .. k), UpNext(q, k, x))
                     /\ SiftUp(q, k, x) = Shifted(q, P, e, UpNext(q, k, x), x)
<1> DEFINE next == UpNext(q, k, x)
           S == 1 .. k
           rank == Ident(S)
           goes(i) == i > 1 /\ QueueKey(x) < QueueKey(q[i \div 2])
           passed == CHOOSE f : f = [i \in S |-> IF goes(i) THEN {i} \cup f[i \div 2] ELSE {i}]
<1>1. Leads(S, k, rank, next)
  BY UpLeads
<1>2. \A i \in S : /\ goes(i) => next[i] = i \div 2 /\ next[i] # i
                   /\ ~goes(i) => next[i] = i
  BY Halves DEF UpNext
<1>3. PICK f : Collects(f, S, next)
  <2>1. S \in SUBSET Nat
    OBVIOUS
  <2> HIDE DEF next, rank, goes, passed, S
  <2> QED BY <1>1, <2>1, CollectedIs
<1> HIDE DEF next, goes
<1>4. f = [i \in S |-> IF goes(i) THEN {i} \cup f[i \div 2] ELSE {i}]
  BY <1>2, <1>3 DEF Collects
<1>5. passed = [i \in S |-> IF goes(i) THEN {i} \cup passed[i \div 2] ELSE {i}]
  BY <1>4, Zenon
<1>6. \A i \in S : passed[i] = IF next[i] = i THEN {i} ELSE {i} \cup passed[next[i]]
  <2> HIDE DEF passed
  <2> QED BY <1>2, <1>5
<1> HIDE DEF passed, rank
<1>7. k \in S
  OBVIOUS
<1>8. PICK e \in S : Path(passed[k], S, k, e, rank, next)
  BY <1>1, <1>6, <1>7, PathIs
<1>9. Min(passed[k]) = e
  <2>1. e \in passed[k] /\ passed[k] \subseteq S /\ \A j \in passed[k] : rank[e] <= rank[j]
    BY <1>8 DEF Path
  <2>3. \A j \in S : rank[j] = j /\ j \in Nat
    BY DEF rank, Ident
  <2>2. passed[k] \subseteq Nat /\ \A j \in passed[k] : e <= j
    <3> HIDE DEF S
    <3> QED BY <2>1, <2>3
  <2> QED BY <2>1, <2>2, MinIs
<1>10. \A j \in passed[k] : j # e => goes(j) /\ next[j] = j \div 2
  BY <1>2, <1>8 DEF Path
<1>11. SiftUp(q, k, x) = [j \in DOMAIN q |-> IF j = e THEN x
                                             ELSE IF j \in passed[k] THEN q[j \div 2] ELSE q[j]]
  BY <1>9 DEF SiftUp, passed, goes, Min
<1>12. SiftUp(q, k, x) = Shifted(q, passed[k], e, next, x)
  BY <1>10, <1>11 DEF Shifted
<1> QED BY <1>8, <1>12 DEF next, rank

-----------------------------------------------------------------------------
\* Where sift_down goes from a place, and the places it looks at.
Depth(S, n) == [i \in S |-> n - i]
DownNext(q, k, x) ==
    [i \in k .. Len(q) |-> IF 2 * i <= Len(q) /\ QueueKey(x) > QueueKey(q[LesserChild(q, i)])
                           THEN LesserChild(q, i) ELSE i]

\* The lesser child is a child.
LEMMA LesserIs ==
    ASSUME NEW q, NEW n \in Nat, Len(q) = n, NEW i \in Nat \ {0}, 2 * i <= n
    PROVE  /\ LesserChild(q, i) \in i + 1 .. n /\ LesserChild(q, i) \div 2 = i
           /\ LesserChild(q, i) = 2 * i \/ LesserChild(q, i) = 2 * i + 1
BY DEF LesserChild

\* sift_down goes from a place to a higher one, or stays.
LEMMA DownLeads ==
    ASSUME NEW q, NEW n \in Nat, Len(q) = n, NEW k \in 1 .. n, NEW x
    PROVE  Leads(k .. n, n, Depth(k .. n, n), DownNext(q, k, x))
<1> DEFINE next == DownNext(q, k, x)
           S == k .. n
           rank == Depth(S, n)
<1>1. \A i \in S : i \in Nat \ {0} /\ n - i \in 0 .. n
  OBVIOUS
<1>2. \A i \in S : 2 * i <= n => LesserChild(q, i) \in i + 1 .. n
  BY <1>1, LesserIs
<1>3. \A i \in S : \A j \in i + 1 .. n : j \in S /\ j # i /\ n - j < n - i
  OBVIOUS
<1>4. \A i \in S : /\ next[i] = i \/ (2 * i <= n /\ next[i] = LesserChild(q, i))
  BY DEF DownNext
<1>5. next = [i \in S |-> next[i]] /\ rank = [i \in S |-> n - i]
  BY DEF DownNext, Depth
<1> HIDE DEF next, rank, S
<1>6. \A i \in S : next[i] \in S /\ (next[i] = i \/ n - next[i] < n - i)
  BY <1>2, <1>3, <1>4
<1>7. next \in [S -> S] /\ rank \in [S -> 0 .. n]
  BY <1>1, <1>5, <1>6
<1>8. \A i \in S : rank[i] = n - i
  BY <1>5
<1>9. \A i \in S : next[i] = i \/ rank[next[i]] < rank[i]
  BY <1>6, <1>8
<1> QED BY <1>7, <1>9 DEF Leads, next, rank, S

\* SiftDown shifts along the path of the lesser children less than x.
LEMMA SiftDownIs ==
    ASSUME NEW q, NEW n \in Nat, Len(q) = n, NEW k \in 1 .. n, NEW x
    PROVE  \E P, e : /\ Path(P, k .. n, k, e, Depth(k .. n, n), DownNext(q, k, x))
                     /\ SiftDown(q, k, x) = Shifted(q, P, e, DownNext(q, k, x), x)
<1> DEFINE next == DownNext(q, k, x)
           S == k .. n
           rank == Depth(S, n)
           goes(i) == 2 * i <= Len(q) /\ QueueKey(x) > QueueKey(q[LesserChild(q, i)])
           below == CHOOSE f : f = [i \in k .. Len(q) |-> IF goes(i)
                                                   THEN {i} \cup f[LesserChild(q, i)] ELSE {i}]
<1>1. Leads(S, n, rank, next)
  BY DownLeads
<1>13. \A i \in S : 2 * i <= n => LesserChild(q, i) \in i + 1 .. n
  BY LesserIs
<1>2. \A i \in S : /\ goes(i) => next[i] = LesserChild(q, i) /\ next[i] # i
                   /\ ~goes(i) => next[i] = i
  BY <1>13 DEF DownNext
<1>14. S \in SUBSET Nat /\ k \in S /\ k .. Len(q) = S
  OBVIOUS
<1>3. PICK f : Collects(f, S, next)
  <2>1. S \in SUBSET Nat
    BY <1>14
  <2> HIDE DEF next, rank, goes, below, S
  <2> QED BY <1>1, <2>1, CollectedIs
<1> HIDE DEF next, goes, S
<1>4. f = [i \in S |-> IF goes(i) THEN {i} \cup f[LesserChild(q, i)] ELSE {i}]
  BY <1>2, <1>3 DEF Collects
<1>5. below = [i \in S |-> IF goes(i) THEN {i} \cup below[LesserChild(q, i)] ELSE {i}]
  BY <1>4, <1>14, Zenon
<1>6. \A i \in S : below[i] = IF next[i] = i THEN {i} ELSE {i} \cup below[next[i]]
  <2> HIDE DEF below
  <2> QED BY <1>2, <1>5
<1> HIDE DEF below, rank
<1>8. PICK e \in S : Path(below[k], S, k, e, rank, next)
  BY <1>1, <1>6, <1>14, PathIs
<1>9. Max(below[k]) = e
  <2>1. e \in below[k] /\ below[k] \subseteq S /\ \A j \in below[k] : rank[e] <= rank[j]
    BY <1>8 DEF Path
  <2>2. \A j \in S : rank[j] = n - j /\ j \in Nat
    BY DEF rank, Depth, S
  <2>3. below[k] \subseteq Nat /\ \A j \in below[k] : j <= e
    BY <2>1, <2>2
  <2> QED BY <2>1, <2>3, MaxIs
<1>10. \A j \in below[k] : j # e => goes(j) /\ next[j] = LesserChild(q, j)
  BY <1>2, <1>8 DEF Path
<1>11. SiftDown(q, k, x) = [j \in DOMAIN q |-> IF j = e THEN x
                                ELSE IF j \in below[k] THEN q[LesserChild(q, j)] ELSE q[j]]
  BY <1>9 DEF SiftDown, below, goes, Max
<1>12. SiftDown(q, k, x) = Shifted(q, below[k], e, next, x)
  BY <1>10, <1>11 DEF Shifted
<1> QED BY <1>8, <1>12 DEF next, rank, S

-----------------------------------------------------------------------------
\* The element at j is not less than its parent.
Pair(q, j) == QueueKey(q[j \div 2]) <= QueueKey(q[j])
InHeapOrder(q) == \A j \in 2 .. Len(q) : Pair(q, j)

\* Elements have keys that are numbers.
LEMMA Keys ==
    ASSUME NEW E \in SUBSET Nat, NEW q \in Seq(E)
    PROVE  /\ Len(q) \in Nat /\ DOMAIN q = 1 .. Len(q)
           /\ \A j \in 1 .. Len(q) : q[j] \in E /\ QueueKey(q[j]) \in Nat
           /\ \A x \in E : QueueKey(x) \in Nat
<1>1. \A x \in Nat : x \div 2 \in Nat
  OBVIOUS
<1>2. \A x \in E : QueueKey(x) \in Nat
  BY <1>1 DEF QueueKey
<1> QED BY <1>2, LenProperties

\* sift_up from k makes a heap of one that is out of order only above k.
LEMMA UpOrdered ==
    ASSUME NEW E \in SUBSET Nat, NEW q \in Seq(E), NEW k \in 1 .. Len(q), NEW x \in E,
           \A j \in 2 .. Len(q) : j # k /\ j \div 2 # k => Pair(q, j),
           \A j \in 2 .. Len(q) : j \div 2 = k =>
              /\ QueueKey(x) <= QueueKey(q[j])
              /\ k > 1 => QueueKey(q[k \div 2]) <= QueueKey(q[j])
    PROVE  Replaces(SiftUp(q, k, x), q, E, k, x) /\ InHeapOrder(SiftUp(q, k, x))
<1> DEFINE n == Len(q)
           t == SiftUp(q, k, x)
           next == UpNext(q, k, x)
           rank == Ident(1 .. k)
<1>1. /\ n \in Nat /\ DOMAIN q = 1 .. n /\ QueueKey(x) \in Nat
      /\ \A j \in 1 .. n : QueueKey(q[j]) \in Nat
  BY Keys
<1>2. k \in Nat \ {0}
  BY <1>1
<1>3. PICK P, e : Path(P, 1 .. k, k, e, rank, next) /\ t = Shifted(q, P, e, next, x)
  BY <1>2, SiftUpIs
<1>4. Leads(1 .. k, k, rank, next)
  BY <1>2, UpLeads
<1>5. 1 .. k \in SUBSET DOMAIN q
  BY <1>1
<1>6. Replaces(t, q, E, k, x)
  <2> HIDE DEF t, next, rank
  <2> QED BY <1>3, <1>4, <1>5, ShiftedCounts
<1>7. /\ P \subseteq 1 .. k /\ k \in P /\ e \in P
      /\ \A j \in P : e <= j
      /\ \A j \in P : j # e => j > 1 /\ j \div 2 \in P /\ next[j] = j \div 2
                               /\ QueueKey(x) < QueueKey(q[j \div 2])
      /\ e > 1 => ~(QueueKey(x) < QueueKey(q[e \div 2]))
      /\ \A j \in P : j # k => \E c \in P : c # e /\ c \div 2 = j
  <2> HIDE DEF t
  <2>1. /\ P \subseteq 1 .. k /\ k \in P /\ e \in P /\ next[e] = e
        /\ \A j \in P : rank[e] <= rank[j]
        /\ \A j \in P : j # e => next[j] # j /\ next[j] \in P
        /\ \A j \in P : j # k => \E c \in P : c # e /\ next[c] = j
    BY <1>3 DEF Path
  <2>2. \A j \in 1 .. k : next[j] = IF j > 1 /\ QueueKey(x) < QueueKey(q[j \div 2])
                                    THEN j \div 2 ELSE j
    BY DEF UpNext
  <2>3. \A j \in 1 .. k : rank[j] = j /\ j \in Nat /\ j \div 2 # j
    BY Halves DEF Ident
  <2> HIDE DEF next, rank
  <2>4. \A j \in P : e <= j
    BY <2>1, <2>3
  <2>5. \A j \in P : j # e => j > 1 /\ j \div 2 \in P /\ next[j] = j \div 2
                               /\ QueueKey(x) < QueueKey(q[j \div 2])
    BY <2>1, <2>2
  <2>6. e > 1 => ~(QueueKey(x) < QueueKey(q[e \div 2]))
    BY <2>1, <2>2, <2>3
  <2>7. \A j \in P : j # k => \E c \in P : c # e /\ c \div 2 = j
    BY <2>1, <2>5
  <2> QED BY <2>1, <2>4, <2>5, <2>6, <2>7
<1>8. \A j \in 1 .. n : t[j] = IF j = e THEN x ELSE IF j \in P THEN q[next[j]] ELSE q[j]
  BY <1>1, <1>3 DEF Shifted
<1> HIDE DEF t, n, next, rank
<1>9. ASSUME NEW j \in 2 .. n PROVE Pair(t, j)
  <2> DEFINE p == j \div 2
  <2>1. p \in 1 .. n /\ p < j /\ j \in 1 .. n /\ p \in Nat /\ j \in Nat /\ k \in Nat
    BY <1>1, Halves DEF n
  <2>2. p > 1 => p \div 2 \in 1 .. n /\ p \div 2 < p /\ p \in 2 .. n
    BY <1>1, <2>1, Halves
  <2> HIDE DEF p
  <2>3. \A i \in 2 .. n : i # k /\ i \div 2 # k => QueueKey(q[i \div 2]) <= QueueKey(q[i])
    BY DEF Pair, n
  <2>4. p # k /\ j # k => QueueKey(q[p]) <= QueueKey(q[j])
    BY <2>3 DEF p
  <2>5. p > 1 /\ p < k => QueueKey(q[p \div 2]) <= QueueKey(q[p])
    BY <2>1, <2>2, <2>3
  <2>6. /\ QueueKey(q[p]) \in Nat /\ QueueKey(q[j]) \in Nat /\ QueueKey(x) \in Nat
        /\ p > 1 => QueueKey(q[p \div 2]) \in Nat
    BY <1>1, <2>1, <2>2
  <2>7. \A i \in P : i \in Nat /\ i <= k /\ e <= i
    BY <1>2, <1>7
  <2> SUFFICES QueueKey(t[p]) <= QueueKey(t[j])
    BY DEF Pair, p
  <2>8. CASE j = e
    <3>1. p \notin P /\ j > 1
      BY <2>1, <2>7, <2>8
    <3>2. t[j] = x /\ t[p] = q[p]
      BY <1>7, <1>8, <2>1, <2>8, <3>1
    <3>3. ~(QueueKey(x) < QueueKey(q[p]))
      BY <1>7, <2>8, <3>1 DEF p
    <3> QED BY <2>6, <3>2, <3>3
  <2>9. CASE j \in P /\ j # e
    <3>1. p \in P /\ t[j] = q[p] /\ QueueKey(x) < QueueKey(q[p])
      BY <1>7, <1>8, <2>1, <2>9 DEF p
    <3>2. CASE p = e
      <4>1. t[p] = x
        BY <1>8, <2>1, <3>2
      <4> QED BY <2>6, <3>1, <4>1
    <3>3. CASE p # e
      <4>1. p > 1 /\ next[p] = p \div 2
        BY <1>7, <3>1, <3>3
      <4>2. t[p] = q[next[p]] /\ p < k
        BY <1>8, <2>1, <2>7, <2>9, <3>1, <3>3
      <4> QED BY <2>5, <3>1, <4>1, <4>2
    <3> QED BY <3>2, <3>3
  <2>10. CASE j \notin P /\ p \notin P
    <3>1. t[j] = q[j] /\ t[p] = q[p] /\ j # k /\ p # k
      BY <1>7, <1>8, <2>1, <2>10
    <3> QED BY <2>4, <3>1
  <2>11. CASE j \notin P /\ p \in P /\ p = e
    <3>1. t[j] = q[j] /\ t[p] = x /\ j # k
      BY <1>7, <1>8, <2>1, <2>11
    <3>2. CASE p = k
      <4>1. QueueKey(x) <= QueueKey(q[j])
        BY <3>2 DEF p, n
      <4> QED BY <3>1, <4>1
    <3>3. CASE p # k
      <4>1. PICK c \in P : c # e /\ c \div 2 = p
        BY <1>7, <2>11, <3>3
      <4>2. QueueKey(x) < QueueKey(q[p])
        BY <1>7, <4>1
      <4>3. QueueKey(q[p]) <= QueueKey(q[j])
        BY <2>4, <3>1, <3>3
      <4> QED BY <2>6, <3>1, <4>2, <4>3
    <3> QED BY <3>2, <3>3
  <2>12. CASE j \notin P /\ p \in P /\ p # e
    <3>1. t[j] = q[j] /\ t[p] = q[p \div 2] /\ j # k /\ p > 1
      BY <1>7, <1>8, <2>1, <2>12
    <3>2. CASE p = k
      <4>1. QueueKey(q[k \div 2]) <= QueueKey(q[j])
        BY <3>1, <3>2 DEF p, n
      <4> QED BY <3>1, <3>2, <4>1
    <3>3. CASE p # k
      <4>1. p < k
        BY <2>1, <2>7, <2>12, <3>3
      <4> QED BY <2>4, <2>5, <2>6, <3>1, <3>3, <4>1
    <3> QED BY <3>2, <3>3
  <2> QED BY <1>7, <2>8, <2>9, <2>10, <2>11, <2>12
<1>10. InHeapOrder(t)
  BY <1>6, <1>9 DEF InHeapOrder, Replaces, n
<1> QED BY <1>6, <1>10 DEF t, n

\* The children of a place.
LEMMA Children ==
    ASSUME NEW E \in SUBSET Nat, NEW q \in Seq(E), NEW i \in Nat \ {0}, NEW c \in 1 .. Len(q), c \div 2 = i
    PROVE  /\ 2 * i <= Len(q) /\ QueueKey(q[LesserChild(q, i)]) <= QueueKey(q[c])
           /\ LesserChild(q, i) \in 2 .. Len(q) /\ LesserChild(q, i) \div 2 = i
<1>1. /\ Len(q) \in Nat /\ \A j \in 1 .. Len(q) : QueueKey(q[j]) \in Nat
  BY Keys
<1>2. c = 2 * i \/ c = 2 * i + 1
  BY <1>1, Halves
<1>3. 2 * i <= Len(q) /\ 2 * i \in 1 .. Len(q)
  BY <1>1, <1>2
<1>4. QueueKey(q[LesserChild(q, i)]) <= QueueKey(q[c])
  BY <1>1, <1>2, <1>3 DEF LesserChild
<1>5. LesserChild(q, i) \in i + 1 .. Len(q) /\ LesserChild(q, i) \div 2 = i
  BY <1>1, <1>3, LesserIs
<1> QED BY <1>1, <1>3, <1>4, <1>5

\* The elements of t from lo on are in order with their children, the one at
\* k and its parent apart; so are these when another element than x is at k.
Sunk(t, q, k, x, lo) ==
    /\ \A j \in 2 .. Len(q) : lo <= j \div 2 /\ j # k => Pair(t, j)
    /\ t[k] = x => t = [q EXCEPT ![k] = x]
    /\ t[k] # x /\ k > 1 /\ lo <= k \div 2 => Pair(t, k)

\* sift_down from k orders what is below, and the element it leaves at k with
\* its parent when that is another one than x.  The elements from lo on have
\* their children in order, k and its parent apart.
LEMMA DownOrdered ==
    ASSUME NEW E \in SUBSET Nat, NEW q \in Seq(E), NEW k \in 1 .. Len(q), NEW x \in E,
           NEW lo \in 1 .. k,
           \A j \in 2 .. Len(q) : lo <= j \div 2 /\ j # k /\ j \div 2 # k => Pair(q, j),
           \A j \in 2 .. Len(q) : j \div 2 = k /\ lo <= k \div 2 =>
              QueueKey(q[k \div 2]) <= QueueKey(q[j])
    PROVE  Replaces(SiftDown(q, k, x), q, E, k, x) /\ Sunk(SiftDown(q, k, x), q, k, x, lo)
<1> DEFINE n == Len(q)
           t == SiftDown(q, k, x)
           next == DownNext(q, k, x)
           rank == Depth(k .. n, n)
           Child(i) == LesserChild(q, i)
<1>1. /\ n \in Nat /\ DOMAIN q = 1 .. n /\ QueueKey(x) \in Nat
      /\ \A j \in 1 .. n : QueueKey(q[j]) \in Nat
  BY Keys
<1>2. k \in Nat \ {0} /\ lo \in Nat \ {0} /\ lo <= k
  BY <1>1
<1>3. PICK P, e : Path(P, k .. n, k, e, rank, next) /\ t = Shifted(q, P, e, next, x)
  BY <1>1, SiftDownIs
<1>4. Leads(k .. n, n, rank, next)
  BY <1>1, DownLeads
<1>5. k .. n \in SUBSET DOMAIN q
  BY <1>1
<1>6. Replaces(t, q, E, k, x)
  <2> HIDE DEF t, next, rank
  <2> QED BY <1>3, <1>4, <1>5, ShiftedCounts
<1>7. /\ P \subseteq k .. n /\ k \in P /\ e \in P
      /\ \A j \in P : j <= e
      /\ \A j \in P : j # e => 2 * j <= n /\ Child(j) \in P /\ next[j] = Child(j)
                               /\ QueueKey(x) > QueueKey(q[Child(j)])
      /\ 2 * e <= n => ~(QueueKey(x) > QueueKey(q[Child(e)]))
      /\ \A j \in P : j # k => \E c \in P : c # e /\ Child(c) = j
  <2> HIDE DEF t
  <2>1. /\ P \subseteq k .. n /\ k \in P /\ e \in P /\ next[e] = e
        /\ \A j \in P : rank[e] <= rank[j]
        /\ \A j \in P : j # e => next[j] # j /\ next[j] \in P
        /\ \A j \in P : j # k => \E c \in P : c # e /\ next[c] = j
    BY <1>3 DEF Path
  <2>2. \A j \in k .. n : next[j] = IF 2 * j <= n /\ QueueKey(x) > QueueKey(q[Child(j)])
                                    THEN Child(j) ELSE j
    BY DEF DownNext
  <2>3. \A j \in k .. n : rank[j] = n - j /\ j \in Nat \ {0}
    BY <1>1 DEF Depth
  <2>4. \A j \in k .. n : 2 * j <= n => Child(j) # j
    <3>1. ASSUME NEW j \in k .. n, 2 * j <= n PROVE Child(j) \in j + 1 .. n
      BY <1>1, <2>3, <3>1, LesserIs
    <3> HIDE DEF Child
    <3> QED BY <1>1, <3>1
  <2> HIDE DEF next, rank, Child
  <2>5. \A j \in P : j <= e
    BY <1>1, <2>1, <2>3
  <2>6. \A j \in P : j # e => 2 * j <= n /\ Child(j) \in P /\ next[j] = Child(j)
                               /\ QueueKey(x) > QueueKey(q[Child(j)])
    BY <2>1, <2>2
  <2>7. 2 * e <= n => ~(QueueKey(x) > QueueKey(q[Child(e)]))
    BY <2>1, <2>2, <2>4
  <2>8. \A j \in P : j # k => \E c \in P : c # e /\ Child(c) = j
    BY <2>1, <2>6
  <2> QED BY <2>1, <2>5, <2>6, <2>7, <2>8
<1>8. \A j \in 1 .. n : t[j] = IF j = e THEN x ELSE IF j \in P THEN q[next[j]] ELSE q[j]
  BY <1>1, <1>3 DEF Shifted
<1>9. \A i \in Nat \ {0} : \A c \in 1 .. n : c \div 2 = i =>
         /\ 2 * i <= n /\ QueueKey(q[Child(i)]) <= QueueKey(q[c])
         /\ Child(i) \in 2 .. n /\ Child(i) \div 2 = i
  BY Children
<1>10. \A i \in Nat \ {0} : 2 * i <= n => Child(i) \in i + 1 .. n /\ Child(i) \div 2 = i
  BY <1>1, LesserIs
<1>11. \A j \in 2 .. n : lo <= j \div 2 /\ j # k /\ j \div 2 # k =>
          QueueKey(q[j \div 2]) <= QueueKey(q[j])
  BY DEF Pair
<1>12. lo <= k \div 2 => \A j \in 2 .. n : j \div 2 = k => QueueKey(q[k \div 2]) <= QueueKey(q[j])
  OBVIOUS
<1>13. \A i \in P : i \in Nat \ {0} /\ i \in k .. n /\ i <= e
  BY <1>1, <1>2, <1>7
<1> HIDE DEF t, n, next, rank, Child
<1>14. \A i \in P : i # e => t[i] = q[Child(i)] /\ Child(i) \in P /\ Child(i) \div 2 = i
                             /\ Child(i) \in i + 1 .. n
  <2> SUFFICES ASSUME NEW i \in P, i # e
               PROVE  t[i] = q[Child(i)] /\ Child(i) \in P /\ Child(i) \div 2 = i
                      /\ Child(i) \in i + 1 .. n
    OBVIOUS
  <2>1. i \in 1 .. n
    BY <1>1, <1>2, <1>13
  <2>2. t[i] = q[next[i]] /\ next[i] = Child(i) /\ Child(i) \in P /\ 2 * i <= n
    BY <1>7, <1>8, <2>1
  <2> QED BY <1>10, <1>13, <2>2
<1>15. ASSUME NEW j \in 2 .. n, lo <= j \div 2, j # k \/ t[k] # x
       PROVE  Pair(t, j)
  <2> DEFINE p == j \div 2
  <2>1. p \in 1 .. n /\ p < j /\ j \in 1 .. n /\ p \in Nat \ {0} /\ j \in Nat
    BY <1>1, Halves
  <2>2. QueueKey(q[p]) \in Nat /\ QueueKey(q[j]) \in Nat /\ QueueKey(x) \in Nat
    BY <1>1, <2>1
  <2>3. j # k /\ p # k => QueueKey(q[p]) <= QueueKey(q[j])
    BY <1>11, <1>15
  <2>4. 2 * p <= n /\ QueueKey(q[Child(p)]) <= QueueKey(q[j])
    BY <1>9, <2>1
  <2>5. j \in P /\ j # k => p \in P /\ p # e /\ Child(p) = j
    BY <1>7, <1>14
  <2> SUFFICES QueueKey(t[p]) <= QueueKey(t[j])
    BY DEF Pair
  <2>6. lo <= p
    BY <1>15
  <2>7. p = k => lo <= k
    BY <1>2
  <2> DEFINE c == Child(j)
  <2>8. j \in P /\ j # e => /\ t[j] = q[c] /\ c \div 2 = j /\ c \in 2 .. n /\ c # k /\ c # p
                            /\ QueueKey(q[c]) \in Nat
    <3> SUFFICES ASSUME j \in P, j # e
                 PROVE  /\ t[j] = q[c] /\ c \div 2 = j /\ c \in 2 .. n /\ c # k /\ c # p
                        /\ QueueKey(q[c]) \in Nat
      OBVIOUS
    <3>1. t[j] = q[c] /\ c \div 2 = j /\ c \in j + 1 .. n /\ k <= j
      BY <1>13, <1>14
    <3> HIDE DEF c, p
    <3>2. c \in 2 .. n /\ c \in 1 .. n /\ c # k /\ c # p
      BY <1>1, <1>2, <2>1, <3>1
    <3> QED BY <1>1, <3>1, <3>2
  <2>9. CASE p \notin P /\ j # k
    <3>1. j \notin P /\ p # k /\ j # e /\ p # e
      BY <1>7, <2>5, <2>9
    <3>2. t[j] = q[j] /\ t[p] = q[p]
      BY <1>8, <2>1, <2>9, <3>1
    <3> QED BY <2>3, <2>9, <3>1, <3>2
  <2>10. CASE p \notin P /\ j = k
    <3>1. j # e /\ j \in P
      BY <1>7, <1>8, <1>15, <2>1, <2>10
    <3>2. t[p] = q[p]
      BY <1>7, <1>8, <2>1, <2>10
    <3>3. QueueKey(q[p]) <= QueueKey(q[c])
      BY <1>12, <2>6, <2>8, <2>10, <3>1
    <3> QED BY <2>8, <3>1, <3>2, <3>3
  <2>11. CASE p \in P /\ p = e
    <3>1. j \notin P
      BY <1>13, <2>1, <2>11
    <3>2. t[p] = x /\ t[j] = q[j]
      BY <1>7, <1>8, <2>1, <2>11, <3>1
    <3>3. ~(QueueKey(x) > QueueKey(q[Child(p)])) /\ QueueKey(q[Child(p)]) \in Nat
      BY <1>1, <1>7, <1>9, <2>1, <2>4, <2>11
    <3> QED BY <2>2, <2>4, <3>2, <3>3
  <2>12. CASE p \in P /\ p # e
    <3>1. t[p] = q[Child(p)] /\ j # k /\ k <= p
      BY <1>13, <1>14, <2>1, <2>12
    <3>2. CASE j = Child(p) /\ j = e
      <4>1. t[j] = x /\ QueueKey(x) > QueueKey(q[j])
        BY <1>7, <1>8, <2>1, <2>12, <3>2
      <4> QED BY <2>2, <3>1, <3>2, <4>1
    <3>3. CASE j = Child(p) /\ j # e
      <4>1. j \in P
        BY <1>14, <2>12, <3>3
      <4>2. t[j] = q[c] /\ c \div 2 = j /\ c \in 2 .. n /\ c # k /\ lo <= j
        BY <1>2, <2>1, <2>6, <2>8, <3>3, <4>1
      <4>3. QueueKey(q[j]) <= QueueKey(q[c])
        BY <1>11, <3>1, <4>2
      <4> QED BY <3>1, <3>3, <4>2, <4>3
    <3>4. CASE j # Child(p)
      <4>1. j \notin P
        BY <2>5, <3>1, <3>4
      <4>2. t[j] = q[j]
        BY <1>7, <1>8, <2>1, <4>1
      <4> QED BY <2>4, <3>1, <4>2
    <3> QED BY <3>2, <3>3, <3>4
  <2> QED BY <2>9, <2>10, <2>11, <2>12
<1>16. ASSUME t[k] = x PROVE t = [q EXCEPT ![k] = x]
  <2>1. e = k
    <3> SUFFICES ASSUME e # k PROVE FALSE
      OBVIOUS
    <3>1. t[k] = q[Child(k)] /\ QueueKey(x) > QueueKey(q[Child(k)])
      BY <1>7, <1>14
    <3>2. QueueKey(x) \in Nat
      BY <1>1
    <3> QED BY <1>16, <3>1, <3>2
  <2>2. P = {k}
    <3>1. \A i \in P : i \in Nat /\ k <= i /\ i <= k
      BY <1>1, <1>13, <2>1
    <3>2. \A i \in P : i = k
      BY <1>2, <3>1
    <3> QED BY <1>7, <3>2
  <2>3. t = [j \in DOMAIN q |-> IF j = e THEN x ELSE IF j \in P THEN q[next[j]] ELSE q[j]]
    BY <1>3 DEF Shifted, t, next
  <2> QED BY <2>1, <2>2, <2>3
<1>17. k > 1 => k \in 2 .. n
  BY <1>1, <1>2 DEF n
<1>18. Sunk(t, q, k, x, lo)
  BY <1>15, <1>16, <1>17 DEF Sunk, n
<1> QED BY <1>6, <1>18 DEF t

-----------------------------------------------------------------------------
\* What a call that takes x out leaves of q, and one that puts x in.
Took(t, q, E, x) ==
    /\ t \in Seq(E) /\ Len(t) = Len(q) - 1
    /\ \A y : Occurrences(t, y) = Occurrences(q, y) - One(x = y)
Put(t, q, E, x) ==
    /\ t \in Seq(E) /\ Len(t) = Len(q) + 1
    /\ \A y : Occurrences(t, y) = Occurrences(q, y) + One(x = y)

\* Counts are numbers.
LEMMA OccurrencesType ==
    ASSUME NEW E, NEW s \in Seq(E) PROVE \A y : Occurrences(s, y) \in Nat
BY PlacesFinite

\* The elements before the last one.
LEMMA FrontIs ==
    ASSUME NEW E, NEW q \in Seq(E), q # <<>>
    PROVE  /\ Took(Front(q), q, E, Last(q)) /\ Last(q) \in E /\ Last(q) = q[Len(q)]
           /\ Len(q) \in Nat \ {0} /\ Len(Front(q)) = Len(q) - 1
           /\ \A i \in 1 .. Len(q) - 1 : Front(q)[i] = q[i]
<1> DEFINE n == Len(q)
           f == Front(q)
<1>1. n \in Nat \ {0} /\ DOMAIN q = 1 .. n /\ q \in [1 .. n -> E]
  BY LenProperties, EmptySeq
<1>2. Last(q) = q[n] /\ q[n] \in E
  BY <1>1 DEF Last
<1>3. f \in Seq(E) /\ Len(f) = n - 1 /\ \A i \in 1 .. n - 1 : f[i] = q[i]
  BY <1>1, SubSeqProperties DEF Front
<1>4. Append(f, q[n]) \in Seq(E) /\ Len(Append(f, q[n])) = n
      /\ \A i \in 1 .. n : Append(f, q[n])[i] = q[i]
  <2>1. /\ Append(f, q[n]) \in Seq(E) /\ Len(Append(f, q[n])) = Len(f) + 1
        /\ \A i \in 1 .. Len(f) : Append(f, q[n])[i] = f[i]
        /\ Append(f, q[n])[Len(f) + 1] = q[n]
    BY <1>2, <1>3, AppendProperties
  <2> HIDE DEF f, n
  <2> QED BY <1>1, <1>3, <2>1
<1>5. q = Append(f, q[n])
  <2> HIDE DEF f
  <2> QED BY <1>1, <1>4, SeqEqual
<1> HIDE DEF f
<1>6. ASSUME NEW y PROVE Occurrences(f, y) = Occurrences(q, y) - One(Last(q) = y)
  <2> DEFINE z == q[n]
  <2>1. Occurrences(q, y) = Occurrences(f, y) + One(z = y)
    <3>1. z \in E /\ f \in Seq(E) /\ q = Append(f, z)
      BY <1>2, <1>3, <1>5
    <3> HIDE DEF z
    <3>2. Occurrences(Append(f, z), y) = Occurrences(f, y) + One(z = y)
      BY <3>1, OccurrencesAppend
    <3> QED BY <3>1, <3>2
  <2>2. Occurrences(f, y) \in Nat
    BY <1>3, OccurrencesType
  <2> QED BY <1>2, <2>1, <2>2 DEF One
<1> QED BY <1>1, <1>2, <1>3, <1>6 DEF Took, f

\* The elements after the first one.
LEMMA TailIs ==
    ASSUME NEW E, NEW q \in Seq(E), q # <<>>
    PROVE  Took(Tail(q), q, E, Head(q)) /\ Head(q) \in E
<1> DEFINE t == Tail(q)
           x == Head(q)
<1>1. t \in Seq(E) /\ x \in E /\ x = q[1] /\ Len(q) \in Nat \ {0} /\ Len(t) = Len(q) - 1
      /\ \A i \in 1 .. Len(q) - 1 : t[i] = q[i + 1]
  BY Pop
<1> HIDE DEF t, x
<1>2. <<x>> \o t = q
  <2>1. /\ <<x>> \o t \in Seq(E) /\ Len(<<x>> \o t) = Len(t) + 1 /\ (<<x>> \o t)[1] = x
        /\ \A i \in 2 .. Len(t) + 1 : (<<x>> \o t)[i] = t[i - 1]
    BY <1>1, Push
  <2>2. \A i \in 2 .. Len(q) : t[i - 1] = q[i]
    <3>1. \A i \in 2 .. Len(q) : i - 1 \in 1 .. Len(q) - 1 /\ (i - 1) + 1 = i
      BY <1>1
    <3> QED BY <1>1, <3>1
  <2>3. \A i \in 1 .. Len(q) : (<<x>> \o t)[i] = q[i]
    <3>1. \A i \in 1 .. Len(q) : i = 1 \/ i \in 2 .. Len(q)
      BY <1>1
    <3> QED BY <1>1, <2>1, <2>2, <3>1
  <2>4. Len(<<x>> \o t) = Len(q)
    BY <1>1, <2>1
  <2> QED BY <2>1, <2>3, <2>4, SeqEqual
<1>3. ASSUME NEW y PROVE Occurrences(t, y) = Occurrences(q, y) - One(x = y)
  <2>1. Occurrences(<<x>> \o t, y) = Occurrences(t, y) + One(x = y)
    BY <1>1, OccurrencesPush
  <2>2. Occurrences(t, y) \in Nat
    BY <1>1, OccurrencesType
  <2>3. Occurrences(q, y) = Occurrences(t, y) + One(x = y)
    BY <1>2, <2>1
  <2> QED BY <2>2, <2>3 DEF One
<1> QED BY <1>1, <1>3 DEF Took, t, x

-----------------------------------------------------------------------------
\* add, poll and remove-at keep a heap a heap, and its elements.
LEMMA AddedIs ==
    ASSUME NEW E \in SUBSET Nat, NEW q \in Seq(E), InHeapOrder(q), NEW x \in E
    PROVE  Put(Added(q, x), q, E, x) /\ InHeapOrder(Added(q, x))
<1> DEFINE n == Len(q) + 1
           u == Append(q, x)
           t == SiftUp(u, n, x)
<1>1. Len(q) \in Nat /\ n \in Nat \ {0} /\ Len(q) = n - 1
  BY LenProperties
<1>2. u \in Seq(E) /\ Len(u) = n /\ u[n] = x /\ \A i \in 1 .. Len(q) : u[i] = q[i]
  BY <1>1, AppendProperties
<1>3. \A y : Occurrences(u, y) = Occurrences(q, y) + One(x = y)
  BY OccurrencesAppend
<1> HIDE DEF u, n
<1>4. \A j \in 2 .. n : j # n => Pair(u, j)
  <2> SUFFICES ASSUME NEW j \in 2 .. n, j # n PROVE Pair(u, j)
    OBVIOUS
  <2>1. j \in 2 .. Len(q) /\ j \in 1 .. Len(q) /\ j \div 2 \in 1 .. Len(q)
    BY <1>1, Halves
  <2>2. u[j] = q[j] /\ u[j \div 2] = q[j \div 2]
    BY <1>2, <2>1
  <2> QED BY <2>1, <2>2 DEF Pair, InHeapOrder
<1>5. \A j \in 2 .. n : j \div 2 # n
  BY <1>1, Halves
<1>6. Replaces(t, u, E, n, x) /\ InHeapOrder(t)
  <2>1. n \in 1 .. Len(u)
    BY <1>1, <1>2
  <2> QED BY <1>2, <1>4, <1>5, <2>1, UpOrdered
<1> HIDE DEF t
<1>7. \A y : Occurrences(t, y) = Occurrences(q, y) + One(x = y)
  <2> SUFFICES ASSUME NEW y PROVE Occurrences(t, y) = Occurrences(q, y) + One(x = y)
    OBVIOUS
  <2>1. Occurrences(t, y) = Occurrences(u, y) - One(x = y) + One(x = y)
    BY <1>2, <1>6 DEF Replaces
  <2>2. Occurrences(u, y) = Occurrences(q, y) + One(x = y) /\ Occurrences(q, y) \in Nat
    BY <1>3, OccurrencesType
  <2> QED BY <2>1, <2>2 DEF One
<1>8. t \in Seq(E) /\ Len(t) = Len(q) + 1
  BY <1>2, <1>6 DEF Replaces, n
<1> QED BY <1>6, <1>7, <1>8 DEF Put, Added, t, u, n

\* The elements of a heap before its last one are a heap.
LEMMA FrontOrdered ==
    ASSUME NEW E \in SUBSET Nat, NEW q \in Seq(E), q # <<>>, InHeapOrder(q)
    PROVE  InHeapOrder(Front(q))
<1>1. Len(q) \in Nat \ {0} /\ Len(Front(q)) = Len(q) - 1 /\ \A i \in 1 .. Len(q) - 1 : Front(q)[i] = q[i]
  BY FrontIs
<1>2. ASSUME NEW j \in 2 .. Len(Front(q)) PROVE Pair(Front(q), j)
  <2>1. j \in 2 .. Len(q) /\ j \in 1 .. Len(q) - 1 /\ j \div 2 \in 1 .. Len(q) - 1
    BY <1>1, Halves
  <2>2. Front(q)[j] = q[j] /\ Front(q)[j \div 2] = q[j \div 2]
    BY <1>1, <2>1
  <2> QED BY <2>1, <2>2 DEF Pair, InHeapOrder
<1> QED BY <1>2 DEF InHeapOrder

\* The last element sifted down from i takes the place of what was there.
LEMMA ReplacedByLast ==
    ASSUME NEW E \in SUBSET Nat, NEW q \in Seq(E), q # <<>>, NEW i \in 1 .. Len(q) - 1,
           NEW t, Replaces(t, Front(q), E, i, Last(q))
    PROVE  Took(t, q, E, q[i])
<1> DEFINE f == Front(q)
           x == Last(q)
<1>1. /\ Took(f, q, E, x) /\ x \in E /\ Len(q) \in Nat \ {0} /\ Len(f) = Len(q) - 1
      /\ \A j \in 1 .. Len(q) - 1 : f[j] = q[j]
  BY FrontIs
<1> HIDE DEF f, x
<1>2. f[i] = q[i]
  BY <1>1
<1>3. t \in Seq(E) /\ Len(t) = Len(q) - 1
  BY <1>1 DEF Replaces, f
<1>4. ASSUME NEW y PROVE Occurrences(t, y) = Occurrences(q, y) - One(q[i] = y)
  <2>1. Occurrences(t, y) = Occurrences(f, y) - One(q[i] = y) + One(x = y)
    BY <1>2 DEF Replaces, f, x
  <2>2. Occurrences(f, y) = Occurrences(q, y) - One(x = y)
    BY <1>1 DEF Took
  <2>3. Occurrences(q, y) \in Nat
    BY OccurrencesType
  <2> QED BY <2>1, <2>2, <2>3 DEF One
<1> QED BY <1>3, <1>4 DEF Took

\* poll takes the root out and leaves a heap.
LEMMA PolledIs ==
    ASSUME NEW E \in SUBSET Nat, NEW q \in Seq(E), q # <<>>, InHeapOrder(q)
    PROVE  Took(Polled(q), q, E, Head(q)) /\ InHeapOrder(Polled(q))
<1> DEFINE f == Front(q)
           x == Last(q)
           t == SiftDown(f, 1, x)
<1>1. /\ Took(f, q, E, x) /\ x \in E /\ Len(q) \in Nat \ {0} /\ Len(f) = Len(q) - 1
      /\ \A j \in 1 .. Len(q) - 1 : f[j] = q[j]
      /\ x = q[Len(q)] /\ f \in Seq(E)
  BY FrontIs DEF Took
<1>2. Head(q) = q[1]
  BY Pop
<1>3. InHeapOrder(f)
  BY FrontOrdered
<1> HIDE DEF f, x
<1>4. CASE Len(q) = 1
  <2>1. Polled(q) = <<>> /\ f = <<>>
    <3>1. Len(f) = 0
      BY <1>1, <1>4
    <3>2. f = <<>>
      BY <1>1, <3>1, EmptySeq
    <3> QED BY <1>4, <3>2 DEF Polled
  <2>2. x = Head(q)
    BY <1>1, <1>2, <1>4
  <2> QED BY <1>1, <1>3, <2>1, <2>2
<1>5. CASE Len(q) # 1
  <2>1. 1 \in 1 .. Len(f) /\ 1 \in 1 .. Len(q) - 1
    BY <1>1, <1>5
  <2>2. \A j \in 2 .. Len(f) : Pair(f, j)
    BY <1>3 DEF InHeapOrder
  <2>3. ~(1 <= 1 \div 2)
    OBVIOUS
  <2>8. 1 \in 1 .. 1
    OBVIOUS
  <2>9. Replaces(t, f, E, 1, x) /\ Sunk(t, f, 1, x, 1)
    BY <1>1, <2>1, <2>2, <2>3, <2>8, DownOrdered
  <2> HIDE DEF t
  <2>4. Replaces(t, f, E, 1, x) /\ \A j \in 2 .. Len(f) : 1 <= j \div 2 /\ j # 1 => Pair(t, j)
    BY <2>9 DEF Sunk
  <2>5. \A j \in 2 .. Len(f) : 1 <= j \div 2 /\ j # 1
    BY <1>1, Halves
  <2>6. InHeapOrder(t)
    BY <2>4, <2>5 DEF InHeapOrder, Replaces
  <2>7. Took(t, q, E, q[1])
    BY <2>1, <2>4, ReplacedByLast DEF f, x
  <2> QED BY <1>2, <1>5, <2>6, <2>7 DEF Polled, t, f, x
<1> QED BY <1>4, <1>5

\* remove-at sifts the last element down from the gap and, where it stays, up.
LEMMA RemovedAtIs ==
    ASSUME NEW E \in SUBSET Nat, NEW q \in Seq(E), InHeapOrder(q), NEW i \in 1 .. Len(q)
    PROVE  Took(RemovedAt(q, i), q, E, q[i]) /\ InHeapOrder(RemovedAt(q, i))
<1> DEFINE f == Front(q)
           x == Last(q)
           d == SiftDown(f, i, x)
           u == SiftUp(d, i, x)
<1>1. q # <<>> /\ i \in Nat \ {0}
  BY LenProperties, EmptySeq
<1>2. /\ Took(f, q, E, x) /\ x \in E /\ Len(q) \in Nat \ {0} /\ Len(f) = Len(q) - 1
      /\ \A j \in 1 .. Len(q) - 1 : f[j] = q[j]
      /\ x = q[Len(q)] /\ f \in Seq(E)
  BY <1>1, FrontIs DEF Took
<1>3. InHeapOrder(f)
  BY <1>1, FrontOrdered
<1> HIDE DEF f, x
<1>4. CASE i = Len(q)
  <2>1. RemovedAt(q, i) = f
    BY <1>4 DEF RemovedAt, f
  <2> QED BY <1>2, <1>3, <1>4, <2>1
<1>5. CASE i # Len(q)
  <2>1. i \in 1 .. Len(f) /\ i \in 1 .. Len(q) - 1 /\ 1 \in 1 .. i
    BY <1>1, <1>2, <1>5
  <2>2. \A j \in 2 .. Len(f) : Pair(f, j)
    BY <1>3 DEF InHeapOrder
  <2>3. /\ \A j \in 1 .. Len(f) : QueueKey(f[j]) \in Nat
        /\ QueueKey(x) \in Nat /\ Len(f) \in Nat
    BY <1>2, Keys
  <2>4. \A j \in 2 .. Len(f) : j \in 1 .. Len(f) /\ j \div 2 \in 1 .. Len(f) /\ j # j \div 2
                               /\ 1 <= j \div 2
    BY <2>3, Halves
  <2>5. i > 1 => i \in 2 .. Len(f) /\ i \div 2 \in 1 .. Len(f) /\ i \div 2 # i /\ 1 <= i \div 2
    BY <1>1, <2>1, <2>3, Halves
  <2>6. \A j \in 2 .. Len(f) : j \div 2 = i /\ i > 1 => QueueKey(f[i \div 2]) <= QueueKey(f[j])
    <3> SUFFICES ASSUME NEW j \in 2 .. Len(f), j \div 2 = i, i > 1
                 PROVE  QueueKey(f[i \div 2]) <= QueueKey(f[j])
      OBVIOUS
    <3>1. QueueKey(f[i]) <= QueueKey(f[j]) /\ QueueKey(f[i \div 2]) <= QueueKey(f[i])
      BY <2>2, <2>5 DEF Pair
    <3>2. QueueKey(f[i]) \in Nat /\ QueueKey(f[j]) \in Nat /\ QueueKey(f[i \div 2]) \in Nat
      BY <2>1, <2>3, <2>4, <2>5
    <3> QED BY <3>1, <3>2
  <2>7. 1 <= i \div 2 => i > 1
    BY <1>1
  <2>8. Replaces(d, f, E, i, x) /\ Sunk(d, f, i, x, 1)
    <3>1. \A j \in 2 .. Len(f) : j \div 2 = i /\ 1 <= i \div 2 =>
             QueueKey(f[i \div 2]) <= QueueKey(f[j])
      BY <2>6, <2>7
    <3> QED BY <1>2, <2>1, <2>2, <3>1, DownOrdered
  <2> HIDE DEF d
  <2>9. d \in Seq(E) /\ Len(d) = Len(f) /\ Took(d, q, E, q[i])
    BY <1>1, <2>1, <2>8, ReplacedByLast DEF Replaces, f, x
  <2>10. CASE d[i] = x
    <3>1. d = [f EXCEPT ![i] = x] /\ \A j \in 2 .. Len(d) : j # i => Pair(d, j)
      BY <2>4, <2>8, <2>9, <2>10 DEF Sunk
    <3>2. \A j \in 1 .. Len(f) : j # i => d[j] = f[j]
      BY <1>2, <3>1, LenProperties
    <3>3. \A j \in 2 .. Len(d) : j \div 2 = i =>
             /\ QueueKey(x) <= QueueKey(d[j])
             /\ i > 1 => QueueKey(d[i \div 2]) <= QueueKey(d[j])
      <4> SUFFICES ASSUME NEW j \in 2 .. Len(d), j \div 2 = i
                   PROVE  /\ QueueKey(x) <= QueueKey(d[j])
                          /\ i > 1 => QueueKey(d[i \div 2]) <= QueueKey(d[j])
        OBVIOUS
      <4>1. j # i /\ j \in 2 .. Len(f) /\ j \in 1 .. Len(f)
        BY <2>4, <2>9
      <4>2. QueueKey(x) <= QueueKey(d[j])
        BY <2>10, <3>1, <4>1 DEF Pair
      <4>3. d[j] = f[j] /\ (i > 1 => d[i \div 2] = f[i \div 2])
        BY <2>5, <3>2, <4>1
      <4> QED BY <2>6, <4>1, <4>2, <4>3
    <3>4. i \in 1 .. Len(d) /\ \A j \in 2 .. Len(d) : j # i /\ j \div 2 # i => Pair(d, j)
      BY <2>1, <2>9, <3>1
    <3>5. Replaces(u, d, E, i, x) /\ InHeapOrder(u)
      BY <1>2, <2>9, <3>3, <3>4, UpOrdered
    <3> HIDE DEF u
    <3>6. \A y : Occurrences(u, y) = Occurrences(d, y)
      <4> SUFFICES ASSUME NEW y PROVE Occurrences(u, y) = Occurrences(d, y)
        OBVIOUS
      <4>1. Occurrences(u, y) = Occurrences(d, y) - One(x = y) + One(x = y)
        BY <2>10, <3>5 DEF Replaces
      <4>2. Occurrences(d, y) \in Nat
        BY <2>9, OccurrencesType
      <4> QED BY <4>1, <4>2 DEF One
    <3>7. Took(u, q, E, q[i])
      BY <2>9, <3>5, <3>6 DEF Took, Replaces
    <3>8. RemovedAt(q, i) = u
      BY <1>5, <2>10 DEF RemovedAt, u, d, f, x
    <3> QED BY <3>5, <3>7, <3>8
  <2>11. CASE d[i] # x
    <3>1. \A j \in 2 .. Len(d) : Pair(d, j)
      BY <2>4, <2>5, <2>8, <2>9, <2>11 DEF Sunk
    <3>2. RemovedAt(q, i) = d
      BY <1>5, <2>11 DEF RemovedAt, d, f, x
    <3> QED BY <2>9, <3>1, <3>2 DEF InHeapOrder
  <2> QED BY <2>10, <2>11
<1> QED BY <1>4, <1>5

-----------------------------------------------------------------------------
\* sift_down keeps the elements whatever their order.
LEMMA DownReplaces ==
    ASSUME NEW E, NEW q \in Seq(E), NEW k \in 1 .. Len(q), NEW x \in E
    PROVE  Replaces(SiftDown(q, k, x), q, E, k, x)
<1> DEFINE n == Len(q)
           t == SiftDown(q, k, x)
           next == DownNext(q, k, x)
           rank == Depth(k .. n, n)
<1>1. n \in Nat /\ DOMAIN q = 1 .. n
  BY LenProperties
<1>2. PICK P, e : Path(P, k .. n, k, e, rank, next) /\ t = Shifted(q, P, e, next, x)
  BY <1>1, SiftDownIs
<1>3. Leads(k .. n, n, rank, next)
  BY <1>1, DownLeads
<1>4. k .. n \in SUBSET DOMAIN q
  BY <1>1
<1> HIDE DEF t, next, rank
<1>5. Replaces(t, q, E, k, x)
  BY <1>2, <1>3, <1>4, ShiftedCounts
<1> QED BY <1>5 DEF t

\* construct makes a heap of any elements.
LEMMA HeapifiedIs ==
    ASSUME NEW E \in SUBSET Nat, NEW s \in Seq(E)
    PROVE  /\ Heapified(s) \in Seq(E) /\ InHeapOrder(Heapified(s))
           /\ \A y : Occurrences(Heapified(s), y) = Occurrences(s, y)
<1> DEFINE n == Len(s)
           half == n \div 2
           S == 1 .. half + 1
           V == {q \in Seq(E) : Len(q) = n}
           rank == [i \in S |-> half + 1 - i]
           next == [i \in S |-> IF i > half THEN i ELSE i + 1]
           base == [i \in S |-> s]
           step == [i \in S |-> [q \in V |-> IF i > half THEN s ELSE SiftDown(q, i, q[i])]]
           done == CHOOSE f : f = [i \in S |-> IF i > half THEN s
                                               ELSE SiftDown(f[i + 1], i, f[i + 1][i])]
<1>1. n \in Nat /\ half \in Nat /\ half <= n /\ (half = n => n = 0)
  BY LenProperties
<1>2. base \in [S -> V]
  OBVIOUS
<1>3. ASSUME NEW q \in V, NEW i \in 1 .. half
      PROVE  Replaces(SiftDown(q, i, q[i]), q, E, i, q[i])
  <2>1. q \in Seq(E) /\ i \in 1 .. Len(q)
    BY <1>1, <1>3
  <2>2. q[i] \in E
    BY <2>1, LenProperties
  <2> QED BY <2>1, <2>2, DownReplaces
<1>4. \A q \in V, i \in 1 .. half : SiftDown(q, i, q[i]) \in V
  BY <1>3 DEF Replaces
<1>5. \A i \in S : ~(i > half) => i \in 1 .. half /\ i + 1 \in S
  BY <1>1
<1>6. step \in [S -> [V -> V]]
  <2>1. s \in V
    OBVIOUS
  <2>2. \A i \in S, q \in V : (IF i > half THEN s ELSE SiftDown(q, i, q[i])) \in V
    <3> HIDE DEF V, S, half
    <3> QED BY <1>4, <1>5, <2>1
  <2> HIDE DEF V, S, half
  <2> QED BY <2>2
<1>7. Leads(S, half, rank, next)
  <2> HIDE DEF half
  <2>1. \A i \in S : (IF i > half THEN i ELSE i + 1) \in S /\ half + 1 - i \in 0 .. half
    BY <1>1
  <2>2. \A i \in S : next[i] = i \/ rank[next[i]] < rank[i]
    BY <1>1
  <2> QED BY <1>1, <2>1, <2>2 DEF Leads
<1>8. PICK f \in [S -> V] : Recursive(f, S, next, base, step)
  <2> HIDE DEF S, V, rank, next, base, step, done, half
  <2> QED BY <1>2, <1>6, <1>7, RecursionAlong, Zenon
<1>9. ASSUME NEW i \in S
      PROVE  f[i] = IF i > half THEN s ELSE SiftDown(f[i + 1], i, f[i + 1][i])
  <2>1. f[i] = IF next[i] = i THEN base[i] ELSE step[i][f[next[i]]]
    <3> HIDE DEF S, V, rank, next, base, step, done, half
    <3> QED BY <1>8 DEF Recursive
  <2>2. CASE i > half
    BY <2>1, <2>2
  <2>3. CASE ~(i > half)
    <3>1. i + 1 \in S /\ next[i] = i + 1 /\ next[i] # i
      BY <1>1, <2>3
    <3>2. f[i + 1] \in V /\ f[i] = step[i][f[i + 1]]
      <4> HIDE DEF S, V, next, base, step, half
      <4> QED BY <2>1, <3>1
    <3> HIDE DEF S, V, next, base, half
    <3> QED BY <2>3, <3>2
  <2> QED BY <2>2, <2>3
<1>10. f = [i \in S |-> IF i > half THEN s ELSE SiftDown(f[i + 1], i, f[i + 1][i])]
  <2> HIDE DEF S, V, rank, next, base, step, done, half
  <2> QED BY <1>9
<1>11. done = [i \in S |-> IF i > half THEN s ELSE SiftDown(done[i + 1], i, done[i + 1][i])]
  <2> HIDE DEF S, V, rank, next, base, step, half
  <2> QED BY <1>10, Zenon
<1>12. Heapified(s) = done[1]
  BY DEF Heapified
<1> HIDE DEF done
<1> DEFINE Good(i) == /\ done[i] \in V
                      /\ \A j \in 2 .. n : i <= j \div 2 => Pair(done[i], j)
                      /\ \A y : Occurrences(done[i], y) = Occurrences(s, y)
<1>13. \A i \in S : i > half => Good(i)
  <2> SUFFICES ASSUME NEW i \in S, i > half PROVE Good(i)
    OBVIOUS
  <2>1. done[i] = s
    <3> HIDE DEF S, half, n
    <3> QED BY <1>11
  <2>2. \A j \in 2 .. n : ~(i <= j \div 2)
    BY <1>1
  <2> QED BY <2>1, <2>2
<1>14. ASSUME NEW i \in 1 .. half, Good(i + 1) PROVE Good(i)
  <2> DEFINE q == done[i + 1]
             x == q[i]
             t == SiftDown(q, i, x)
  <2>1. done[i] = t
    <3>1. i \in S /\ ~(i > half)
      BY <1>1
    <3> HIDE DEF S, half
    <3> QED BY <1>11, <3>1
  <2>2. q \in Seq(E) /\ Len(q) = n /\ i \in 1 .. Len(q) /\ i \in Nat \ {0} /\ i \in 1 .. i
        /\ \A y : Occurrences(q, y) = Occurrences(s, y)
    BY <1>1, <1>14
  <2>3. x \in E
    BY <2>2, LenProperties
  <2>4. \A j \in 2 .. Len(q) : i <= j \div 2 /\ j # i /\ j \div 2 # i => Pair(q, j)
    <3>1. \A j \in 2 .. n : j \div 2 \in Nat
      BY <1>1, Halves
    <3>2. \A j \in 2 .. n : i + 1 <= j \div 2 => Pair(q, j)
      BY <1>14
    <3> HIDE DEF q, n
    <3> QED BY <2>2, <3>1, <3>2
  <2>5. ~(i <= i \div 2)
    BY <2>2
  <2> HIDE DEF q, x
  <2>6. Replaces(t, q, E, i, x) /\ Sunk(t, q, i, x, i)
    BY <2>2, <2>3, <2>4, <2>5, DownOrdered
  <2> HIDE DEF t
  <2>7. t \in V
    BY <2>2, <2>6 DEF Replaces
  <2>8. \A j \in 2 .. n : i <= j \div 2 => Pair(t, j)
    <3>1. \A j \in 2 .. n : i <= j \div 2 => j # i
      BY <1>1, <2>2, <2>5
    <3> QED BY <2>2, <2>6, <3>1 DEF Sunk
  <2>9. ASSUME NEW y PROVE Occurrences(t, y) = Occurrences(s, y)
    <3>1. Occurrences(t, y) = Occurrences(q, y) - One(x = y) + One(x = y)
      BY <2>6 DEF Replaces, x
    <3>2. Occurrences(q, y) = Occurrences(s, y) /\ Occurrences(q, y) \in Nat
      BY <2>2, OccurrencesType
    <3> QED BY <3>1, <3>2 DEF One
  <2> QED BY <2>1, <2>7, <2>8, <2>9
<1> DEFINE T == {i \in S : ~Good(i)}
<1>15. T = {}
  <2> SUFFICES ASSUME T # {} PROVE FALSE
    OBVIOUS
  <2> HIDE DEF Good
  <2>1. rank \in [S -> Nat] /\ next \in [S -> S] /\ T \in SUBSET S
        /\ \A i \in S : next[i] = i \/ rank[next[i]] < rank[i]
    <3> HIDE DEF S, half, rank, next
    <3> QED BY <1>7 DEF Leads
  <2>2. PICK i \in T : next[i] = i \/ next[i] \notin T
    <3> HIDE DEF S, half, rank, next, T
    <3> QED BY <2>1, LeadsOut
  <2>3. i \in S /\ ~Good(i) /\ ~(i > half)
    BY <1>13
  <2>4. next[i] = i + 1 /\ i + 1 \in S /\ i \in 1 .. half /\ i + 1 # i
    BY <1>5, <2>3
  <2>5. Good(i + 1)
    <3> HIDE DEF S, half, next
    <3> QED BY <2>2, <2>4
  <2> QED BY <1>14, <2>3, <2>4, <2>5
<1>16. Good(1)
  <2>1. 1 \in S
    BY <1>1
  <2> HIDE DEF Good, S
  <2> QED BY <1>15, <2>1
<1>17. \A j \in 2 .. n : 1 <= j \div 2
  BY <1>1, Halves
<1> QED BY <1>12, <1>16, <1>17 DEF InHeapOrder

-----------------------------------------------------------------------------
\* Each arrival has a number of its own.
Ascending(q) == \A i, j \in DOMAIN q : i < j => q[i] < q[j]

\* A heap holds heap elements, in heap order; a stack or a deque holds numbers
\* of elements that arrived, a stack by arrival.
QueueIInv ==
    /\ kind \in {"PriorityQueue", "Stack", "ArrayDeque"}
    /\ arrivals \in 0 .. MaxArrivals
    /\ taken \in {NotTaken} \cup HeapElements \cup 1 .. MaxArrivals
    /\ kind = "PriorityQueue" => queue \in Seq(HeapElements) /\ InHeapOrder(queue)
    /\ kind # "PriorityQueue" => queue \in Seq(1 .. arrivals)
    /\ kind = "Stack" => Ascending(queue)

\* What Took and Put say of StorageKept.
LEMMA TookCounts ==
    ASSUME NEW E, NEW q \in Seq(E), NEW t, NEW x, Took(t, q, E, x)
    PROVE  /\ Len(t) < Len(q) /\ Occurrences(t, x) - Occurrences(q, x) = Len(t) - Len(q)
           /\ \A y : y # x => Occurrences(t, y) = Occurrences(q, y)
<1>1. Len(q) \in Nat /\ \A y : Occurrences(q, y) \in Nat
  BY LenProperties, OccurrencesType
<1>2. Len(t) = Len(q) - 1 /\ \A y : Occurrences(t, y) = Occurrences(q, y) - One(x = y)
  BY DEF Took
<1>3. One(x = x) = 1 /\ \A y : y # x => One(x = y) = 0
  BY DEF One
<1>4. Occurrences(t, x) = Occurrences(q, x) - 1
  BY <1>2, <1>3
<1>5. \A y : y # x => Occurrences(t, y) = Occurrences(q, y) - 0
  BY <1>2, <1>3
<1> QED BY <1>1, <1>2, <1>4, <1>5

\* The same when an element is put in.
LEMMA PutCounts ==
    ASSUME NEW E, NEW q \in Seq(E), NEW t, NEW x, Put(t, q, E, x)
    PROVE  /\ ~(Len(t) < Len(q)) /\ Occurrences(t, x) - Occurrences(q, x) = Len(t) - Len(q)
           /\ \A y : y # x => Occurrences(t, y) = Occurrences(q, y)
<1>1. Len(q) \in Nat /\ \A y : Occurrences(q, y) \in Nat
  BY LenProperties, OccurrencesType
<1>2. Len(t) = Len(q) + 1 /\ \A y : Occurrences(t, y) = Occurrences(q, y) + One(x = y)
  BY DEF Put
<1>3. One(x = x) = 1 /\ \A y : y # x => One(x = y) = 0
  BY DEF One
<1>4. Occurrences(t, x) = Occurrences(q, x) + 1
  BY <1>2, <1>3
<1>5. \A y : y # x => Occurrences(t, y) = Occurrences(q, y) + 0
  BY <1>2, <1>3
<1> QED BY <1>1, <1>2, <1>4, <1>5

\* A sequence over a set is one over a larger set.
LEMMA WiderSeq ==
    ASSUME NEW S, NEW T, S \subseteq T, NEW s \in Seq(S)
    PROVE  s \in Seq(T)
<1>1. PICK n \in Nat : s \in [1 .. n -> S]
  BY SeqDef
<1>2. s \in [1 .. n -> T]
  BY <1>1
<1> QED BY <1>2, SeqDef

\* A stack or deque that an element arrives at.
LEMMA Arriving ==
    ASSUME NEW n \in Nat, NEW q \in Seq(1 .. n)
    PROVE  /\ q \in Seq(1 .. n + 1)
           /\ Put(Append(q, n + 1), q, 1 .. n + 1, n + 1)
           /\ Put(<<n + 1>> \o q, q, 1 .. n + 1, n + 1)
           /\ Ascending(q) => Ascending(Append(q, n + 1))
<1> DEFINE E == 1 .. n + 1
           x == n + 1
<1>1. q \in Seq(E) /\ x \in E
  <2>1. 1 .. n \subseteq E
    OBVIOUS
  <2>2. x \in E
    OBVIOUS
  <2> HIDE DEF E, x
  <2> QED BY <2>1, <2>2, WiderSeq
<1>2. Len(q) \in Nat /\ DOMAIN q = 1 .. Len(q) /\ \A i \in 1 .. Len(q) : q[i] \in 1 .. n
  BY LenProperties
<1> HIDE DEF E
<1>3. Append(q, x) \in Seq(E) /\ Len(Append(q, x)) = Len(q) + 1
      /\ Append(q, x)[Len(q) + 1] = x /\ \A i \in 1 .. Len(q) : Append(q, x)[i] = q[i]
  BY <1>1, AppendProperties
<1>4. <<x>> \o q \in Seq(E) /\ Len(<<x>> \o q) = Len(q) + 1
  BY <1>1, Push
<1>5. Put(Append(q, x), q, E, x)
  BY <1>1, <1>3, OccurrencesAppend DEF Put
<1>6. Put(<<x>> \o q, q, E, x)
  BY <1>1, <1>4, OccurrencesPush DEF Put
<1>7. ASSUME Ascending(q) PROVE Ascending(Append(q, x))
  <2> DEFINE t == Append(q, x)
  <2>1. DOMAIN t = 1 .. Len(q) + 1
    BY <1>3, LenProperties
  <2>2. t[Len(q) + 1] = x /\ \A i \in 1 .. Len(q) : t[i] = q[i] /\ t[i] \in 1 .. n
    BY <1>2, <1>3
  <2> HIDE DEF t
  <2>3. ASSUME NEW i \in 1 .. Len(q) + 1, NEW j \in 1 .. Len(q) + 1, i < j PROVE t[i] < t[j]
    <3>1. i \in 1 .. Len(q)
      BY <1>2, <2>3
    <3>2. CASE j = Len(q) + 1
      BY <2>2, <3>1, <3>2
    <3>3. CASE j # Len(q) + 1
      <4>1. j \in 1 .. Len(q)
        BY <1>2, <3>3
      <4>2. q[i] < q[j]
        BY <1>2, <1>7, <2>3, <3>1, <4>1 DEF Ascending
      <4> QED BY <2>2, <3>1, <4>1, <4>2
    <3> QED BY <3>2, <3>3
  <2> QED BY <2>1, <2>3 DEF Ascending, t
<1> QED BY <1>1, <1>5, <1>6, <1>7 DEF E

\* A stack that its last element leaves.
LEMMA AscendingFront ==
    ASSUME NEW n \in Nat, NEW q \in Seq(1 .. n), q # <<>>, Ascending(q)
    PROVE  Ascending(Front(q))
<1>1. /\ Front(q) \in Seq(1 .. n) /\ Len(q) \in Nat \ {0} /\ Len(Front(q)) = Len(q) - 1
      /\ \A i \in 1 .. Len(q) - 1 : Front(q)[i] = q[i]
  BY FrontIs DEF Took
<1>2. DOMAIN q = 1 .. Len(q) /\ DOMAIN Front(q) = 1 .. Len(q) - 1
  BY <1>1, LenProperties
<1>3. \A i \in 1 .. Len(q) - 1 : i \in DOMAIN q
  BY <1>1, <1>2
<1>4. ASSUME NEW i \in 1 .. Len(q) - 1, NEW j \in 1 .. Len(q) - 1, i < j
      PROVE  Front(q)[i] < Front(q)[j]
  <2>1. q[i] < q[j]
    BY <1>3, <1>4 DEF Ascending
  <2> QED BY <1>1, <2>1
<1> QED BY <1>2, <1>4 DEF Ascending

-----------------------------------------------------------------------------
\* A call that takes one out or puts one in keeps the storage.
LEMMA KeepsIt ==
    ASSUME QueueIInv', NEW E, queue \in Seq(E), NEW x \in HeapElements \cup 1 .. MaxArrivals,
           \/ Took(queue', queue, E, x) /\ x = taken'
           \/ Put(queue', queue, E, x)
    PROVE  KeepsStorage
<1>1. InStorageOrder'
  BY DEF QueueIInv, InStorageOrder, InHeapOrder, Pair, Ascending
<1>2. /\ Len(queue') < Len(queue) => x = taken'
      /\ Occurrences(queue', x) - Occurrences(queue, x) = Len(queue') - Len(queue)
      /\ \A y : y # x => Occurrences(queue', y) = Occurrences(queue, y)
  BY TookCounts, PutCounts
<1> QED BY <1>1, <1>2 DEF KeepsStorage

\* What construct makes is a heap; a stack or deque begins empty.
LEMMA QueueInitIInv == QueueInit => QueueIInv
<1> SUFFICES ASSUME QueueInit PROVE QueueIInv
  OBVIOUS
<1>1. /\ arrivals = 0 /\ taken = NotTaken /\ HeapElements \in SUBSET Nat /\ MaxArrivals \in Nat
      /\ MaxQueue \in Nat
  BY QueueAssumption DEF QueueInit
<1>2. CASE kind = "PriorityQueue"
  <2>1. PICK n \in 0 .. MaxQueue : \E seed \in [1 .. n -> HeapElements] : queue = Heapified(seed)
    BY <1>2 DEF QueueInit
  <2>2. PICK seed \in [1 .. n -> HeapElements] : queue = Heapified(seed)
    BY <2>1
  <2>3. seed \in Seq(HeapElements)
    BY <1>1, SeqDef
  <2>4. queue \in Seq(HeapElements) /\ InHeapOrder(queue)
    BY <1>1, <2>2, <2>3, HeapifiedIs
  <2> QED BY <1>1, <1>2, <2>4 DEF QueueIInv
<1>3. CASE kind \in {"Stack", "ArrayDeque"} /\ queue = <<>>
  <2>1. queue \in Seq(1 .. arrivals) /\ DOMAIN queue = {}
    BY <1>3
  <2> QED BY <1>1, <1>3, <2>1 DEF QueueIInv, Ascending
<1> QED BY <1>2, <1>3 DEF QueueInit

\* Every call keeps the invariant, and with it the storage.
LEMMA QueueStep == QueueIInv /\ QueueNext => QueueIInv' /\ KeepsStorage
<1> SUFFICES ASSUME QueueIInv, QueueNext PROVE QueueIInv' /\ KeepsStorage
  OBVIOUS
<1>1. HeapElements \in SUBSET Nat /\ MaxArrivals \in Nat /\ arrivals \in 0 .. MaxArrivals /\ arrivals \in Nat
  BY QueueAssumption DEF QueueIInv
<1>2. ASSUME kind = "PriorityQueue", kind' = kind, arrivals' = arrivals,
             NEW x \in HeapElements, InHeapOrder(queue'),
             \/ Took(queue', queue, HeapElements, x) /\ taken' = x
             \/ Put(queue', queue, HeapElements, x) /\ taken' = NotTaken
      PROVE  QueueIInv' /\ KeepsStorage
  <2>1. queue' \in Seq(HeapElements) /\ queue \in Seq(HeapElements)
    BY <1>2 DEF Took, Put, QueueIInv
  <2>2. QueueIInv'
    BY <1>1, <1>2, <2>1 DEF QueueIInv
  <2> QED BY <1>2, <2>1, <2>2, KeepsIt
<1>3. CASE PqAdd
  <2>1. PICK x \in HeapElements : queue' = Added(queue, x)
    BY <1>3 DEF PqAdd
  <2>2. queue \in Seq(HeapElements) /\ InHeapOrder(queue)
    BY <1>3 DEF PqAdd, QueueIInv
  <2>3. Put(queue', queue, HeapElements, x) /\ InHeapOrder(queue')
    BY <1>1, <2>1, <2>2, AddedIs
  <2> QED BY <1>2, <1>3, <2>3 DEF PqAdd
<1>4. CASE PqPoll
  <2>1. queue \in Seq(HeapElements) /\ InHeapOrder(queue) /\ queue # <<>>
    BY <1>4 DEF PqPoll, QueueIInv
  <2>2. Took(queue', queue, HeapElements, Head(queue)) /\ InHeapOrder(queue')
    BY <1>1, <1>4, <2>1, PolledIs DEF PqPoll
  <2>3. Head(queue) \in HeapElements
    BY <2>1, Pop
  <2> QED BY <1>2, <1>4, <2>2, <2>3 DEF PqPoll
<1>5. CASE PqRemove
  <2>1. queue \in Seq(HeapElements) /\ InHeapOrder(queue)
    BY <1>5 DEF PqRemove, QueueIInv
  <2>2. PICK x \in ToSet(queue) :
           taken' = x /\ queue' = RemovedAt(queue, Min({i \in DOMAIN queue : queue[i] = x}))
    BY <1>5 DEF PqRemove
  <2> DEFINE P == {i \in DOMAIN queue : queue[i] = x}
  <2>3. DOMAIN queue = 1 .. Len(queue) /\ Len(queue) \in Nat /\ \A i \in DOMAIN queue : queue[i] \in HeapElements
    BY <2>1, LenProperties
  <2>4. P \in SUBSET Nat /\ P # {} /\ x \in HeapElements
    BY <2>2, <2>3 DEF ToSet
  <2>5. PICK m \in P : \A i \in P : m <= i
    BY <2>4, LeastElement
  <2>6. m \in 1 .. Len(queue) /\ queue[m] = x
    BY <2>3
  <2>7. Min(P) = m
    BY <2>4, <2>5, MinIs
  <2>8. queue' = RemovedAt(queue, m)
    BY <2>2, <2>7
  <2>9. Took(queue', queue, HeapElements, x) /\ InHeapOrder(queue')
    <3>1. Took(RemovedAt(queue, m), queue, HeapElements, queue[m]) /\ InHeapOrder(RemovedAt(queue, m))
      BY <1>1, <2>1, <2>6, RemovedAtIs
    <3> QED BY <2>6, <2>8, <3>1
  <2> QED BY <1>2, <1>5, <2>2, <2>4, <2>9 DEF PqRemove
<1>6. ASSUME kind # "PriorityQueue", kind' = kind, arrivals' = arrivals + 1, taken' = NotTaken,
             arrivals < MaxArrivals,
             Put(queue', queue, 1 .. arrivals + 1, arrivals + 1),
             kind = "Stack" => Ascending(queue')
      PROVE  QueueIInv' /\ KeepsStorage
  <2>1. queue' \in Seq(1 .. arrivals') /\ arrivals' \in 0 .. MaxArrivals /\ arrivals' \in 1 .. MaxArrivals
    BY <1>1, <1>6 DEF Put
  <2>2. QueueIInv'
    BY <1>6, <2>1 DEF QueueIInv
  <2>3. queue \in Seq(1 .. arrivals')
    BY <1>1, <1>6, Arriving DEF QueueIInv
  <2> QED BY <1>6, <2>1, <2>2, <2>3, KeepsIt
<1>7. ASSUME kind # "PriorityQueue", UNCHANGED <<kind, arrivals>>, NEW x, taken' = x,
             x \in 1 .. arrivals,
             Took(queue', queue, 1 .. arrivals, x),
             kind = "Stack" => Ascending(queue')
      PROVE  QueueIInv' /\ KeepsStorage
  <2>1. queue' \in Seq(1 .. arrivals') /\ x \in 1 .. MaxArrivals
    BY <1>1, <1>7 DEF Took
  <2>2. QueueIInv'
    BY <1>1, <1>7, <2>1 DEF QueueIInv
  <2>3. queue \in Seq(1 .. arrivals)
    BY <1>7 DEF QueueIInv
  <2> QED BY <1>7, <2>1, <2>2, <2>3, KeepsIt
<1>8. kind # "PriorityQueue" =>
         /\ queue \in Seq(1 .. arrivals)
         /\ Put(Append(queue, arrivals + 1), queue, 1 .. arrivals + 1, arrivals + 1)
         /\ Put(<<arrivals + 1>> \o queue, queue, 1 .. arrivals + 1, arrivals + 1)
         /\ Ascending(queue) => Ascending(Append(queue, arrivals + 1))
  BY <1>1, Arriving DEF QueueIInv
<1>9. kind = "Stack" => Ascending(queue)
  BY DEF QueueIInv
<1>10. kind # "PriorityQueue" /\ queue # <<>> =>
          /\ Took(Front(queue), queue, 1 .. arrivals, Last(queue)) /\ Last(queue) \in 1 .. arrivals
          /\ Took(Tail(queue), queue, 1 .. arrivals, Head(queue)) /\ Head(queue) \in 1 .. arrivals
          /\ Ascending(queue) => Ascending(Front(queue))
  BY <1>1, <1>8, FrontIs, TailIs, AscendingFront
<1>11. CASE StackPush
  BY <1>6, <1>8, <1>9, <1>11 DEF StackPush, Arrival
<1>12. CASE StackPop
  BY <1>7, <1>9, <1>10, <1>12 DEF StackPop
<1>13. CASE DequeFirst
  BY <1>6, <1>8, <1>13 DEF DequeFirst, Arrival
<1>14. CASE DequeLast
  BY <1>6, <1>8, <1>14 DEF DequeLast, Arrival
<1>15. CASE TakeFirst
  BY <1>7, <1>10, <1>15 DEF TakeFirst
<1>16. CASE TakeLast
  BY <1>7, <1>10, <1>16 DEF TakeLast
<1> QED BY <1>3, <1>4, <1>5, <1>11, <1>12, <1>13, <1>14, <1>15, <1>16 DEF QueueNext

\* The heap stays a heap and a stack stays by arrival, whatever is called.
THEOREM QueueInvariant == QueueSpec => []QueueIInv
<1>1. QueueIInv /\ UNCHANGED queueVars => QueueIInv'
  BY DEF QueueIInv, queueVars
<1> QED BY QueueInitIInv, QueueStep, <1>1, PTL DEF QueueSpec

\* Every call of a PriorityQueue, a Stack or a Deque takes exactly one element
\* out or puts exactly one in, and leaves the storage in order: sifting loses
\* and doubles nothing, for any elements, lengths and order of calls.
THEOREM NothingLost == QueueSpec => StorageKept
<1>1. QueueIInv /\ [QueueNext]_queueVars => [KeepsStorage]_queueVars
  BY QueueStep
<1> QED BY QueueInvariant, <1>1, PTL DEF QueueSpec, StorageKept

\* The root of a heap is not greater than any of its elements.
LEMMA RootLeast ==
    ASSUME NEW E \in SUBSET Nat, NEW q \in Seq(E), InHeapOrder(q)
    PROVE  \A j \in 1 .. Len(q) : QueueKey(q[1]) <= QueueKey(q[j])
<1> DEFINE T == {j \in 1 .. Len(q) : ~(QueueKey(q[1]) <= QueueKey(q[j]))}
<1>1. Len(q) \in Nat /\ \A j \in 1 .. Len(q) : QueueKey(q[j]) \in Nat
  BY Keys
<1>2. T = {}
  <2> SUFFICES ASSUME T # {} PROVE FALSE
    OBVIOUS
  <2>1. T \in SUBSET Nat
    BY <1>1
  <2>2. PICK m \in T : \A j \in T : m <= j
    <3> HIDE DEF T
    <3> QED BY <2>1, LeastElement
  <2>3. m \in 1 .. Len(q) /\ ~(QueueKey(q[1]) <= QueueKey(q[m]))
    OBVIOUS
  <2>4. m # 1 /\ m \in 2 .. Len(q)
    BY <1>1, <2>3
  <2>5. m \div 2 \in 1 .. Len(q) /\ m \div 2 < m /\ m \in Nat /\ m \div 2 \in Nat
    BY <1>1, <2>4, Halves
  <2>6. m \div 2 \notin T
    <3> HIDE DEF T
    <3> QED BY <2>2, <2>5
  <2>7. QueueKey(q[1]) <= QueueKey(q[m \div 2])
    BY <2>5, <2>6
  <2>8. QueueKey(q[m \div 2]) <= QueueKey(q[m])
    BY <2>4 DEF InHeapOrder, Pair
  <2>9. QueueKey(q[1]) \in Nat /\ QueueKey(q[m \div 2]) \in Nat /\ QueueKey(q[m]) \in Nat
    BY <1>1, <2>3, <2>5
  <2> QED BY <2>3, <2>7, <2>8, <2>9
<1> QED BY <1>2

\* poll answers an element that no other one of the queue is less than,
\* whatever was added and removed before.
THEOREM LeastTaken ==
    QueueSpec => [][PqPoll => \A j \in DOMAIN queue : QueueKey(taken') <= QueueKey(queue[j])]_queueVars
<1>1. QueueIInv /\ [QueueNext]_queueVars =>
         [PqPoll => \A j \in DOMAIN queue : QueueKey(taken') <= QueueKey(queue[j])]_queueVars
  <2> SUFFICES ASSUME QueueIInv, PqPoll
               PROVE  \A j \in DOMAIN queue : QueueKey(taken') <= QueueKey(queue[j])
    OBVIOUS
  <2>1. queue \in Seq(HeapElements) /\ InHeapOrder(queue) /\ queue # <<>> /\ taken' = Head(queue)
    BY DEF PqPoll, QueueIInv
  <2>2. HeapElements \in SUBSET Nat
    BY QueueAssumption
  <2>3. \A j \in 1 .. Len(queue) : QueueKey(queue[1]) <= QueueKey(queue[j])
    BY <2>1, <2>2, RootLeast
  <2>4. taken' = queue[1] /\ DOMAIN queue = 1 .. Len(queue)
    BY <2>1, Pop, LenProperties
  <2> QED BY <2>3, <2>4
<1> QED BY QueueInvariant, <1>1, PTL DEF QueueSpec
=============================================================================
