---------------------------- MODULE CommonLemmas ----------------------------
(***************************************************************************)
(* Facts several proofs need: sequences used as stacks whose top is the    *)
(* first element, and induction over the natural numbers in the form of    *)
(* the least element of a set.                                             *)
(***************************************************************************)
EXTENDS Integers, Sequences, SequenceTheorems, WellFoundedInduction, TLAPS

\* Pushing puts an element before the others.
LEMMA Push ==
    ASSUME NEW S, NEW s \in Seq(S), NEW e \in S
    PROVE  /\ <<e>> \o s \in Seq(S) /\ <<e>> \o s # <<>>
           /\ Len(s) \in Nat /\ Len(<<e>> \o s) = Len(s) + 1
           /\ (<<e>> \o s)[1] = e /\ Head(<<e>> \o s) = e
           /\ \A i \in 1 .. Len(s) : (<<e>> \o s)[i + 1] = s[i]
           /\ \A i \in 2 .. Len(s) + 1 : (<<e>> \o s)[i] = s[i - 1]
<1>1. <<e>> \in Seq(S) /\ Len(<<e>>) = 1 /\ <<e>>[1] = e
  OBVIOUS
<1>2. /\ <<e>> \o s \in Seq(S) /\ Len(<<e>> \o s) = 1 + Len(s) /\ Len(s) \in Nat
      /\ \A i \in 1 .. 1 + Len(s) :
            (<<e>> \o s)[i] = IF i <= 1 THEN <<e>>[i] ELSE s[i - 1]
  BY <1>1, ConcatProperties, LenProperties
<1>3. <<e>> \o s # <<>>
  BY <1>2, EmptySeq
<1> QED BY <1>1, <1>2, <1>3

\* Popping leaves the elements after the first.
LEMMA Pop ==
    ASSUME NEW S, NEW s \in Seq(S), s # <<>>
    PROVE  /\ Tail(s) \in Seq(S) /\ Head(s) \in S /\ Head(s) = s[1]
           /\ Len(s) \in Nat \ {0} /\ Len(Tail(s)) = Len(s) - 1
           /\ \A i \in 1 .. Len(s) - 1 : Tail(s)[i] = s[i + 1]
<1>1. Len(s) \in Nat \ {0}
  BY EmptySeq
<1>2. Head(s) = s[1]
  BY DEF Head
<1> QED BY <1>1, <1>2, HeadTailProperties

-----------------------------------------------------------------------------
LessThan == {ss \in Nat \X Nat : ss[1] < ss[2]}

\* The order of the natural numbers is well founded.
LEMMA LessThanWellFounded == IsWellFoundedOn(LessThan, Nat)
BY NatLessThanWellFounded, Zenon DEF OpToRel, LessThan

\* A nonempty set of natural numbers has a least element.  A proof by
\* induction takes the set of the numbers at which the claim fails.
LEMMA LeastElement ==
    ASSUME NEW T \in SUBSET Nat, T # {}
    PROVE  \E m \in T : \A k \in T : m <= k
<1>1. PICK m \in T : \A k \in T : <<k, m>> \notin LessThan
  BY LessThanWellFounded, WFMin, Zenon
<1>2. \A k \in T : ~(k < m)
  BY <1>1 DEF LessThan
<1> QED BY <1>2

-----------------------------------------------------------------------------
\* Elements that each lead to one of a lower rank, or to themselves: the
\* superclass of a class, the handle a wrapper wraps.  A set of them has an
\* element that leads out of the set or to itself.
LEMMA LeadsOut ==
    ASSUME NEW S, NEW rank \in [S -> Nat], NEW next \in [S -> S],
           \A x \in S : next[x] = x \/ rank[next[x]] < rank[x],
           NEW T \in SUBSET S, T # {}
    PROVE  \E x \in T : next[x] = x \/ next[x] \notin T
<1> DEFINE R == {rank[x] : x \in T}
<1>1. R \in SUBSET Nat /\ R # {}
  OBVIOUS
<1>2. PICK m \in R : \A k \in R : m <= k
  BY <1>1, LeastElement
<1>3. PICK x \in T : rank[x] = m
  OBVIOUS
<1>4. next[x] \in T => m <= rank[next[x]]
  BY <1>2
<1>5. rank[x] \in Nat /\ rank[next[x]] \in Nat
  OBVIOUS
<1> QED BY <1>3, <1>4, <1>5

Leads(S, N, rank, next) ==
    /\ N \in Nat /\ rank \in [S -> 0 .. N] /\ next \in [S -> S]
    /\ \A x \in S : next[x] = x \/ rank[next[x]] < rank[x]

\* h is base[x] where x leads to itself, and step[x][h[next[x]]] elsewhere.
Recursive(h, S, next, base, step) ==
    \A x \in S : h[x] = IF next[x] = x THEN base[x] ELSE step[x][h[next[x]]]

\* A function defined by recursion along such steps exists.
LEMMA RecursionAlong ==
    ASSUME NEW S, NEW V, NEW N, NEW rank, NEW next, Leads(S, N, rank, next),
           NEW base \in [S -> V], NEW step \in [S -> [V -> V]]
    PROVE  \E h \in [S -> V] : Recursive(h, S, next, base, step)
<1> USE DEF Leads
<1> DEFINE Low(m) == {x \in S : rank[x] <= m}
           Ok(h, m) == \A x \in Low(m) :
                          h[x] = IF next[x] = x THEN base[x] ELSE step[x][h[next[x]]]
           Bad == {m \in Nat : ~ \E h \in [S -> V] : Ok(h, m)}
           Next(h) == [x \in S |-> IF next[x] = x THEN base[x] ELSE step[x][h[next[x]]]]
<1>1. \A h \in [S -> V] : Next(h) \in [S -> V]
  OBVIOUS
<1>2. Bad = {}
  <2> SUFFICES ASSUME Bad # {} PROVE FALSE
    OBVIOUS
  <2>1. PICK m \in Bad : \A k \in Bad : m <= k
    BY LeastElement
  <2>2. m \in Nat
    OBVIOUS
  <2>3. PICK h \in [S -> V] : m = 0 \/ Ok(h, m - 1)
    <3>1. CASE m = 0
      BY <1>1, <3>1
    <3>2. CASE m # 0
      <4>1. m - 1 \in Nat /\ m - 1 \notin Bad
        <5> HIDE DEF Bad
        <5> QED BY <2>1, <2>2, <3>2
      <4> QED BY <4>1
    <3> QED BY <3>1, <3>2
  <2>4. Next(h) \in [S -> V]
    BY <1>1
  <2>5. ASSUME NEW x \in Low(m)
        PROVE  Next(h)[x] = IF next[x] = x THEN base[x] ELSE step[x][Next(h)[next[x]]]
    <3>1. x \in S /\ next[x] \in S /\ rank[x] \in 0 .. N /\ rank[next[x]] \in 0 .. N
      OBVIOUS
    <3>2. CASE next[x] = x
      BY <3>1, <3>2
    <3>3. CASE next[x] # x
      <4>1. m # 0 /\ next[x] \in Low(m - 1)
        BY <2>2, <3>1, <3>3
      <4>2. h[next[x]] = Next(h)[next[x]]
        BY <2>3, <3>1, <4>1
      <4> QED BY <3>1, <3>3, <4>2
    <3> QED BY <3>2, <3>3
  <2>6. Ok(Next(h), m)
    BY <2>5
  <2> QED BY <2>1, <2>4, <2>6
<1>3. PICK h \in [S -> V] : Ok(h, N)
  BY <1>2
<1>4. Low(N) = S
  OBVIOUS
<1> QED BY <1>3, <1>4 DEF Recursive

-----------------------------------------------------------------------------
\* Induction over an interval, its claim given by the set of the numbers it
\* holds at.
LEMMA IntervalInduction ==
    ASSUME NEW n \in Nat, NEW T, 0 \in T, \A k \in 1 .. n : k - 1 \in T => k \in T
    PROVE  0 .. n \subseteq T
<1> DEFINE Bad == {k \in 0 .. n : k \notin T}
<1> SUFFICES ASSUME Bad # {} PROVE FALSE
  OBVIOUS
<1>1. PICK m \in Bad : \A k \in Bad : m <= k
  <2>1. Bad \in SUBSET Nat
    OBVIOUS
  <2> QED BY <2>1, LeastElement
<1>2. m \in 0 .. n /\ m # 0 /\ m \notin T
  OBVIOUS
<1>3. m \in 1 .. n /\ m - 1 \in 0 .. n
  BY <1>2
<1>4. m - 1 \notin T
  BY <1>2, <1>3
<1> QED BY <1>1, <1>3, <1>4

\* The values of a loop that starts with base.
Loops(h, n, base, step) == h[0] = base /\ \A k \in 1 .. n : h[k] = step[k][h[k - 1]]

\* A loop that steps from a value of V to the next one has its values.
LEMMA LoopExists ==
    ASSUME NEW V, NEW n \in Nat, NEW base \in V, NEW step \in [1 .. n -> [V -> V]]
    PROVE  \E h \in [0 .. n -> V] : Loops(h, n, base, step)
<1> DEFINE S == 0 .. n
           next == [k \in S |-> IF k = 0 THEN 0 ELSE k - 1]
           first == [k \in S |-> base]
           then == [k \in S |-> IF k = 0 THEN [v \in V |-> v] ELSE step[k]]
<1>1. first \in [S -> V] /\ then \in [S -> [V -> V]]
  <2>1. \A k \in S : k # 0 => k \in 1 .. n
    OBVIOUS
  <2> HIDE DEF S
  <2> QED BY <2>1
<1>2. Leads(S, n, [k \in S |-> k], next)
  <2>1. \A k \in S : (IF k = 0 THEN 0 ELSE k - 1) \in S
    OBVIOUS
  <2>2. \A k \in S : next[k] = k \/ next[k] < k
    OBVIOUS
  <2> QED BY <2>1, <2>2 DEF Leads
<1>3. PICK h \in [S -> V] : Recursive(h, S, next, first, then)
  <2> HIDE DEF S, next, first, then
  <2> QED BY <1>1, <1>2, RecursionAlong, Zenon
<1>4. h[0] = base
  <2>1. 0 \in S /\ next[0] = 0 /\ first[0] = base
    OBVIOUS
  <2> HIDE DEF S, next, first, then
  <2> QED BY <1>3, <2>1 DEF Recursive
<1>5. ASSUME NEW k \in 1 .. n
      PROVE  h[k] = step[k][h[k - 1]]
  <2>1. k \in S /\ next[k] = k - 1 /\ next[k] # k /\ then[k] = step[k]
    OBVIOUS
  <2> HIDE DEF S, next, first, then
  <2> QED BY <1>3, <2>1 DEF Recursive
<1> QED BY <1>3, <1>4, <1>5 DEF Loops

-----------------------------------------------------------------------------
\* A remainder is the only one.
LEMMA RemainderIs ==
    ASSUME NEW c \in Nat \ {0}, NEW k \in Nat, NEW r \in 0 .. c - 1
    PROVE  (c * k + r) % c = r
<1> DEFINE a == c * k + r
<1>1. PICK q \in Nat : a = c * q + (a % c) /\ a % c \in 0 .. c - 1
  <2>1. a \in Nat
    OBVIOUS
  <2> HIDE DEF a
  <2>2. a = c * (a \div c) + (a % c) /\ a % c \in 0 .. c - 1 /\ a \div c \in Nat
    BY <2>1
  <2> QED BY <2>2
<1>2. ASSUME NEW x \in Nat, NEW y \in Nat, x < y PROVE c * x + c <= c * y
  <2>1. PICK d \in Nat : y = x + 1 + d
    BY <1>2
  <2>2. c * y = c * x + c + c * d /\ c * d \in Nat /\ c * x \in Nat
    BY <2>1
  <2> HIDE DEF a
  <2> QED BY <2>2
<1>3. ~(q < k) /\ ~(k < q)
  <2> DEFINE ck == c * k
             cq == c * q
  <2>1. ck \in Nat /\ cq \in Nat /\ ck + r = cq + (a % c) /\ a % c \in 0 .. c - 1
    BY <1>1
  <2>2. (q < k => cq + c <= ck) /\ (k < q => ck + c <= cq)
    BY <1>2
  <2> HIDE DEF ck, cq, a
  <2> QED BY <2>1, <2>2
<1>4. q = k
  BY <1>3
<1> DEFINE m == a % c
           ck == c * k
<1>5. ck \in Nat /\ ck + r = ck + m /\ m \in 0 .. c - 1
  BY <1>1, <1>4
<1> HIDE DEF m, ck
<1>6. m = r
  BY <1>5
<1> QED BY <1>6 DEF m
=============================================================================
