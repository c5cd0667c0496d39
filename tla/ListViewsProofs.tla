--------------------------- MODULE ListViewsProofs ---------------------------
(***************************************************************************)
(* Lists, windows and views, for any elements, bounds and depth of views.  *)
(* Handles refer to older handles (Shape), so Target is a recursion along  *)
(* them and a step that keeps the shape (SameShape) keeps what each handle *)
(* leads to.  Invariant and PoliciesHold are about every script; for plain *)
(* scripts PInv adds where live windows are and that the calls in progress *)
(* stay apart, from which each action is a step of LiveWindows or none.    *)
(***************************************************************************)
EXTENDS ListViews, CommonLemmas

Policies == {"plain", "fixed", "frozen", "open"}
ListObjects == [kind : {"list"}, items : Seq(Elements), mod : Nat, policy : Policies]
WindowObjects == [kind : {"window"}, root : Nat, parent : Nat, offset : Nat, len : Nat,
                  exp : Nat, policy : Policies]
ViewObjects == [kind : {"view"}, target : Nat, policy : Policies]
ReversedObjects == [kind : {"reversed"}, target : Nat, policy : Policies]
Objects == ListObjects \cup WindowObjects \cup ViewObjects \cup ReversedObjects

\* A handle refers to older handles: a window to the list it cuts and to what
\* it was taken from, which cuts the same list, a view to what it shows.
Shape ==
    \A h \in Handles :
       /\ KindIs(h, "view") \/ KindIs(h, "reversed") => heap[h].target \in 1 .. h - 1
       /\ KindIs(h, "window") =>
             /\ heap[h].root \in 1 .. h - 1 /\ KindIs(heap[h].root, "list")
             /\ heap[h].parent \in 1 .. h - 1
             /\ KindIs(heap[h].parent, "window") =>
                   /\ heap[heap[h].parent].root = heap[h].root
                   /\ heap[heap[h].parent].offset <= heap[h].offset

\* Nothing shortens a fixed-size list below one of its windows.
FixedInside ==
    \A w \in Handles : KindIs(w, "window") /\ heap[heap[w].root].policy = "fixed" =>
       heap[w].offset + heap[w].len <= Len(heap[heap[w].root].items)

HeapOK == heap \in Seq(Objects) /\ Shape

-----------------------------------------------------------------------------
\* What an object holds, by its kind.
LEMMA ObjectAt ==
    ASSUME HeapOK, NEW h \in Handles
    PROVE  /\ Len(heap) \in Nat /\ Handles = 1 .. Len(heap) /\ h \in Nat
           /\ heap[h].kind \in {"list", "window", "view", "reversed"}
           /\ heap[h].policy \in Policies
           /\ KindIs(h, "list") => heap[h] \in ListObjects
           /\ KindIs(h, "window") =>
                 /\ heap[h] \in WindowObjects
                 /\ heap[h].root \in Handles /\ heap[h].root < h
                 /\ heap[heap[h].root] \in ListObjects
                 /\ heap[h].parent \in Handles /\ heap[h].parent < h
           /\ KindIs(h, "view") => heap[h] \in ViewObjects
           /\ KindIs(h, "reversed") => heap[h] \in ReversedObjects
           /\ KindIs(h, "view") \/ KindIs(h, "reversed") =>
                 heap[h].target \in Handles /\ heap[h].target < h
<1>1. heap \in Seq(Objects) /\ Shape
  BY DEF HeapOK
<1>2. Len(heap) \in Nat /\ Handles = 1 .. Len(heap) /\ heap \in [1 .. Len(heap) -> Objects]
  BY <1>1, LenProperties DEF Handles
<1>3. \A x \in Handles :
         /\ heap[x].kind \in {"list", "window", "view", "reversed"}
         /\ heap[x].policy \in Policies
         /\ KindIs(x, "list") => heap[x] \in ListObjects
         /\ KindIs(x, "window") => heap[x] \in WindowObjects
         /\ KindIs(x, "view") => heap[x] \in ViewObjects
         /\ KindIs(x, "reversed") => heap[x] \in ReversedObjects
  <2> SUFFICES ASSUME NEW x \in Handles
      PROVE  /\ heap[x].kind \in {"list", "window", "view", "reversed"}
             /\ heap[x].policy \in Policies
             /\ KindIs(x, "list") => heap[x] \in ListObjects
             /\ KindIs(x, "window") => heap[x] \in WindowObjects
             /\ KindIs(x, "view") => heap[x] \in ViewObjects
             /\ KindIs(x, "reversed") => heap[x] \in ReversedObjects
    OBVIOUS
  <2>1. heap[x] \in Objects
    BY <1>2
  <2> DEFINE o == heap[x]
  <2> HIDE DEF o
  <2>2. o \in Objects
    BY <2>1 DEF o
  <2>3. /\ o.kind \in {"list", "window", "view", "reversed"}
        /\ o.policy \in Policies
        /\ o.kind = "list" => o \in ListObjects
        /\ o.kind = "window" => o \in WindowObjects
        /\ o.kind = "view" => o \in ViewObjects
        /\ o.kind = "reversed" => o \in ReversedObjects
    BY <2>2 DEF Objects, ListObjects, WindowObjects, ViewObjects, ReversedObjects
  <2> QED BY <2>3 DEF o, KindIs
<1>4. /\ KindIs(h, "view") \/ KindIs(h, "reversed") => heap[h].target \in 1 .. h - 1
      /\ KindIs(h, "window") =>
             /\ heap[h].root \in 1 .. h - 1 /\ KindIs(heap[h].root, "list")
             /\ heap[h].parent \in 1 .. h - 1
  BY <1>1 DEF Shape
<1>5. h \in 1 .. Len(heap)
  BY <1>2
<1>6. \A x \in 1 .. h - 1 : x \in Handles /\ x < h
  BY <1>2, <1>5
<1> QED BY <1>2, <1>3, <1>4, <1>5, <1>6

\* Older handles are of lower rank.
LEMMA OlderLeads ==
    ASSUME HeapOK, NEW next \in [Handles -> Handles],
           \A h \in Handles : next[h] = h \/ next[h] < h
    PROVE  Leads(Handles, Len(heap), [h \in Handles |-> h], next)
<1>1. Len(heap) \in Nat /\ Handles = 1 .. Len(heap)
  BY LenProperties DEF Handles, HeapOK
<1>2. \A h \in Handles : next[h] \in Handles
  OBVIOUS
<1> QED BY <1>1, <1>2 DEF Leads

\* What a set of handles says of a chain of older ones can be shown at the
\* first handle.
LEMMA OldestHandle ==
    ASSUME HeapOK, NEW T \in SUBSET Handles, T # {}
    PROVE  \E m \in T : \A k \in Handles : k < m => k \notin T
<1>1. Len(heap) \in Nat /\ Handles = 1 .. Len(heap)
  BY LenProperties DEF Handles, HeapOK
<1>2. T \in SUBSET Nat
  BY <1>1
<1>3. PICK m \in T : \A k \in T : m <= k
  BY <1>2, LeastElement
<1>4. ASSUME NEW k \in Handles, k < m, k \in T PROVE FALSE
  <2>1. m <= k /\ m \in Nat /\ k \in Nat
    BY <1>1, <1>2, <1>3, <1>4
  <2> QED BY <1>4, <2>1
<1> QED BY <1>4

\* view_target ends at an object that is no view.
LEMMA TargetIs ==
    ASSUME HeapOK
    PROVE  /\ \A h \in Handles :
                 Target[h] = IF KindIs(h, "view") THEN Target[heap[h].target] ELSE h
           /\ \A h \in Handles : Target[h] \in Handles /\ ~KindIs(Target[h], "view")
<1> DEFINE next == [h \in Handles |-> IF KindIs(h, "view") THEN heap[h].target ELSE h]
           base == [h \in Handles |-> h]
           step == [h \in Handles |-> [t \in Handles |-> t]]
<1>1. \A h \in Handles : KindIs(h, "view") => heap[h].target \in Handles /\ heap[h].target < h
  BY ObjectAt
<1>2. \A h \in Handles : h \in Nat
  BY ObjectAt
<1>3. /\ next \in [Handles -> Handles]
      /\ \A h \in Handles : next[h] = h \/ next[h] < h
      /\ \A h \in Handles : next[h] = h <=> ~KindIs(h, "view")
  <2>1. \A h \in Handles : KindIs(h, "view") => heap[h].target # h
    BY <1>1, <1>2
  <2> QED BY <1>1, <2>1
<1>4. base \in [Handles -> Handles] /\ step \in [Handles -> [Handles -> Handles]]
  OBVIOUS
<1>5. PICK f \in [Handles -> Handles] : Recursive(f, Handles, next, base, step)
  <2> HIDE DEF next, base, step
  <2>1. Leads(Handles, Len(heap), [h \in Handles |-> h], next)
    BY <1>3, OlderLeads
  <2> QED BY <1>4, <2>1, RecursionAlong, Zenon
<1>6. \A h \in Handles : f[h] = IF KindIs(h, "view") THEN f[heap[h].target] ELSE h
  BY <1>1, <1>3, <1>5 DEF Recursive
<1>7. f = [h \in Handles |-> IF KindIs(h, "view") THEN f[heap[h].target] ELSE h]
  BY <1>6
<1>8. Target = [h \in Handles |-> IF KindIs(h, "view") THEN Target[heap[h].target] ELSE h]
  BY <1>7, Zenon DEF Target
<1>9. \A h \in Handles : Target[h] = IF KindIs(h, "view") THEN Target[heap[h].target] ELSE h
  BY <1>8
<1> DEFINE Good(h) == Target[h] \in Handles /\ ~KindIs(Target[h], "view")
           T == {h \in Handles : ~Good(h)}
<1>10. T = {}
  <2> SUFFICES ASSUME T # {} PROVE FALSE
    OBVIOUS
  <2> HIDE DEF Good
  <2>1. PICK m \in T : \A k \in Handles : k < m => k \notin T
    BY OldestHandle
  <2>2. m \in Handles /\ ~Good(m)
    OBVIOUS
  <2>3. CASE KindIs(m, "view")
    <3>1. Good(heap[m].target) /\ Target[m] = Target[heap[m].target]
      BY <1>1, <1>9, <2>1, <2>2, <2>3
    <3> QED BY <2>2, <3>1 DEF Good
  <2>4. CASE ~KindIs(m, "view")
    <3>1. Target[m] = m
      BY <1>9, <2>2, <2>4
    <3> QED BY <2>2, <2>4, <3>1 DEF Good
  <2> QED BY <2>3, <2>4
<1> QED BY <1>9, <1>10

\* write_refused, along the views of a handle.
LEMMA RefusedIs ==
    ASSUME HeapOK, NEW h \in Handles
    PROVE  /\ Refused[h] \subseteq BOOLEAN
           /\ \A x \in BOOLEAN : x \in Refused[h] <=>
                 \/ KindIs(h, "reversed")
                 \/ Refuses(heap[h].policy, x)
                 \/ KindIs(h, "view") /\ x \in Refused[heap[h].target]
                 \/ KindIs(h, "window") /\ Refuses(heap[heap[h].root].policy, x)
<1> DEFINE Own(g, x) == \/ KindIs(g, "reversed")
                        \/ Refuses(heap[g].policy, x)
                        \/ KindIs(g, "window") /\ Refuses(heap[heap[g].root].policy, x)
           V == SUBSET BOOLEAN
           next == [g \in Handles |-> IF KindIs(g, "view") THEN heap[g].target ELSE g]
           base == [g \in Handles |-> {x \in BOOLEAN : Own(g, x)}]
           step == [g \in Handles |-> [r \in V |-> {x \in BOOLEAN : Own(g, x) \/ x \in r}]]
           Is(r, g) == r[g] = {x \in BOOLEAN :
                 \/ KindIs(g, "reversed")
                 \/ Refuses(heap[g].policy, x)
                 \/ KindIs(g, "view") /\ x \in r[heap[g].target]
                 \/ KindIs(g, "window") /\ Refuses(heap[heap[g].root].policy, x)}
<1>1. \A g \in Handles : KindIs(g, "view") => heap[g].target \in Handles /\ heap[g].target < g
  BY ObjectAt
<1>2. \A g \in Handles : g \in Nat
  BY ObjectAt
<1>3. /\ next \in [Handles -> Handles]
      /\ \A g \in Handles : next[g] = g \/ next[g] < g
      /\ \A g \in Handles : next[g] = g <=> ~KindIs(g, "view")
  <2>1. \A g \in Handles : KindIs(g, "view") => heap[g].target # g
    BY <1>1, <1>2
  <2> QED BY <1>1, <2>1
<1>4. base \in [Handles -> V] /\ step \in [Handles -> [V -> V]]
  <2> HIDE DEF Own
  <2> QED OBVIOUS
<1>5. PICK f \in [Handles -> V] : Recursive(f, Handles, next, base, step)
  <2> HIDE DEF next, base, step, V
  <2>1. Leads(Handles, Len(heap), [g \in Handles |-> g], next)
    BY <1>3, OlderLeads
  <2> QED BY <1>4, <2>1, RecursionAlong, Zenon
<1>6. ASSUME NEW g \in Handles PROVE Is(f, g)
  <2>1. f[g] \in V /\ f[g] = IF next[g] = g THEN base[g] ELSE step[g][f[next[g]]]
    <3> HIDE DEF next, base, step, V
    <3> QED BY <1>5 DEF Recursive
  <2>2. CASE KindIs(g, "view")
    <3>1. heap[g].target \in Handles /\ next[g] = heap[g].target /\ next[g] # g
      BY <1>1, <1>3, <2>2
    <3>2. f[g] = step[g][f[heap[g].target]] /\ f[heap[g].target] \in V
      <4> HIDE DEF step, next, base, V
      <4> QED BY <2>1, <3>1, Zenon
    <3>3. f[g] = {x \in BOOLEAN : Own(g, x) \/ x \in f[heap[g].target]}
      <4> HIDE DEF Own, V
      <4> QED BY <3>2, Zenon
    <3> HIDE DEF V, step, next, base
    <3>4. \A x \in BOOLEAN : x \in f[g] <=> Own(g, x) \/ (KindIs(g, "view") /\ x \in f[heap[g].target])
      <4> HIDE DEF Own
      <4> QED BY <2>2, <3>3, Zenon
    <3> QED BY <2>1, <3>4, Zenon DEF V
  <2>3. CASE ~KindIs(g, "view")
    <3>1. f[g] = base[g]
      <4> HIDE DEF step, next, base, V
      <4> QED BY <1>3, <2>1, <2>3, Zenon
    <3>2. f[g] = {x \in BOOLEAN : Own(g, x)}
      <4> HIDE DEF Own
      <4> QED BY <3>1, Zenon
    <3> HIDE DEF V, step, next, base
    <3>3. \A x \in BOOLEAN : x \in f[g] <=> Own(g, x) \/ (KindIs(g, "view") /\ x \in f[heap[g].target])
      <4> HIDE DEF Own
      <4> QED BY <2>3, <3>2, Zenon
    <3> QED BY <2>1, <3>3, Zenon DEF V
  <2> QED BY <2>2, <2>3
<1>7. f = [g \in Handles |-> {x \in BOOLEAN :
                 \/ KindIs(g, "reversed")
                 \/ Refuses(heap[g].policy, x)
                 \/ KindIs(g, "view") /\ x \in f[heap[g].target]
                 \/ KindIs(g, "window") /\ Refuses(heap[heap[g].root].policy, x)}]
  <2> HIDE DEF next, base, step, V, Own
  <2>1. f = [g \in Handles |-> f[g]]
    BY Zenon
  <2> QED BY <1>6, <2>1, Zenon
<1>8. Refused = [g \in Handles |-> {x \in BOOLEAN :
                 \/ KindIs(g, "reversed")
                 \/ Refuses(heap[g].policy, x)
                 \/ KindIs(g, "view") /\ x \in Refused[heap[g].target]
                 \/ KindIs(g, "window") /\ Refuses(heap[heap[g].root].policy, x)}]
  BY <1>7, Zenon DEF Refused
<1>9. Is(Refused, h)
  BY <1>8, Zenon
<1> QED BY <1>9, Zenon

\* updateSizeAndModCount walks windows of one list, each cut from the next.
LEMMA ThroughIs ==
    ASSUME HeapOK
    PROVE  /\ \A h \in Handles : Through[h] \subseteq Handles
           /\ \A h \in Handles :
                 Through[h] = IF KindIs(h, "window") THEN {h} \cup Through[heap[h].parent] ELSE {}
<1> DEFINE V == SUBSET Handles
           next == [g \in Handles |-> IF KindIs(g, "window") THEN heap[g].parent ELSE g]
           base == [g \in Handles |-> {}]
           step == [g \in Handles |-> [r \in V |-> {g} \cup r]]
<1>1. \A g \in Handles : KindIs(g, "window") => heap[g].parent \in Handles /\ heap[g].parent < g
  BY ObjectAt
<1>2. \A g \in Handles : g \in Nat
  BY ObjectAt
<1>3. /\ next \in [Handles -> Handles]
      /\ \A g \in Handles : next[g] = g \/ next[g] < g
      /\ \A g \in Handles : next[g] = g <=> ~KindIs(g, "window")
  <2>1. \A g \in Handles : KindIs(g, "window") => heap[g].parent # g
    BY <1>1, <1>2
  <2> QED BY <1>1, <2>1
<1>4. base \in [Handles -> V] /\ step \in [Handles -> [V -> V]]
  OBVIOUS
<1>5. PICK f \in [Handles -> V] : Recursive(f, Handles, next, base, step)
  <2> HIDE DEF next, base, step, V
  <2>1. Leads(Handles, Len(heap), [g \in Handles |-> g], next)
    BY <1>3, OlderLeads
  <2> QED BY <1>4, <2>1, RecursionAlong, Zenon
<1>6. \A g \in Handles : f[g] = IF KindIs(g, "window") THEN {g} \cup f[heap[g].parent] ELSE {}
  BY <1>1, <1>3, <1>5 DEF Recursive
<1>7. f = [g \in Handles |-> IF KindIs(g, "window") THEN {g} \cup f[heap[g].parent] ELSE {}]
  BY <1>6
<1>8. Through = [g \in Handles |->
                   IF KindIs(g, "window") THEN {g} \cup Through[heap[g].parent] ELSE {}]
  BY <1>7, Zenon DEF Through
<1>9. \A g \in Handles :
         Through[g] = IF KindIs(g, "window") THEN {g} \cup Through[heap[g].parent] ELSE {}
  BY <1>8
<1> DEFINE T == {h \in Handles : ~(Through[h] \subseteq Handles)}
<1>10. T = {}
  <2> SUFFICES ASSUME T # {} PROVE FALSE
    OBVIOUS
  <2>1. PICK m \in T : \A k \in Handles : k < m => k \notin T
    BY OldestHandle
  <2>2. CASE KindIs(m, "window")
    <3>1. Through[heap[m].parent] \subseteq Handles
      BY <1>1, <2>1, <2>2
    <3> QED BY <1>9, <2>2, <3>1
  <2>3. CASE ~KindIs(m, "window")
    BY <1>9, <2>3
  <2> QED BY <2>2, <2>3
<1> QED BY <1>9, <1>10

\* A window and those it was taken through.
LEMMA ThroughWindows ==
    ASSUME HeapOK, NEW h \in Handles, NEW x \in Through[h]
    PROVE  /\ KindIs(h, "window") /\ x \in Handles /\ KindIs(x, "window")
           /\ heap[x].root = heap[h].root /\ heap[x].offset <= heap[h].offset
           /\ Through[x] \subseteq Through[h]
<1> DEFINE Good(g) == \A y \in Through[g] :
                         /\ KindIs(g, "window") /\ KindIs(y, "window")
                         /\ heap[y].root = heap[g].root /\ heap[y].offset <= heap[g].offset
                         /\ Through[y] \subseteq Through[g]
           T == {g \in Handles : ~Good(g)}
<1>1. T = {}
  <2> SUFFICES ASSUME T # {} PROVE FALSE
    OBVIOUS
  <2> HIDE DEF Good
  <2>1. PICK m \in T : \A k \in Handles : k < m => k \notin T
    BY OldestHandle
  <2>2. m \in Handles /\ ~Good(m)
    OBVIOUS
  <2>3. Through[m] = IF KindIs(m, "window") THEN {m} \cup Through[heap[m].parent] ELSE {}
    BY <2>2, ThroughIs
  <2>4. CASE ~KindIs(m, "window")
    BY <2>2, <2>3, <2>4 DEF Good
  <2>5. CASE KindIs(m, "window")
    <3> DEFINE p == heap[m].parent
    <3>1. p \in Handles /\ p < m /\ heap[m] \in WindowObjects
      BY <2>2, <2>5, ObjectAt
    <3>2. Good(p)
      BY <2>1, <3>1
    <3>3. KindIs(p, "window") => /\ heap[p].root = heap[m].root /\ heap[p].offset <= heap[m].offset
                                 /\ heap[p] \in WindowObjects
      <4>1. HeapOK
        OBVIOUS
      <4>2. KindIs(p, "window") => heap[p] \in WindowObjects
        BY <3>1, ObjectAt
      <4> QED BY <2>2, <2>5, <4>1, <4>2 DEF HeapOK, Shape
    <3> HIDE DEF p
    <3>4. Through[m] = {m} \cup Through[p]
      BY <2>3, <2>5 DEF p
    <3>5. ASSUME NEW y \in Through[m], y # m
          PROVE  /\ KindIs(y, "window") /\ heap[y].root = heap[m].root
                 /\ heap[y].offset <= heap[m].offset /\ Through[y] \subseteq Through[m]
      <4>1. y \in Through[p]
        BY <3>4, <3>5
      <4>2. /\ KindIs(p, "window") /\ KindIs(y, "window")
            /\ heap[y].root = heap[p].root /\ heap[y].offset <= heap[p].offset
            /\ Through[y] \subseteq Through[p]
        BY <3>2, <4>1 DEF Good
      <4>3. y \in Handles
        BY <3>1, <4>1, ThroughIs
      <4>4. heap[y] \in WindowObjects
        BY <4>2, <4>3, ObjectAt
      <4>5. heap[y].offset \in Nat /\ heap[p].offset \in Nat /\ heap[m].offset \in Nat
        BY <3>1, <3>3, <4>2, <4>4 DEF WindowObjects
      <4> QED BY <3>3, <3>4, <4>2, <4>5
    <3>6. heap[m].offset \in Nat
      BY <3>1 DEF WindowObjects
    <3> QED BY <2>2, <2>5, <3>5, <3>6 DEF Good
  <2> QED BY <2>4, <2>5
<1>2. Good(h)
  BY <1>1
<1>3. x \in Handles
  BY ThroughIs
<1> QED BY <1>2, <1>3

\* as_list_raw answers a list's elements.
LEMMA ItemsAre ==
    ASSUME HeapOK, NEW h \in Handles
    PROVE  ItemsOf[h] \in Seq(Elements)
<1> DEFINE V == Seq(Elements)
           Shows(g) == KindIs(g, "view") \/ KindIs(g, "reversed")
           Own(g) == IF ~IsListHandle(g) THEN <<>>
                     ELSE SubSeq(heap[RootOf(g)].items, OffsetOf(g) + 1, OffsetOf(g) + LengthOf(g))
           next == [g \in Handles |-> IF Shows(g) THEN heap[g].target ELSE g]
           base == [g \in Handles |-> IF Shows(g) THEN <<>> ELSE Own(g)]
           step == [g \in Handles |-> [s \in V |-> IF KindIs(g, "view") THEN s ELSE Reverse(s)]]
<1>1. \A g \in Handles : Shows(g) => heap[g].target \in Handles /\ heap[g].target < g
  BY ObjectAt
<1>2. \A g \in Handles : g \in Nat
  BY ObjectAt
<1>3. /\ next \in [Handles -> Handles]
      /\ \A g \in Handles : next[g] = g \/ next[g] < g
      /\ \A g \in Handles : next[g] = g <=> ~Shows(g)
  <2>1. \A g \in Handles : Shows(g) => heap[g].target # g
    BY <1>1, <1>2
  <2> HIDE DEF Shows
  <2> QED BY <1>1, <2>1
<1>4. ASSUME NEW g \in Handles, ~Shows(g) PROVE Own(g) \in V
  <2>1. Target[g] = g
    BY <1>4, TargetIs
  <2>2. CASE KindIs(g, "window")
    <3>1. /\ RootOf(g) = heap[g].root /\ OffsetOf(g) = heap[g].offset /\ LengthOf(g) = heap[g].len
      BY <2>1, <2>2 DEF RootOf, OffsetOf, LengthOf
    <3>2. heap[heap[g].root] \in ListObjects /\ heap[g] \in WindowObjects
      BY <2>2, ObjectAt
    <3>3. /\ heap[heap[g].root].items \in Seq(Elements)
          /\ heap[g].offset \in Nat /\ heap[g].len \in Nat
      BY <3>2 DEF ListObjects, WindowObjects
    <3> DEFINE s == heap[heap[g].root].items
               a == heap[g].offset
               b == heap[g].len
    <3> HIDE DEF s, a, b
    <3>4. a + b <= Len(s) => SubSeq(s, a + 1, a + b) \in Seq(Elements)
      <4>1. s \in Seq(Elements) /\ a \in Nat /\ b \in Nat
        BY <3>3 DEF s, a, b
      <4> SUFFICES ASSUME a + b <= Len(s) PROVE SubSeq(s, a + 1, a + b) \in Seq(Elements)
        OBVIOUS
      <4>2. \A i \in (a + 1) .. (a + b) : s[i] \in Elements
        BY <4>1, LenProperties
      <4>3. a + 1 \in Int /\ a + b \in Int
        BY <4>1
      <4> QED BY <4>2, <4>3, SubSeqProperties
    <3>5. IsListHandle(g) => a + b <= Len(s)
      BY <2>2, <3>1 DEF IsListHandle, a, b, s
    <3>6. Own(g) = IF ~IsListHandle(g) THEN <<>> ELSE SubSeq(s, a + 1, a + b)
      BY <3>1 DEF a, b, s
    <3>7. <<>> \in Seq(Elements)
      OBVIOUS
    <3> HIDE DEF Own
    <3> QED BY <3>4, <3>5, <3>6, <3>7
  <2>3. CASE ~KindIs(g, "window")
    <3>1. KindIs(g, "list")
      BY <1>4, <2>3, ObjectAt DEF KindIs
    <3>2. heap[g].items \in Seq(Elements)
      BY <3>1, ObjectAt DEF ListObjects
    <3>3. RootOf(g) = g /\ OffsetOf(g) = 0 /\ LengthOf(g) = Len(heap[g].items) /\ IsListHandle(g)
      BY <2>1, <2>3 DEF RootOf, OffsetOf, LengthOf, IsListHandle
    <3>4. SubSeq(heap[g].items, 0 + 1, 0 + Len(heap[g].items)) \in Seq(Elements)
      BY <3>2, SubSeqFull
    <3>5. Own(g) = SubSeq(heap[g].items, 0 + 1, 0 + Len(heap[g].items))
      BY <3>3
    <3> QED BY <3>4, <3>5
  <2> QED BY <2>2, <2>3
<1>5. base \in [Handles -> V] /\ step \in [Handles -> [V -> V]]
  <2>1. \A s \in V : Reverse(s) \in V
    BY DEF Reverse
  <2>2. <<>> \in V
    OBVIOUS
  <2> HIDE DEF Own, Shows, V
  <2> QED BY <1>4, <2>1, <2>2
<1>6. PICK f \in [Handles -> V] : Recursive(f, Handles, next, base, step)
  <2> HIDE DEF next, base, step, V
  <2>1. Leads(Handles, Len(heap), [g \in Handles |-> g], next)
    BY <1>3, OlderLeads
  <2> QED BY <1>5, <2>1, RecursionAlong, Zenon
<1> DEFINE Is(r, g) == r[g] =
             CASE KindIs(g, "view") -> r[heap[g].target]
               [] KindIs(g, "reversed") -> Reverse(r[heap[g].target])
               [] ~IsListHandle(g)    -> <<>>
               [] OTHER -> SubSeq(heap[RootOf(g)].items, OffsetOf(g) + 1, OffsetOf(g) + LengthOf(g))
<1>7. ASSUME NEW g \in Handles PROVE Is(f, g)
  <2>1. f[g] \in V /\ f[g] = IF next[g] = g THEN base[g] ELSE step[g][f[next[g]]]
    <3> HIDE DEF next, base, step, V
    <3> QED BY <1>6 DEF Recursive
  <2>2. KindIs(g, "view") => ~KindIs(g, "reversed")
    BY DEF KindIs
  <2>3. KindIs(g, "view") \/ KindIs(g, "reversed") => IsListHandle(g)
    BY DEF KindIs, IsListHandle
  <2>4. CASE Shows(g)
    <3>1. heap[g].target \in Handles /\ next[g] = heap[g].target /\ next[g] # g
      <4> HIDE DEF Shows
      <4> QED BY <1>1, <1>3, <2>4
    <3>2. f[g] = step[g][f[heap[g].target]] /\ f[heap[g].target] \in V
      <4> HIDE DEF step, next, base, V
      <4> QED BY <2>1, <3>1, Zenon
    <3>3. f[g] = IF KindIs(g, "view") THEN f[heap[g].target] ELSE Reverse(f[heap[g].target])
      <4> HIDE DEF V
      <4> QED BY <3>2, Zenon
    <3> QED BY <2>2, <2>3, <2>4, <3>3
  <2>5. CASE ~Shows(g)
    <3>1. f[g] = base[g]
      <4> HIDE DEF step, next, base, V, Shows
      <4> QED BY <1>3, <2>1, <2>5, Zenon
    <3>2. f[g] = Own(g)
      <4> HIDE DEF Own, Shows
      <4> QED BY <2>5, <3>1
    <3> QED BY <2>5, <3>2
  <2> QED BY <2>4, <2>5
<1>8. f = [g \in Handles |->
             CASE KindIs(g, "view") -> f[heap[g].target]
               [] KindIs(g, "reversed") -> Reverse(f[heap[g].target])
               [] ~IsListHandle(g)    -> <<>>
               [] OTHER -> SubSeq(heap[RootOf(g)].items, OffsetOf(g) + 1, OffsetOf(g) + LengthOf(g))]
  <2> HIDE DEF next, base, step, V, Own, Shows
  <2>1. f = [g \in Handles |-> f[g]]
    BY Zenon
  <2> QED BY <1>7, <2>1, Zenon
<1>9. ItemsOf = [g \in Handles |->
             CASE KindIs(g, "view") -> ItemsOf[heap[g].target]
               [] KindIs(g, "reversed") -> Reverse(ItemsOf[heap[g].target])
               [] ~IsListHandle(g)    -> <<>>
               [] OTHER -> SubSeq(heap[RootOf(g)].items, OffsetOf(g) + 1, OffsetOf(g) + LengthOf(g))]
  BY <1>8, Zenon DEF ItemsOf
<1>10. ASSUME NEW g \in Handles, Shows(g) => ItemsOf[heap[g].target] \in V PROVE ItemsOf[g] \in V
  <2>1. Is(ItemsOf, g)
    BY <1>9, Zenon
  <2>2. CASE Shows(g)
    <3>1. \A s \in V : Reverse(s) \in V
      BY DEF Reverse
    <3>2. ItemsOf[g] = ItemsOf[heap[g].target] \/ ItemsOf[g] = Reverse(ItemsOf[heap[g].target])
      BY <2>1, <2>2 DEF KindIs, IsListHandle
    <3> HIDE DEF V, Shows
    <3> QED BY <1>10, <2>2, <3>1, <3>2
  <2>3. CASE ~Shows(g)
    <3>1. ItemsOf[g] = Own(g)
      BY <2>1, <2>3
    <3> HIDE DEF V, Own, Shows
    <3> QED BY <1>4, <2>3, <3>1
  <2> QED BY <2>2, <2>3
<1> DEFINE T == {g \in Handles : ItemsOf[g] \notin V}
<1>11. T = {}
  <2> SUFFICES ASSUME T # {} PROVE FALSE
    OBVIOUS
  <2>1. PICK m \in T : \A k \in Handles : k < m => k \notin T
    BY OldestHandle
  <2> HIDE DEF V, Shows
  <2>2. Shows(m) => ItemsOf[heap[m].target] \in V
    BY <1>1, <2>1
  <2> QED BY <1>10, <2>2
<1> QED BY <1>11

-----------------------------------------------------------------------------
\* The chains of handles are those of the heap they are followed in.
ChainFacts ==
    /\ \A h \in Handles :
          Target[h] = IF KindIs(h, "view") THEN Target[heap[h].target] ELSE h
    /\ \A h \in Handles : Refused[h] \subseteq BOOLEAN
    /\ \A h \in Handles : \A x \in BOOLEAN : x \in Refused[h] <=>
          \/ KindIs(h, "reversed")
          \/ Refuses(heap[h].policy, x)
          \/ KindIs(h, "view") /\ x \in Refused[heap[h].target]
          \/ KindIs(h, "window") /\ Refuses(heap[heap[h].root].policy, x)
    /\ \A h \in Handles :
          Through[h] = IF KindIs(h, "window") THEN {h} \cup Through[heap[h].parent] ELSE {}

\* Before a step.
LEMMA ChainsAre == HeapOK => ChainFacts
BY TargetIs, RefusedIs, ThroughIs DEF ChainFacts

\* After it.
LEMMA ChainsAfter == HeapOK' => ChainFacts'
BY ChainsAre, PTL

\* Objects that differ in what a store may change: the elements and the
\* counter of a list, the length and the expected counter of a window.
Like(a, b) ==
    /\ a.kind = b.kind /\ a.policy = b.policy
    /\ a.kind \in {"view", "reversed"} => a.target = b.target
    /\ a.kind = "window" => a.root = b.root /\ a.parent = b.parent /\ a.offset = b.offset

SameShape == \A h \in Handles : h \in Handles' /\ Like(heap[h], heap'[h])

\* Then every chain stays as it was.
LEMMA ChainsKept ==
    ASSUME HeapOK, HeapOK', SameShape, NEW h \in Handles
    PROVE  Target'[h] = Target[h] /\ Refused'[h] = Refused[h] /\ Through'[h] = Through[h]
<1> DEFINE Good(g) == Target'[g] = Target[g] /\ Refused'[g] = Refused[g] /\ Through'[g] = Through[g]
           T == {g \in Handles : ~Good(g)}
<1>1. ChainFacts /\ ChainFacts'
  BY ChainsAre, ChainsAfter
<1>2. \A g \in Handles : g \in Handles' /\ Like(heap[g], heap'[g])
  BY DEF SameShape
<1>3. T = {}
  <2> SUFFICES ASSUME T # {} PROVE FALSE
    OBVIOUS
  <2> HIDE DEF Good
  <2>1. PICK m \in T : \A k \in Handles : k < m => k \notin T
    BY OldestHandle
  <2>2. m \in Handles /\ m \in Handles' /\ ~Good(m) /\ Like(heap[m], heap'[m])
    BY <1>2
  <2>3. \A k \in {"list", "window", "view", "reversed"} : KindIs(m, k) <=> heap'[m].kind = k
    BY <2>2 DEF Like, KindIs
  <2>4. Target'[m] = Target[m]
    <3>1. Target[m] = IF KindIs(m, "view") THEN Target[heap[m].target] ELSE m
      BY <1>1, <2>2 DEF ChainFacts
    <3>2. Target'[m] = IF heap'[m].kind = "view" THEN Target'[heap'[m].target] ELSE m
      BY <1>1, <2>2 DEF ChainFacts, KindIs
    <3>3. CASE KindIs(m, "view")
      <4>1. heap[m].target \in Handles /\ heap[m].target < m /\ heap'[m].target = heap[m].target
        BY <2>2, <3>3, ObjectAt DEF Like, KindIs
      <4>2. Good(heap[m].target)
        BY <2>1, <4>1
      <4> QED BY <2>3, <3>1, <3>2, <3>3, <4>1, <4>2 DEF Good
    <3>4. CASE ~KindIs(m, "view")
      BY <2>3, <3>1, <3>2, <3>4
    <3> QED BY <3>3, <3>4
  <2>5. Through'[m] = Through[m]
    <3>1. Through[m] = IF KindIs(m, "window") THEN {m} \cup Through[heap[m].parent] ELSE {}
      BY <1>1, <2>2 DEF ChainFacts
    <3>2. Through'[m] = IF heap'[m].kind = "window" THEN {m} \cup Through'[heap'[m].parent] ELSE {}
      BY <1>1, <2>2 DEF ChainFacts, KindIs
    <3>3. CASE KindIs(m, "window")
      <4>1. heap[m].parent \in Handles /\ heap[m].parent < m /\ heap'[m].parent = heap[m].parent
        BY <2>2, <3>3, ObjectAt DEF Like, KindIs
      <4>2. Good(heap[m].parent)
        BY <2>1, <4>1
      <4> QED BY <2>3, <3>1, <3>2, <3>3, <4>1, <4>2 DEF Good
    <3>4. CASE ~KindIs(m, "window")
      BY <2>3, <3>1, <3>2, <3>4
    <3> QED BY <3>3, <3>4
  <2>6. Refused'[m] = Refused[m]
    <3>1. Refused[m] \subseteq BOOLEAN /\ Refused'[m] \subseteq BOOLEAN
      BY <1>1, <2>2 DEF ChainFacts
    <3>2. \A x \in BOOLEAN : x \in Refused[m] <=>
             \/ KindIs(m, "reversed")
             \/ Refuses(heap[m].policy, x)
             \/ KindIs(m, "view") /\ x \in Refused[heap[m].target]
             \/ KindIs(m, "window") /\ Refuses(heap[heap[m].root].policy, x)
      BY <1>1, <2>2 DEF ChainFacts
    <3>3. \A x \in BOOLEAN : x \in Refused'[m] <=>
             \/ heap'[m].kind = "reversed"
             \/ Refuses(heap'[m].policy, x)
             \/ heap'[m].kind = "view" /\ x \in Refused'[heap'[m].target]
             \/ heap'[m].kind = "window" /\ Refuses(heap'[heap'[m].root].policy, x)
      BY <1>1, <2>2 DEF ChainFacts, KindIs
    <3>4. heap'[m].policy = heap[m].policy
      BY <2>2 DEF Like
    <3>5. KindIs(m, "view") =>
             heap'[m].target = heap[m].target /\ Refused'[heap[m].target] = Refused[heap[m].target]
      <4> SUFFICES ASSUME KindIs(m, "view")
          PROVE heap'[m].target = heap[m].target /\ Refused'[heap[m].target] = Refused[heap[m].target]
        OBVIOUS
      <4>1. heap[m].target \in Handles /\ heap[m].target < m /\ heap'[m].target = heap[m].target
        BY <2>2, ObjectAt DEF Like, KindIs
      <4>2. Good(heap[m].target)
        BY <2>1, <4>1
      <4> QED BY <4>1, <4>2 DEF Good
    <3>6. KindIs(m, "window") =>
             heap'[m].root = heap[m].root /\ heap'[heap[m].root].policy = heap[heap[m].root].policy
      <4> SUFFICES ASSUME KindIs(m, "window")
          PROVE heap'[m].root = heap[m].root /\ heap'[heap[m].root].policy = heap[heap[m].root].policy
        OBVIOUS
      <4>1. heap[m].root \in Handles /\ heap'[m].root = heap[m].root
        BY <2>2, ObjectAt DEF Like, KindIs
      <4> QED BY <1>2, <4>1 DEF Like
    <3>7. \A x \in BOOLEAN : x \in Refused'[m] <=> x \in Refused[m]
      BY <2>3, <3>2, <3>3, <3>4, <3>5, <3>6, Zenon
    <3> QED BY <3>1, <3>7
  <2> QED BY <2>2, <2>4, <2>5, <2>6 DEF Good
<1> QED BY <1>3

\* And a heap of well-typed objects is still in shape.
LEMMA ShapeKept ==
    ASSUME HeapOK, heap' \in Seq(Objects), Handles' = Handles, SameShape
    PROVE  HeapOK'
<1>1. \A g \in Handles : Like(heap[g], heap'[g])
  BY DEF SameShape
<1>2. ASSUME NEW h \in Handles
      PROVE  /\ heap'[h].kind = "view" \/ heap'[h].kind = "reversed" => heap'[h].target \in 1 .. h - 1
             /\ heap'[h].kind = "window" =>
                  /\ heap'[h].root \in 1 .. h - 1 /\ heap'[heap'[h].root].kind = "list"
                  /\ heap'[h].parent \in 1 .. h - 1
                  /\ heap'[heap'[h].parent].kind = "window" =>
                        /\ heap'[heap'[h].parent].root = heap'[h].root
                        /\ heap'[heap'[h].parent].offset <= heap'[h].offset
  <2>1. /\ heap[h].kind = "view" \/ heap[h].kind = "reversed" => heap[h].target \in 1 .. h - 1
        /\ heap[h].kind = "window" =>
             /\ heap[h].root \in 1 .. h - 1 /\ heap[heap[h].root].kind = "list"
             /\ heap[h].parent \in 1 .. h - 1
             /\ heap[heap[h].parent].kind = "window" =>
                   /\ heap[heap[h].parent].root = heap[h].root
                   /\ heap[heap[h].parent].offset <= heap[h].offset
    <3>1. HeapOK
      OBVIOUS
    <3> QED BY <3>1 DEF HeapOK, Shape, KindIs
  <2>2. Like(heap[h], heap'[h])
    BY <1>1
  <2>3. heap[h].kind = "window" => /\ heap[h].root \in Handles /\ heap[h].parent \in Handles
    BY ObjectAt DEF KindIs
  <2>4. heap[h].kind = "window" =>
           Like(heap[heap[h].root], heap'[heap[h].root]) /\ Like(heap[heap[h].parent], heap'[heap[h].parent])
    BY <1>1, <2>3
  <2> QED BY <2>1, <2>2, <2>4 DEF Like
<1> QED BY <1>2 DEF HeapOK, Shape, KindIs

-----------------------------------------------------------------------------
\* The smaller and the larger of two integers.
LEMMA TwoNumbers ==
    ASSUME NEW a \in Int, NEW b \in Int
    PROVE  /\ Min({a, b}) = IF a <= b THEN a ELSE b
           /\ Max({a, b}) = IF a <= b THEN b ELSE a
<1>1. \E x \in {a, b} : \A y \in {a, b} : x <= y
  OBVIOUS
<1>2. \E x \in {a, b} : \A y \in {a, b} : x >= y
  OBVIOUS
<1> QED BY <1>1, <1>2 DEF Min, Max

\* list_slot answers a list and an interval of it.
LEMMA SlotIs ==
    ASSUME HeapOK, NEW h \in Handles, ~KindIs(Target[h], "reversed")
    PROVE  /\ Target[h] \in Handles
           /\ RootOf(h) \in Handles /\ KindIs(RootOf(h), "list") /\ heap[RootOf(h)] \in ListObjects
           /\ OffsetOf(h) \in Nat /\ LengthOf(h) \in Nat
           /\ KindIs(Target[h], "list") \/ KindIs(Target[h], "window")
           /\ KindIs(Target[h], "list") =>
                 /\ RootOf(h) = Target[h] /\ OffsetOf(h) = 0
                 /\ LengthOf(h) = Len(heap[RootOf(h)].items)
           /\ KindIs(Target[h], "window") =>
                 /\ RootOf(h) = heap[Target[h]].root /\ OffsetOf(h) = heap[Target[h]].offset
                 /\ LengthOf(h) = heap[Target[h]].len
<1> DEFINE t == Target[h]
<1>1. t \in Handles /\ ~KindIs(t, "view")
  BY TargetIs
<1>2. KindIs(t, "list") \/ KindIs(t, "window")
  <2>1. heap[t].kind \in {"list", "window", "view", "reversed"}
    BY <1>1, ObjectAt
  <2> QED BY <1>1, <2>1 DEF KindIs
<1>3. CASE KindIs(t, "list")
  <2>1. ~KindIs(t, "window")
    BY <1>3 DEF KindIs
  <2>2. RootOf(h) = t /\ OffsetOf(h) = 0 /\ LengthOf(h) = Len(heap[t].items)
    BY <2>1 DEF RootOf, OffsetOf, LengthOf
  <2>3. heap[t] \in ListObjects
    BY <1>1, <1>3, ObjectAt
  <2>4. heap[t].items \in Seq(Elements)
    BY <2>3 DEF ListObjects
  <2>5. Len(heap[t].items) \in Nat
    BY <2>4, LenProperties
  <2> HIDE DEF t
  <2> QED BY <1>1, <1>3, <2>1, <2>2, <2>3, <2>5 DEF t
<1>4. CASE KindIs(t, "window")
  <2>1. RootOf(h) = heap[t].root /\ OffsetOf(h) = heap[t].offset /\ LengthOf(h) = heap[t].len
    BY <1>4 DEF RootOf, OffsetOf, LengthOf
  <2>2. heap[t] \in WindowObjects /\ heap[t].root \in Handles /\ heap[heap[t].root] \in ListObjects
    BY <1>1, <1>4, ObjectAt
  <2>3. heap[t].offset \in Nat /\ heap[t].len \in Nat
    BY <2>2 DEF WindowObjects
  <2>4. KindIs(heap[t].root, "list") /\ ~KindIs(t, "list")
    BY <1>4, <2>2 DEF KindIs, ListObjects
  <2> HIDE DEF t
  <2> QED BY <1>1, <1>4, <2>1, <2>2, <2>3, <2>4 DEF t
<1> QED BY <1>2, <1>3, <1>4

\* What the object a handle ends in refuses, the handle refuses.
LEMMA RefusedBelow ==
    ASSUME HeapOK, NEW h \in Handles, NEW x \in BOOLEAN, x \in Refused[Target[h]]
    PROVE  x \in Refused[h]
<1> DEFINE Good(g) == x \in Refused[Target[g]] => x \in Refused[g]
           T == {g \in Handles : ~Good(g)}
<1>1. T = {}
  <2> SUFFICES ASSUME T # {} PROVE FALSE
    OBVIOUS
  <2> HIDE DEF Good
  <2>1. PICK m \in T : \A k \in Handles : k < m => k \notin T
    BY OldestHandle
  <2>2. m \in Handles /\ ~Good(m)
    OBVIOUS
  <2>3. Target[m] = IF KindIs(m, "view") THEN Target[heap[m].target] ELSE m
    BY <2>2, TargetIs
  <2>4. KindIs(m, "view")
    BY <2>2, <2>3 DEF Good
  <2>5. Good(heap[m].target)
    <3>1. heap[m].target \in Handles /\ heap[m].target < m
      BY <2>2, <2>4, ObjectAt
    <3> QED BY <2>1, <3>1
  <2>6. x \in Refused[heap[m].target] => x \in Refused[m]
    BY <2>2, <2>4, RefusedIs
  <2> QED BY <2>2, <2>3, <2>4, <2>5, <2>6 DEF Good
<1> QED BY <1>1

\* A store that no object on the way refuses is one the list's policy allows.
LEMMA NotRefused ==
    ASSUME HeapOK, NEW h \in Handles, NEW new, ~RefusesStore(h, new)
    PROVE  /\ ~KindIs(Target[h], "reversed")
           /\ ~Refuses(heap[RootOf(h)].policy, Len(new) # LengthOf(h))
<1>1. Target[h] \in Handles
  BY TargetIs
<1>2. ~KindIs(Target[h], "reversed")
  <2> SUFFICES ASSUME KindIs(Target[h], "reversed") PROVE FALSE
    OBVIOUS
  <2>1. TRUE \in Refused[Target[h]]
    BY <1>1, RefusedIs
  <2>2. TRUE \in Refused[h]
    BY <2>1, RefusedBelow
  <2>3. (KindIs(Target[h], "reversed") \/ Len(new) # LengthOf(h)) = TRUE
    OBVIOUS
  <2> QED BY <2>2, <2>3 DEF RefusesStore
<1> DEFINE x == Len(new) # LengthOf(h)
<1>3. x \in BOOLEAN /\ x \notin Refused[h]
  <2>1. x \in BOOLEAN
    OBVIOUS
  <2>2. (KindIs(Target[h], "reversed") \/ x) = x
    BY <1>2
  <2> QED BY <2>1, <2>2 DEF RefusesStore
<1> HIDE DEF x
<1>4. x \notin Refused[Target[h]]
  BY <1>3, RefusedBelow
<1>5. /\ ~Refuses(heap[Target[h]].policy, x)
      /\ KindIs(Target[h], "window") => ~Refuses(heap[heap[Target[h]].root].policy, x)
  BY <1>1, <1>3, <1>4, RefusedIs
<1>6. /\ KindIs(Target[h], "list") \/ KindIs(Target[h], "window")
      /\ KindIs(Target[h], "list") => RootOf(h) = Target[h]
      /\ KindIs(Target[h], "window") => RootOf(h) = heap[Target[h]].root
  BY <1>2, SlotIs
<1>7. ~Refuses(heap[RootOf(h)].policy, x)
  BY <1>5, <1>6
<1> QED BY <1>2, <1>7 DEF x

-----------------------------------------------------------------------------
\* The interval list_store replaces, as far as the list reaches, and what the
\* list becomes.
End(h) == Min({OffsetOf(h) + LengthOf(h), Len(heap[RootOf(h)].items)})
Start(h) == Min({OffsetOf(h), End(h)})
Spliced(h, new) ==
    SubSeq(heap[RootOf(h)].items, 1, Start(h)) \o new
      \o SubSeq(heap[RootOf(h)].items, End(h) + 1, Len(heap[RootOf(h)].items))
Structural(h, new, structural) == structural \/ Len(new) # LengthOf(h)

\* A list gets as many elements as replace the interval.
LEMMA SplicedIs ==
    ASSUME HeapOK, NEW h \in Handles, ~KindIs(Target[h], "reversed"), NEW new \in Seq(Elements)
    PROVE  /\ Len(heap[RootOf(h)].items) \in Nat /\ Start(h) \in Nat /\ End(h) \in Nat
           /\ Start(h) <= End(h) /\ End(h) <= Len(heap[RootOf(h)].items)
           /\ Spliced(h, new) \in Seq(Elements)
           /\ Len(Spliced(h, new)) =
                 Start(h) + Len(new) + (Len(heap[RootOf(h)].items) - End(h))
           /\ OffsetOf(h) + LengthOf(h) <= Len(heap[RootOf(h)].items) =>
                 Start(h) = OffsetOf(h) /\ End(h) = OffsetOf(h) + LengthOf(h)
<1> DEFINE s == heap[RootOf(h)].items
           a == OffsetOf(h)
           b == LengthOf(h)
<1>1. a \in Nat /\ b \in Nat /\ heap[RootOf(h)] \in ListObjects
  BY SlotIs
<1>2. s \in Seq(Elements)
  BY <1>1 DEF ListObjects
<1>3. /\ End(h) = Min({a + b, Len(s)}) /\ Start(h) = Min({a, End(h)})
      /\ Spliced(h, new) = SubSeq(s, 1, Start(h)) \o new \o SubSeq(s, End(h) + 1, Len(s))
  BY DEF End, Start, Spliced
<1> HIDE DEF s, a, b
<1>4. Len(s) \in Nat /\ \A i \in 1 .. Len(s) : s[i] \in Elements
  BY <1>2, LenProperties
<1>5. End(h) = IF a + b <= Len(s) THEN a + b ELSE Len(s)
  <2>1. a + b \in Int /\ Len(s) \in Int
    BY <1>1, <1>4
  <2> QED BY <1>3, <2>1, TwoNumbers
<1>6. End(h) \in Nat
  BY <1>1, <1>4, <1>5
<1>7. Start(h) = IF a <= End(h) THEN a ELSE End(h)
  <2>1. a \in Int /\ End(h) \in Int
    BY <1>1, <1>6
  <2> QED BY <1>3, <2>1, TwoNumbers
<1>8. Start(h) \in Nat /\ Start(h) <= End(h) /\ End(h) <= Len(s)
  BY <1>1, <1>4, <1>5, <1>6, <1>7
<1> DEFINE p == SubSeq(s, 1, Start(h))
           q == SubSeq(s, End(h) + 1, Len(s))
<1>9. p \in Seq(Elements) /\ Len(p) = Start(h)
  <2>1. /\ 1 \in Int /\ Start(h) \in Int /\ \A i \in 1 .. Start(h) : s[i] \in Elements
        /\ Start(h) = IF 1 <= Start(h) THEN Start(h) - 1 + 1 ELSE 0
    BY <1>4, <1>6, <1>8
  <2>2. /\ SubSeq(s, 1, Start(h)) \in Seq(Elements)
        /\ Len(SubSeq(s, 1, Start(h))) = IF 1 <= Start(h) THEN Start(h) - 1 + 1 ELSE 0
    BY <2>1, SubSeqProperties
  <2> QED BY <2>1, <2>2
<1>10. q \in Seq(Elements) /\ Len(q) = Len(s) - End(h)
  <2>1. /\ End(h) + 1 \in Int /\ Len(s) \in Int
        /\ \A i \in End(h) + 1 .. Len(s) : s[i] \in Elements
        /\ Len(s) - End(h) = IF End(h) + 1 <= Len(s) THEN Len(s) - (End(h) + 1) + 1 ELSE 0
    BY <1>4, <1>6, <1>8
  <2>2. /\ SubSeq(s, End(h) + 1, Len(s)) \in Seq(Elements)
        /\ Len(SubSeq(s, End(h) + 1, Len(s))) =
              IF End(h) + 1 <= Len(s) THEN Len(s) - (End(h) + 1) + 1 ELSE 0
    BY <2>1, SubSeqProperties
  <2> QED BY <2>1, <2>2
<1> HIDE DEF p, q
<1>11. Len(new) \in Nat
  BY LenProperties
<1>12. p \o new \in Seq(Elements) /\ Len(p \o new) = Start(h) + Len(new)
  BY <1>9, ConcatProperties
<1>13. (p \o new) \o q \in Seq(Elements) /\ Len((p \o new) \o q) = Start(h) + Len(new) + (Len(s) - End(h))
  <2> DEFINE u == p \o new
  <2>1. u \in Seq(Elements) /\ Len(u) = Start(h) + Len(new)
    BY <1>12
  <2> HIDE DEF u
  <2>2. u \o q \in Seq(Elements) /\ Len(u \o q) = Len(u) + Len(q)
    BY <1>10, <2>1, ConcatProperties
  <2>3. Len(u \o q) = Start(h) + Len(new) + (Len(s) - End(h))
    BY <1>10, <2>1, <2>2
  <2> QED BY <2>2, <2>3 DEF u
<1>14. Spliced(h, new) = (p \o new) \o q
  BY <1>3 DEF p, q
<1>15. a + b <= Len(s) => Start(h) = a /\ End(h) = a + b
  BY <1>1, <1>4, <1>5, <1>6, <1>7
<1> QED BY <1>4, <1>6, <1>8, <1>13, <1>14, <1>15 DEF s, a, b

\* What list_store leaves when nothing refuses it.
LEMMA StoreIs ==
    ASSUME HeapOK, NEW h \in Handles, NEW new \in Seq(Elements), NEW structural \in BOOLEAN,
           ~RefusesStore(h, new), heap' = Stored(h, new, structural)
    PROVE  /\ HeapOK' /\ Handles' = Handles /\ SameShape
           /\ heap'[RootOf(h)].items = Spliced(h, new)
           /\ heap'[RootOf(h)].mod =
                 heap[RootOf(h)].mod + IF Structural(h, new, structural) THEN 1 ELSE 0
           /\ \A x \in Handles :
                 x # RootOf(h) /\ ~(Structural(h, new, structural) /\ x \in Through[Target[h]]) =>
                    heap'[x] = heap[x]
           /\ Structural(h, new, structural) =>
                 \A x \in Through[Target[h]] :
                    /\ x \in Handles /\ KindIs(x, "window") /\ x # RootOf(h)
                    /\ heap[x].root = RootOf(h)
                    /\ heap'[x].len = Max({0, heap[x].len + Len(new) - LengthOf(h)})
                    /\ heap'[x].exp = heap'[RootOf(h)].mod
<1> DEFINE r == RootOf(h)
           t == Target[h]
           counts == Structural(h, new, structural)
           mod == heap[r].mod + IF counts THEN 1 ELSE 0
           rootObject == [heap[r] EXCEPT !.mod = mod, !.items = Spliced(h, new)]
           windowObject(x) == [heap[x] EXCEPT
                                 !.len = Max({0, heap[x].len + Len(new) - LengthOf(h)}), !.exp = mod]
<1>1. ~KindIs(t, "reversed")
  BY NotRefused
<1>2. /\ t \in Handles /\ r \in Handles /\ KindIs(r, "list") /\ heap[r] \in ListObjects
      /\ LengthOf(h) \in Nat
      /\ KindIs(t, "window") => r = heap[t].root
  BY <1>1, SlotIs
<1>3. heap' = [x \in Handles |->
                 CASE x = r -> rootObject
                   [] counts /\ x \in Through[t] -> windowObject(x)
                   [] OTHER -> heap[x]]
  BY DEF Stored, Splice, Structural, Spliced, Start, End
<1>4. Len(heap) \in Nat /\ Handles = 1 .. Len(heap)
  BY ObjectAt
<1>5. \A x \in Through[t] : /\ x \in Handles /\ KindIs(x, "window") /\ x # r /\ heap[x].root = r
                            /\ heap[x] \in WindowObjects
  <2> SUFFICES ASSUME NEW x \in Through[t]
      PROVE  x \in Handles /\ KindIs(x, "window") /\ x # r /\ heap[x].root = r /\ heap[x] \in WindowObjects
    OBVIOUS
  <2>1. KindIs(t, "window") /\ x \in Handles /\ KindIs(x, "window") /\ heap[x].root = heap[t].root
    BY <1>2, ThroughWindows
  <2>2. x # r
    BY <1>2, <2>1 DEF KindIs
  <2>3. heap[x] \in WindowObjects
    BY <2>1, ObjectAt
  <2> QED BY <1>2, <2>1, <2>2, <2>3
<1>6. Len(new) \in Nat
  BY LenProperties
<1>7. mod \in Nat /\ Spliced(h, new) \in Seq(Elements)
  <2>1. Spliced(h, new) \in Seq(Elements)
    BY <1>1, SplicedIs
  <2>2. heap[r].mod \in Nat
    BY <1>2 DEF ListObjects
  <2> HIDE DEF r, counts
  <2> QED BY <2>1, <2>2
<1>8. /\ heap'[r] = rootObject /\ rootObject \in ListObjects
      /\ rootObject.items = Spliced(h, new) /\ rootObject.mod = mod
      /\ Like(heap[r], rootObject)
  <2>1. heap'[r] = rootObject
    <3> HIDE DEF r, t, counts, rootObject, windowObject
    <3> QED BY <1>2, <1>3, <1>5
  <2> DEFINE o == heap[r]
             i == Spliced(h, new)
  <2>2. rootObject = [o EXCEPT !.mod = mod, !.items = i]
    OBVIOUS
  <2> HIDE DEF o, i, r, mod, rootObject
  <2>3. o \in ListObjects /\ i \in Seq(Elements) /\ mod \in Nat
    BY <1>2, <1>7 DEF o, i
  <2>4. /\ rootObject \in ListObjects /\ rootObject.items = i /\ rootObject.mod = mod
        /\ Like(o, rootObject)
    BY <2>2, <2>3 DEF ListObjects, Like
  <2> QED BY <2>1, <2>4 DEF o, i
<1>9. ASSUME NEW x \in Through[t], counts
      PROVE  /\ heap'[x] = windowObject(x) /\ windowObject(x) \in WindowObjects
             /\ windowObject(x).len = Max({0, heap[x].len + Len(new) - LengthOf(h)})
             /\ windowObject(x).exp = mod /\ Like(heap[x], windowObject(x))
  <2>1. heap'[x] = windowObject(x)
    <3> HIDE DEF r, t, counts, rootObject, windowObject
    <3> QED BY <1>3, <1>5, <1>9
  <2> DEFINE o == heap[x]
             l == Max({0, heap[x].len + Len(new) - LengthOf(h)})
  <2>2. o \in WindowObjects
    BY <1>5
  <2>3. l \in Nat
    <3>1. heap[x].len \in Nat
      BY <2>2 DEF WindowObjects
    <3>2. 0 \in Int /\ heap[x].len + Len(new) - LengthOf(h) \in Int
      BY <1>2, <1>6, <3>1
    <3>3. l = IF 0 <= heap[x].len + Len(new) - LengthOf(h)
              THEN heap[x].len + Len(new) - LengthOf(h) ELSE 0
      BY <3>2, TwoNumbers
    <3> HIDE DEF l
    <3> QED BY <3>2, <3>3
  <2> DEFINE w == windowObject(x)
  <2>4. w = [o EXCEPT !.len = l, !.exp = mod]
    OBVIOUS
  <2> HIDE DEF o, l, w, mod
  <2>5. w \in WindowObjects /\ w.len = l /\ w.exp = mod /\ Like(o, w)
    BY <1>7, <2>2, <2>3, <2>4 DEF WindowObjects, Like
  <2> QED BY <2>1, <2>5 DEF o, l, w
<1>10. \A x \in Handles : x # r /\ ~(counts /\ x \in Through[t]) => heap'[x] = heap[x]
  <2> HIDE DEF r, t, counts, rootObject, windowObject
  <2> QED BY <1>3
<1>11. heap \in [Handles -> Objects]
  BY <1>4, LenProperties DEF HeapOK
<1>12. \A x \in Handles : heap'[x] \in Objects /\ Like(heap[x], heap'[x])
  <2> SUFFICES ASSUME NEW x \in Handles PROVE heap'[x] \in Objects /\ Like(heap[x], heap'[x])
    OBVIOUS
  <2>1. CASE x = r
    BY <1>8, <2>1 DEF Objects
  <2>2. CASE x # r /\ counts /\ x \in Through[t]
    BY <1>9, <2>2 DEF Objects
  <2>3. CASE x # r /\ ~(counts /\ x \in Through[t])
    <3>1. heap'[x] = heap[x] /\ heap[x] \in Objects
      BY <1>10, <1>11, <2>3
    <3> QED BY <3>1 DEF Like
  <2> QED BY <2>1, <2>2, <2>3
<1>13. DOMAIN heap' = Handles /\ heap' = [x \in Handles |-> heap'[x]]
  <2> HIDE DEF r, t, counts, rootObject, windowObject
  <2> QED BY <1>3
<1>14. heap' \in [1 .. Len(heap) -> Objects]
  BY <1>4, <1>12, <1>13
<1>15. heap' \in Seq(Objects)
  BY <1>4, <1>14, SeqDef
<1>16. Handles' = Handles
  BY <1>13 DEF Handles
<1>17. SameShape
  BY <1>12, <1>16 DEF SameShape
<1>18. HeapOK'
  BY <1>15, <1>16, <1>17, ShapeKept
<1> HIDE DEF windowObject, rootObject, mod
<1> QED BY <1>5, <1>8, <1>9, <1>10, <1>16, <1>17, <1>18 DEF mod

-----------------------------------------------------------------------------
\* Elements picked from a list are a list.
LEMMA PickedIs ==
    ASSUME NEW s \in Seq(Elements), NEW keep
    PROVE  Picked(s, keep) \in Seq(Elements)
<1> DEFINE V == Seq(Elements)
           S == 0 .. Len(s)
           next == [n \in S |-> IF n = 0 THEN 0 ELSE n - 1]
           base == [n \in S |-> <<>>]
           step == [n \in S |-> [t \in V |-> IF n \in keep /\ n # 0 THEN Append(t, s[n]) ELSE t]]
           upTo == CHOOSE g : g = [n \in S |-> IF n = 0 THEN <<>>
                                               ELSE IF n \in keep THEN Append(g[n - 1], s[n])
                                               ELSE g[n - 1]]
<1>1. Len(s) \in Nat /\ \A n \in 1 .. Len(s) : s[n] \in Elements
  BY LenProperties
<1>2. base \in [S -> V]
  OBVIOUS
<1>3. step \in [S -> [V -> V]]
  <2>1. ASSUME NEW n \in S, NEW t \in V
        PROVE  (IF n \in keep /\ n # 0 THEN Append(t, s[n]) ELSE t) \in V
    <3>1. n # 0 => s[n] \in Elements
      BY <1>1
    <3>2. n # 0 => Append(t, s[n]) \in V
      BY <3>1, AppendProperties
    <3> QED BY <3>2
  <2> HIDE DEF V, S
  <2> QED BY <2>1
<1>4. Leads(S, Len(s), [n \in S |-> n], next)
  <2>1. \A n \in S : (IF n = 0 THEN 0 ELSE n - 1) \in S
    BY <1>1
  <2>2. \A n \in S : next[n] = n \/ next[n] < n
    BY <1>1
  <2> QED BY <1>1, <2>1, <2>2 DEF Leads
<1>5. PICK f \in [S -> V] : Recursive(f, S, next, base, step)
  <2> HIDE DEF S, V, next, base, step, upTo
  <2> QED BY <1>2, <1>3, <1>4, RecursionAlong, Zenon
<1>6. ASSUME NEW n \in S
      PROVE  f[n] = IF n = 0 THEN <<>>
                    ELSE IF n \in keep THEN Append(f[n - 1], s[n]) ELSE f[n - 1]
  <2>1. f[n] = IF next[n] = n THEN base[n] ELSE step[n][f[next[n]]]
    <3> HIDE DEF S, V, next, base, step
    <3> QED BY <1>5 DEF Recursive
  <2>2. CASE n = 0
    BY <2>1, <2>2
  <2>3. CASE n # 0
    <3>1. n - 1 \in S /\ next[n] = n - 1 /\ next[n] # n
      BY <1>1, <2>3
    <3>2. f[n - 1] \in V /\ f[n] = step[n][f[n - 1]]
      <4> HIDE DEF S, V, next, base, step
      <4> QED BY <2>1, <3>1
    <3> HIDE DEF S, V, next, base
    <3> QED BY <2>3, <3>2
  <2> QED BY <2>2, <2>3
<1>7. f = [n \in S |-> IF n = 0 THEN <<>>
                       ELSE IF n \in keep THEN Append(f[n - 1], s[n]) ELSE f[n - 1]]
  <2> HIDE DEF S, V, next, base, step, upTo
  <2> QED BY <1>6
<1>8. upTo = [n \in S |-> IF n = 0 THEN <<>>
                          ELSE IF n \in keep THEN Append(upTo[n - 1], s[n]) ELSE upTo[n - 1]]
  <2> HIDE DEF S, V, next, base, step
  <2> QED BY <1>7, Zenon
<1> HIDE DEF upTo
<1> DEFINE T == {n \in S : upTo[n] \notin V}
<1>9. T = {}
  <2> SUFFICES ASSUME T # {} PROVE FALSE
    OBVIOUS
  <2>1. T \in SUBSET Nat
    BY <1>1
  <2>2. PICK m \in T : \A k \in T : m <= k
    <3> HIDE DEF T
    <3> QED BY <2>1, LeastElement
  <2>3. m \in S /\ upTo[m] \notin V
    OBVIOUS
  <2>4. CASE m = 0
    BY <1>8, <2>3, <2>4
  <2>5. CASE m # 0
    <3>1. m - 1 \in S /\ s[m] \in Elements /\ ~(m <= m - 1)
      BY <1>1, <2>3, <2>5
    <3>2. upTo[m - 1] \in V
      <4> HIDE DEF V
      <4> QED BY <2>2, <3>1
    <3>3. Append(upTo[m - 1], s[m]) \in V
      BY <3>1, <3>2, AppendProperties
    <3>4. upTo[m] = IF m \in keep THEN Append(upTo[m - 1], s[m]) ELSE upTo[m - 1]
      <4> HIDE DEF V, S, T
      <4> QED BY <1>8, <2>3, <2>5
    <3> HIDE DEF V
    <3> QED BY <2>3, <3>2, <3>3, <3>4
  <2> QED BY <2>4, <2>5
<1>10. Len(s) \in S
  BY <1>1
<1>11. upTo[Len(s)] \in V
  BY <1>9, <1>10
<1> QED BY <1>11 DEF Picked, upTo

\* Inserting an element leaves a list.
LEMMA InsertItemIs ==
    ASSUME NEW s \in Seq(Elements), NEW i \in 0 .. Len(s), NEW e \in Elements
    PROVE  InsertItem(s, i, e) \in Seq(Elements)
<1>1. Len(s) \in Nat /\ \A n \in 1 .. Len(s) : s[n] \in Elements
  BY LenProperties
<1>2. /\ 1 \in Int /\ i \in Int /\ i + 1 \in Int /\ Len(s) \in Int
      /\ \A n \in 1 .. i : s[n] \in Elements
      /\ \A n \in i + 1 .. Len(s) : s[n] \in Elements
  BY <1>1
<1>3. SubSeq(s, 1, i) \in Seq(Elements) /\ SubSeq(s, i + 1, Len(s)) \in Seq(Elements)
  BY <1>2, SubSeqProperties
<1>4. <<e>> \in Seq(Elements)
  OBVIOUS
<1> QED BY <1>3, <1>4, ConcatProperties DEF InsertItem

\* The list methods make lists of lists.
LEMMA EffectsAre ==
    ASSUME NEW s \in Seq(Elements), NEW m \in ListMethods, NEW new \in Effects(m, s)
    PROVE  new \in Seq(Elements)
<1>1. Len(s) \in Nat /\ DOMAIN s = 1 .. Len(s) /\ \A n \in 1 .. Len(s) : s[n] \in Elements
  BY LenProperties
<1>2. ASSUME NEW i \in DOMAIN s, NEW e \in Elements PROVE [s EXCEPT ![i] = e] \in Seq(Elements)
  BY <1>1, <1>2, ExceptSeq
<1>3. CASE m = "add"
  BY <1>3, AppendProperties DEF Effects
<1>4. CASE m = "push"
  <2>1. Effects(m, s) = {<<e>> \o s : e \in Elements}
    BY <1>4 DEF Effects
  <2>2. PICK e \in Elements : new = <<e>> \o s
    BY <2>1
  <2> QED BY <2>2, Push
<1>5. CASE m = "insert"
  <2>1. Effects(m, s) = {InsertItem(s, i, e) : i \in 0 .. Len(s), e \in Elements}
    BY <1>5 DEF Effects
  <2>2. PICK i \in 0 .. Len(s), e \in Elements : new = InsertItem(s, i, e)
    BY <2>1
  <2> QED BY <2>2, InsertItemIs
<1>6. CASE m = "addAll"
  <2>4. Effects(m, s) = {s} \cup {s \o <<e, e>> : e \in Elements}
    BY <1>6 DEF Effects
  <2>1. new = s \/ \E e \in Elements : new = s \o <<e, e>>
    BY <2>4
  <2>2. \A e \in Elements : <<e, e>> \in Seq(Elements)
    OBVIOUS
  <2>3. \A e \in Elements : s \o <<e, e>> \in Seq(Elements)
    BY <2>2, ConcatProperties
  <2> QED BY <2>1, <2>3
<1>7. CASE m = "remove"
  <2>1. PICK i \in DOMAIN s : new = RemoveAt(s, i)
    BY <1>7 DEF Effects
  <2>2. /\ 1 \in Int /\ i - 1 \in Int /\ i + 1 \in Int /\ Len(s) \in Int
        /\ \A n \in 1 .. i - 1 : s[n] \in Elements
        /\ \A n \in i + 1 .. Len(s) : s[n] \in Elements
    BY <1>1
  <2>3. SubSeq(s, 1, i - 1) \in Seq(Elements) /\ SubSeq(s, i + 1, Len(s)) \in Seq(Elements)
    BY <2>2, SubSeqProperties
  <2> QED BY <2>1, <2>3, ConcatProperties DEF RemoveAt
<1>8. CASE m = "pop"
  <2>1. s # <<>> /\ new = Tail(s)
    BY <1>8 DEF Effects
  <2> QED BY <2>1, Pop
<1>9. CASE m = "clear"
  BY <1>9 DEF Effects
<1>10. CASE m = "removeElement"
  <2>1. Effects(m, s) = {Picked(s, {i \in DOMAIN s : s[i] = e => ~IsFirst(s, i)}) : e \in Elements}
    BY <1>10 DEF Effects
  <2>2. PICK e \in Elements : new = Picked(s, {i \in DOMAIN s : s[i] = e => ~IsFirst(s, i)})
    BY <2>1
  <2> DEFINE keep == {i \in DOMAIN s : s[i] = e => ~IsFirst(s, i)}
  <2>3. new = Picked(s, keep)
    BY <2>2
  <2> HIDE DEF keep
  <2> QED BY <2>3, PickedIs
<1>11. CASE m = "retainAll"
  <2>1. Effects(m, s) = {Picked(s, {i \in DOMAIN s : s[i] = e}) : e \in Elements}
    BY <1>11 DEF Effects
  <2>2. PICK e \in Elements : new = Picked(s, {i \in DOMAIN s : s[i] = e})
    BY <2>1
  <2> DEFINE keep == {i \in DOMAIN s : s[i] = e}
  <2>3. new = Picked(s, keep)
    BY <2>2
  <2> HIDE DEF keep
  <2> QED BY <2>3, PickedIs
<1>12. CASE m = "set"
  BY <1>2, <1>12 DEF Effects
<1>13. CASE m = "swap"
  <2>1. PICK i \in DOMAIN s, j \in DOMAIN s : new = [s EXCEPT ![i] = s[j], ![j] = s[i]]
    BY <1>13 DEF Effects
  <2>2. s[i] \in Elements /\ s[j] \in Elements
    BY <1>1
  <2>3. [s EXCEPT ![i] = s[j]] \in Seq(Elements) /\ Len([s EXCEPT ![i] = s[j]]) = Len(s)
    BY <1>1, <2>2, ExceptSeq
  <2> DEFINE u == [s EXCEPT ![i] = s[j]]
  <2>4. new = [u EXCEPT ![j] = s[i]]
    BY <2>1
  <2> HIDE DEF u
  <2>5. u \in Seq(Elements) /\ j \in 1 .. Len(u)
    BY <1>1, <2>3 DEF u
  <2> QED BY <2>2, <2>4, <2>5, ExceptSeq
<1>14. CASE m = "putAt"
  <2>1. \/ \E e \in Elements : new = InsertItem(s, Len(s), e)
        \/ \E i \in DOMAIN s, e \in Elements : new = [s EXCEPT ![i] = e]
    BY <1>14 DEF Effects
  <2>2. Len(s) \in 0 .. Len(s)
    BY <1>1
  <2> QED BY <1>2, <2>1, <2>2, InsertItemIs
<1>15. CASE m = "sort"
  <2>1. PICK p \in Bijection(DOMAIN s, DOMAIN s) : new = [i \in DOMAIN s |-> s[p[i]]]
    BY <1>15 DEF Effects, Sorted
  <2>2. p \in [DOMAIN s -> DOMAIN s]
    BY DEF Bijection, Injection
  <2>3. new \in [1 .. Len(s) -> Elements]
    BY <1>1, <2>1, <2>2
  <2> QED BY <1>1, <2>3, SeqDef
<1>16. CASE m = "reverse"
  BY <1>1, <1>16 DEF Effects, Reverse
<1>17. CASE m = "unique"
  BY <1>17, PickedIs DEF Effects
<1> QED BY <1>3, <1>4, <1>5, <1>6, <1>7, <1>8, <1>9, <1>10, <1>11, <1>12, <1>13, <1>14,
           <1>15, <1>16, <1>17 DEF ListMethods

-----------------------------------------------------------------------------
\* A new object refers to handles there are.
Fits(obj) ==
    /\ obj \in Objects
    /\ obj.kind \in {"view", "reversed"} => obj.target \in Handles
    /\ obj.kind = "window" =>
          /\ obj.root \in Handles /\ KindIs(obj.root, "list") /\ obj.parent \in Handles
          /\ KindIs(obj.parent, "window") =>
                heap[obj.parent].root = obj.root /\ heap[obj.parent].offset <= obj.offset

\* Then the heap keeps its shape, and every handle its object.
LEMMA GrowthIs ==
    ASSUME HeapOK, NEW obj, Fits(obj), Fresh(obj)
    PROVE  /\ HeapOK' /\ SameShape
           /\ Len(heap) + 1 \notin Handles /\ Handles' = Handles \cup {Len(heap) + 1}
           /\ heap'[Len(heap) + 1] = obj /\ \A h \in Handles : heap'[h] = heap[h]
<1> DEFINE n == Len(heap) + 1
<1>1. Len(heap) \in Nat /\ Handles = 1 .. Len(heap) /\ heap \in Seq(Objects)
  BY LenProperties DEF HeapOK, Handles
<1>2. obj \in Objects /\ heap' = Append(heap, obj)
  BY DEF Fits, Fresh
<1>3. /\ heap' \in Seq(Objects) /\ Len(heap') = n /\ heap'[n] = obj
      /\ \A h \in Handles : heap'[h] = heap[h]
  BY <1>1, <1>2, AppendProperties
<1>4. Handles' = 1 .. n
  BY <1>3, LenProperties DEF Handles
<1>5. n \notin Handles /\ Handles' = Handles \cup {n}
  BY <1>1, <1>4
<1>6. SameShape
  BY <1>3, <1>5 DEF SameShape, Like
<1>7. ASSUME NEW h \in Handles'
      PROVE  /\ heap'[h].kind = "view" \/ heap'[h].kind = "reversed" => heap'[h].target \in 1 .. h - 1
             /\ heap'[h].kind = "window" =>
                  /\ heap'[h].root \in 1 .. h - 1 /\ heap'[heap'[h].root].kind = "list"
                  /\ heap'[h].parent \in 1 .. h - 1
                  /\ heap'[heap'[h].parent].kind = "window" =>
                        /\ heap'[heap'[h].parent].root = heap'[h].root
                        /\ heap'[heap'[h].parent].offset <= heap'[h].offset
  <2>1. CASE h \in Handles
    <3>1. /\ heap[h].kind = "view" \/ heap[h].kind = "reversed" => heap[h].target \in 1 .. h - 1
          /\ heap[h].kind = "window" =>
               /\ heap[h].root \in 1 .. h - 1 /\ heap[heap[h].root].kind = "list"
               /\ heap[h].parent \in 1 .. h - 1
               /\ heap[heap[h].parent].kind = "window" =>
                     /\ heap[heap[h].parent].root = heap[h].root
                     /\ heap[heap[h].parent].offset <= heap[h].offset
      <4>1. HeapOK
        OBVIOUS
      <4> QED BY <2>1, <4>1 DEF HeapOK, Shape, KindIs
    <3>2. \A x \in 1 .. h - 1 : x \in Handles
      BY <1>1, <2>1
    <3> QED BY <1>3, <2>1, <3>1, <3>2
  <2>2. CASE h = n
    <3>1. 1 .. n - 1 = Handles
      BY <1>1
    <3> DEFINE m == n
    <3> HIDE DEF m
    <3>2. heap'[h] = obj /\ 1 .. h - 1 = Handles
      BY <1>3, <2>2, <3>1
    <3> QED BY <1>3, <3>2 DEF Fits, KindIs
  <2> QED BY <1>5, <2>1, <2>2
<1>8. HeapOK'
  BY <1>3, <1>7 DEF HeapOK, Shape, KindIs
<1> QED BY <1>3, <1>5, <1>6, <1>8

-----------------------------------------------------------------------------
CallRecords == [method : {"each", "removeIf"}, recv : Nat, rest : Seq(Elements),
                kept : Seq(Elements)]

TypeOK ==
    /\ heap \in Seq(Objects)
    /\ parked # NothingParked => \E h \in Handles : parked = [handle |-> h]
    /\ raised \in BOOLEAN
    /\ calls \in Seq(CallRecords) /\ \A i \in 1 .. Len(calls) : calls[i].recv \in Handles

\* A handle taken for a write outside the code of a removeIf that is on a
\* window of the same list.
Entered(h) ==
    /\ IsListHandle(h) /\ ~Stale(h)
    /\ IsReentrant(h) => "reentrant" \in Scripts

\* What a step does to the heap: nothing, a new object, or the store of some
\* contents that no object on the way refuses.
Writes(h, new, structural) ==
    ~RefusesStore(h, new) /\ heap' = Stored(h, new, structural)

NewObject ==
    \/ \E items \in Seq(Elements), policy \in Policies : Fresh(ListObj(items, policy))
    \/ \E h \in Handles, policy \in Policies :
          /\ KindIs(Target[h], "list") \/ "wrapped windows" \in Scripts
          /\ Fresh(ViewObj(h, policy))
    \/ \E h \in Handles : Fresh(ReversedObj(h))
    \/ \E h \in Handles :
          /\ IsListHandle(h) /\ ~KindIs(Target[h], "reversed") /\ ~Stale(h)
          /\ \E from, to \in 0 .. LengthOf(h) :
                /\ from <= to
                /\ Fresh(WindowObj(RootOf(h), h, OffsetOf(h) + from, to - from,
                                   heap[RootOf(h)].mod, heap[h].policy))

HeapStep ==
    \/ heap' = heap
    \/ NewObject
    \/ \E h \in Handles, new \in Seq(Elements), structural \in BOOLEAN :
          Entered(h) /\ Writes(h, new, structural)
    \/ /\ Return
       /\ \E new \in Seq(Elements) : Writes(Head(calls).recv, new, FALSE)

\* Appending in place stores the longer list.
LEMMA AppendStores ==
    ASSUME HeapOK, NEW h \in Handles, KindIs(h, "list"), NEW e \in Elements
    PROVE  /\ Append(heap[h].items, e) \in Seq(Elements)
           /\ RefusesStore(h, Append(heap[h].items, e)) <=> Refuses(heap[h].policy, TRUE)
           /\ Stored(h, Append(heap[h].items, e), TRUE) =
                 [heap EXCEPT ![h].items = Append(@, e), ![h].mod = @ + 1]
           /\ IsListHandle(h) /\ ~Stale(h)
<1> DEFINE s == heap[h].items
           new == Append(s, e)
<1>1. heap[h] \in ListObjects /\ Handles = 1 .. Len(heap)
  BY ObjectAt
<1>2. ~KindIs(h, "view") /\ ~KindIs(h, "window") /\ ~KindIs(h, "reversed")
  BY DEF KindIs
<1>3. Target[h] = h
  BY <1>2, TargetIs
<1>4. RootOf(h) = h /\ OffsetOf(h) = 0 /\ LengthOf(h) = Len(s)
  BY <1>2, <1>3 DEF RootOf, OffsetOf, LengthOf
<1>5. s \in Seq(Elements) /\ heap[h].mod \in Nat
  BY <1>1 DEF ListObjects
<1>6. new \in Seq(Elements) /\ Len(new) = Len(s) + 1 /\ Len(s) \in Nat
  BY <1>5, AppendProperties, LenProperties
<1>7. RefusesStore(h, new) <=> Refuses(heap[h].policy, TRUE)
  <2>1. (KindIs(Target[h], "reversed") \/ Len(new) # LengthOf(h)) = TRUE
    BY <1>4, <1>6
  <2>2. RefusesStore(h, new) <=> TRUE \in Refused[h]
    BY <2>1 DEF RefusesStore
  <2>3. TRUE \in Refused[h] <=> Refuses(heap[h].policy, TRUE)
    BY <1>2, RefusedIs
  <2> QED BY <2>2, <2>3
<1>8. Through[Target[h]] = {}
  BY <1>2, <1>3, ThroughIs
<1>9. End(h) = Len(s) /\ Start(h) = 0
  <2>1. OffsetOf(h) + LengthOf(h) <= Len(heap[RootOf(h)].items)
    BY <1>4, <1>6
  <2>2. Start(h) = OffsetOf(h) /\ End(h) = OffsetOf(h) + LengthOf(h)
    BY <1>2, <1>3, <1>6, <2>1, SplicedIs
  <2> QED BY <1>4, <1>6, <2>2
<1>10. Spliced(h, new) = new
  <2>1. SubSeq(s, 1, 0) = <<>> /\ SubSeq(s, Len(s) + 1, Len(s)) = <<>>
    BY <1>6, SubSeqEmpty
  <2>2. Spliced(h, new) = SubSeq(s, 1, 0) \o new \o SubSeq(s, Len(s) + 1, Len(s))
    <3> HIDE DEF new
    <3> QED BY <1>4, <1>9 DEF Spliced
  <2> HIDE DEF new
  <2> QED BY <1>6, <2>1, <2>2, ConcatEmptySeq
<1>11. Stored(h, new, TRUE) =
          [x \in Handles |-> IF x = h THEN [heap[h] EXCEPT !.mod = heap[h].mod + 1, !.items = new]
                                      ELSE heap[x]]
  <2>1. Stored(h, new, TRUE) =
           [x \in Handles |->
              CASE x = h -> [heap[h] EXCEPT !.mod = heap[h].mod + 1, !.items = Spliced(h, new)]
                [] x \in Through[Target[h]] ->
                     [heap[x] EXCEPT !.len = Max({0, @ + Len(new) - LengthOf(h)}), !.exp = heap[h].mod + 1]
                [] OTHER -> heap[x]]
    <3> HIDE DEF new
    <3> QED BY <1>4 DEF Stored, Splice, Spliced, Start, End
  <2> HIDE DEF new
  <2> QED BY <1>8, <1>10, <2>1
<1>12. [heap EXCEPT ![h].items = Append(@, e), ![h].mod = @ + 1] =
          [x \in Handles |-> IF x = h THEN [heap[h] EXCEPT !.mod = heap[h].mod + 1, !.items = new]
                                      ELSE heap[x]]
  <2>1. heap = [x \in Handles |-> heap[x]]
    BY <1>1, LenProperties DEF HeapOK
  <2> DEFINE o == heap[h]
  <2>2. [o EXCEPT !.items = Append(@, e), !.mod = @ + 1] = [o EXCEPT !.mod = o.mod + 1, !.items = Append(o.items, e)]
    <3> HIDE DEF o
    <3>1. o \in ListObjects
      BY <1>1 DEF o
    <3> QED BY <3>1 DEF ListObjects
  <2> QED BY <2>1, <2>2
<1>13. IsListHandle(h) /\ ~Stale(h)
  BY <1>2, <1>3 DEF IsListHandle, Stale
<1> QED BY <1>6, <1>7, <1>11, <1>12, <1>13

\* Every step is one of these to the heap.
LEMMA StepsAre ==
    ASSUME TypeOK, Shape, ListNext
    PROVE  HeapStep
<1>1. HeapOK
  BY DEF TypeOK, HeapOK
<1>2. ASSUME NEW h \in Handles, NEW new \in Seq(Elements), NEW structural \in BOOLEAN,
             ListStore(h, new, structural), Entered(h)
      PROVE  HeapStep
  <2>1. heap' = heap \/ Writes(h, new, structural)
    BY <1>2 DEF ListStore, Writes
  <2> QED BY <1>2, <2>1 DEF HeapStep
<1>3. CASE NewList
  <2>1. PICK items \in Literals, policy \in {"plain", "fixed", "frozen"} : Fresh(ListObj(items, policy))
    BY <1>3 DEF NewList
  <2>2. items \in Seq(Elements) /\ policy \in Policies
    BY ElementsAssumption DEF Policies
  <2> QED BY <2>1, <2>2 DEF HeapStep, NewObject
<1>4. CASE NewView
  <2>1. PICK h \in Handles, policy \in {"open", "frozen"} :
           (KindIs(Target[h], "list") \/ "wrapped windows" \in Scripts) /\ Fresh(ViewObj(h, policy))
    BY <1>4 DEF NewView
  <2>2. policy \in Policies
    BY DEF Policies
  <2> QED BY <2>1, <2>2 DEF HeapStep, NewObject
<1>5. CASE NewReversed
  BY <1>5 DEF NewReversed, HeapStep, NewObject
<1>6. CASE SubList
  <2>1. PICK h \in Handles :
           /\ IsListHandle(h) /\ ~KindIs(Target[h], "reversed")
           /\ \/ /\ ~Stale(h)
                 /\ \E from, to \in 0 .. LengthOf(h) :
                      /\ from <= to
                      /\ Fresh(WindowObj(RootOf(h), h, OffsetOf(h) + from, to - from,
                                         heap[RootOf(h)].mod, heap[h].policy))
              \/ heap' = heap
    BY <1>6 DEF SubList
  <2> QED BY <2>1 DEF HeapStep, NewObject
<1>7. CASE AppendInPlace
  <2>1. PICK h \in Handles, e \in Elements :
           /\ KindIs(h, "list")
           /\ InScript(h, Append(heap[h].items, e))
           /\ heap' = IF Refuses(heap[h].policy, TRUE) THEN heap
                      ELSE [heap EXCEPT ![h].items = Append(@, e), ![h].mod = @ + 1]
    BY <1>7 DEF AppendInPlace
  <2>2. /\ Append(heap[h].items, e) \in Seq(Elements)
        /\ RefusesStore(h, Append(heap[h].items, e)) <=> Refuses(heap[h].policy, TRUE)
        /\ Stored(h, Append(heap[h].items, e), TRUE) =
              [heap EXCEPT ![h].items = Append(@, e), ![h].mod = @ + 1]
        /\ IsListHandle(h) /\ ~Stale(h)
    BY <1>1, <2>1, AppendStores
  <2>3. Entered(h)
    BY <2>1, <2>2 DEF Entered, InScript
  <2>4. ListStore(h, Append(heap[h].items, e), TRUE)
    BY <2>1, <2>2 DEF ListStore
  <2> QED BY <1>2, <2>2, <2>3, <2>4
<1>8. CASE CallMethod
  <2>1. PICK h \in Handles, m \in ListMethods :
           /\ IsListHandle(h) /\ ~Stale(h)
           /\ \E new \in Effects(m, ItemsOf[h]) : InScript(h, new) /\ ListStore(h, new, Counts(m, h))
    BY <1>8 DEF CallMethod
  <2>2. PICK new \in Effects(m, ItemsOf[h]) : InScript(h, new) /\ ListStore(h, new, Counts(m, h))
    BY <2>1
  <2>3. ItemsOf[h] \in Seq(Elements)
    BY <1>1, ItemsAre
  <2>4. new \in Seq(Elements)
    BY <2>3, EffectsAre
  <2>5. Counts(m, h) \in BOOLEAN
    BY DEF Counts
  <2>6. Entered(h)
    BY <2>1, <2>2 DEF Entered, InScript
  <2> QED BY <1>2, <2>2, <2>4, <2>5, <2>6
<1>9. CASE CallRaises
  BY <1>9 DEF CallRaises, HeapStep
<1>10. CASE PutAt
  <2>1. PICK h \in Handles :
           /\ IsListHandle(h) /\ ~Stale(h)
           /\ \E new \in Effects("putAt", ItemsOf[h]) : InScript(h, new) /\ ListStore(h, new, FALSE)
    BY <1>10 DEF PutAt
  <2>2. PICK new \in Effects("putAt", ItemsOf[h]) : InScript(h, new) /\ ListStore(h, new, FALSE)
    BY <2>1
  <2>3. ItemsOf[h] \in Seq(Elements) /\ "putAt" \in ListMethods
    BY <1>1, ItemsAre DEF ListMethods
  <2>4. new \in Seq(Elements)
    BY <2>3, EffectsAre
  <2>5. Entered(h)
    BY <2>1, <2>2 DEF Entered, InScript
  <2> QED BY <1>2, <2>2, <2>4, <2>5
<1>11. CASE Iterate
  BY <1>11 DEF Iterate, HeapStep
<1>12. CASE Element
  BY <1>12 DEF Element, HeapStep
<1>13. CASE Return
  <2> DEFINE c == Head(calls)
             left == IF c.method = "removeIf" /\ ~raised THEN [items |-> c.kept]
                     ELSE IF parked = NothingParked THEN NothingParked
                     ELSE [items |-> ItemsOf[parked.handle]]
  <2>1. calls # <<>> /\ (heap' = heap \/ (left # NothingParked /\ ListStore(c.recv, left.items, FALSE)))
    BY <1>13 DEF Return
  <2>2. c \in CallRecords
    BY <2>1, Pop DEF TypeOK
  <2>3. left # NothingParked => left.items \in Seq(Elements)
    <3>1. CASE c.method = "removeIf" /\ ~raised
      <4>1. c.kept \in Seq(Elements)
        BY <2>2 DEF CallRecords
      <4> QED BY <3>1, <4>1
    <3>2. CASE ~(c.method = "removeIf" /\ ~raised) /\ parked # NothingParked
      <4>1. PICK h \in Handles : parked = [handle |-> h]
        BY <3>2 DEF TypeOK
      <4>2. parked.handle = h /\ ItemsOf[h] \in Seq(Elements)
        BY <1>1, <4>1, ItemsAre
      <4> QED BY <3>2, <4>2
    <3> QED BY <3>1, <3>2
  <2> HIDE DEF c, left
  <2>4. heap' = heap \/ \E new \in Seq(Elements) : Writes(c.recv, new, FALSE)
    BY <2>1, <2>3 DEF ListStore, Writes
  <2> QED BY <1>13, <2>4 DEF HeapStep, c
<1> QED BY <1>3, <1>4, <1>5, <1>6, <1>7, <1>8, <1>9, <1>10, <1>11, <1>12, <1>13 DEF ListNext

\* The objects steps make refer to handles there are.
LEMMA NewObjectFits ==
    ASSUME HeapOK, NewObject
    PROVE  \E obj : Fits(obj) /\ Fresh(obj)
<1>1. CASE \E items \in Seq(Elements), policy \in Policies : Fresh(ListObj(items, policy))
  <2>1. PICK items \in Seq(Elements), policy \in Policies : Fresh(ListObj(items, policy))
    BY <1>1
  <2>2. ListObj(items, policy) \in ListObjects
    BY DEF ListObj, ListObjects
  <2>3. ListObj(items, policy).kind = "list"
    BY DEF ListObj
  <2>4. Fits(ListObj(items, policy))
    BY <2>2, <2>3 DEF Fits, Objects
  <2> QED BY <2>1, <2>4
<1>2. CASE \E h \in Handles, policy \in Policies :
             /\ KindIs(Target[h], "list") \/ "wrapped windows" \in Scripts
             /\ Fresh(ViewObj(h, policy))
  <2>1. PICK h \in Handles, policy \in Policies : Fresh(ViewObj(h, policy))
    BY <1>2
  <2>2. h \in Nat
    BY ObjectAt
  <2>3. ViewObj(h, policy) \in ViewObjects
    BY <2>2 DEF ViewObj, ViewObjects
  <2>4. ViewObj(h, policy).kind = "view" /\ ViewObj(h, policy).target = h
    BY DEF ViewObj
  <2>5. Fits(ViewObj(h, policy))
    BY <2>3, <2>4 DEF Fits, Objects
  <2> QED BY <2>1, <2>5
<1>3. CASE \E h \in Handles : Fresh(ReversedObj(h))
  <2>1. PICK h \in Handles : Fresh(ReversedObj(h))
    BY <1>3
  <2>2. h \in Nat
    BY ObjectAt
  <2>3. ReversedObj(h) \in ReversedObjects
    BY <2>2 DEF ReversedObj, ReversedObjects, Policies
  <2>4. ReversedObj(h).kind = "reversed" /\ ReversedObj(h).target = h
    BY DEF ReversedObj
  <2>5. Fits(ReversedObj(h))
    BY <2>3, <2>4 DEF Fits, Objects
  <2> QED BY <2>1, <2>5
<1>4. CASE \E h \in Handles :
             /\ IsListHandle(h) /\ ~KindIs(Target[h], "reversed") /\ ~Stale(h)
             /\ \E from, to \in 0 .. LengthOf(h) :
                   /\ from <= to
                   /\ Fresh(WindowObj(RootOf(h), h, OffsetOf(h) + from, to - from,
                                      heap[RootOf(h)].mod, heap[h].policy))
  <2>1. PICK h \in Handles : /\ ~KindIs(Target[h], "reversed")
                             /\ \E from, to \in 0 .. LengthOf(h) :
                                   /\ from <= to
                                   /\ Fresh(WindowObj(RootOf(h), h, OffsetOf(h) + from, to - from,
                                                      heap[RootOf(h)].mod, heap[h].policy))
    BY <1>4
  <2>2. PICK from \in 0 .. LengthOf(h), to \in 0 .. LengthOf(h) :
           from <= to /\ Fresh(WindowObj(RootOf(h), h, OffsetOf(h) + from, to - from,
                                         heap[RootOf(h)].mod, heap[h].policy))
    BY <2>1
  <2> DEFINE r == RootOf(h)
             o == OffsetOf(h) + from
             l == to - from
             m == heap[r].mod
             p == heap[h].policy
             w == WindowObj(r, h, o, l, m, p)
  <2>3. /\ r \in Handles /\ KindIs(r, "list") /\ heap[r] \in ListObjects
        /\ OffsetOf(h) \in Nat /\ LengthOf(h) \in Nat
    BY <2>1, SlotIs
  <2>4. r \in Nat /\ h \in Nat /\ p \in Policies
    BY <2>3, ObjectAt
  <2>5. m \in Nat
    BY <2>3 DEF ListObjects
  <2>6. o \in Nat /\ l \in Nat /\ OffsetOf(h) <= o
    <3>1. from \in Nat /\ to \in Nat /\ from <= to
      BY <2>2, <2>3
    <3> QED BY <2>3, <3>1
  <2>7. KindIs(h, "window") => heap[h].root = r /\ heap[h].offset <= o
    <3> SUFFICES ASSUME KindIs(h, "window") PROVE heap[h].root = r /\ heap[h].offset <= o
      OBVIOUS
    <3>1. Target[h] = h
      BY TargetIs DEF KindIs
    <3>2. r = heap[h].root /\ OffsetOf(h) = heap[h].offset
      BY <2>1, <3>1, SlotIs
    <3> HIDE DEF o
    <3> QED BY <2>6, <3>2
  <2>8. Fresh(w)
    BY <2>2
  <2> HIDE DEF r, o, l, m, p
  <2>9. w \in WindowObjects
    BY <2>4, <2>5, <2>6 DEF WindowObj, WindowObjects
  <2>10. w.kind = "window" /\ w.root = r /\ w.parent = h /\ w.offset = o
    BY DEF WindowObj
  <2> HIDE DEF w
  <2>11. Fits(w)
    BY <2>3, <2>7, <2>9, <2>10 DEF Fits, Objects
  <2> QED BY <2>8, <2>11
<1> QED BY <1>1, <1>2, <1>3, <1>4 DEF NewObject

\* A store of a step: the object it goes to.
LEMMA WriterIs ==
    ASSUME TypeOK, calls # <<>>
    PROVE  Head(calls).recv \in Handles /\ Head(calls) \in CallRecords /\ Len(calls) \in Nat \ {0}
           /\ Head(calls) = calls[1]
<1>1. /\ Head(calls) \in CallRecords /\ Head(calls) = calls[1] /\ Len(calls) \in Nat \ {0}
  BY Pop DEF TypeOK
<1>2. 1 \in 1 .. Len(calls)
  BY <1>1
<1> QED BY <1>1, <1>2 DEF TypeOK

\* A heap step is a stutter, a fitting new object or an accepted store.
LEMMA HeapStepIs ==
    ASSUME TypeOK, Shape, HeapStep
    PROVE  \/ heap' = heap
           \/ NewObject /\ \E obj : Fits(obj) /\ Fresh(obj)
           \/ \E h \in Handles, new \in Seq(Elements), structural \in BOOLEAN : Writes(h, new, structural)
<1>1. HeapOK
  BY DEF TypeOK, HeapOK
<1>2. CASE Return /\ \E new \in Seq(Elements) : Writes(Head(calls).recv, new, FALSE)
  <2>1. Head(calls).recv \in Handles
    BY <1>2, WriterIs DEF Return
  <2>2. FALSE \in BOOLEAN
    OBVIOUS
  <2> QED BY <1>2, <2>1, <2>2
<1> QED BY <1>1, <1>2, NewObjectFits DEF HeapStep

\* A heap keeps its shape, and a handle what it refers to.
LEMMA HeapKept ==
    ASSUME TypeOK, Shape, HeapStep
    PROVE  HeapOK' /\ SameShape
<1>1. HeapOK
  BY DEF TypeOK, HeapOK
<1>2. CASE heap' = heap
  <2>1. Handles' = Handles
    BY <1>2 DEF Handles
  <2>2. HeapOK'
    <3>1. HeapOK /\ heap' = heap
      BY <1>1, <1>2
    <3> QED BY <3>1 DEF HeapOK, Shape, KindIs, Handles
  <2>3. SameShape
    BY <1>2, <2>1 DEF SameShape, Like
  <2> QED BY <2>2, <2>3
<1>3. CASE \E obj : Fits(obj) /\ Fresh(obj)
  BY <1>1, <1>3, GrowthIs
<1>4. ASSUME NEW h \in Handles, NEW new \in Seq(Elements), NEW structural \in BOOLEAN,
             Writes(h, new, structural)
      PROVE  HeapOK' /\ SameShape
  <2>1. ~RefusesStore(h, new) /\ heap' = Stored(h, new, structural)
    BY <1>4 DEF Writes
  <2> QED BY <1>1, <2>1, StoreIs
<1> QED BY <1>2, <1>3, <1>4, HeapStepIs

\* A store into a fixed-size list replaces as many elements.
LEMMA FixedLength ==
    ASSUME HeapOK, FixedInside, NEW h \in Handles, NEW new \in Seq(Elements),
           NEW structural \in BOOLEAN, Writes(h, new, structural),
           heap[RootOf(h)].policy = "fixed"
    PROVE  Len(new) = LengthOf(h) /\ Len(heap'[RootOf(h)].items) = Len(heap[RootOf(h)].items)
<1>1. ~RefusesStore(h, new) /\ heap' = Stored(h, new, structural)
  BY DEF Writes
<1>2. ~KindIs(Target[h], "reversed") /\ Len(new) = LengthOf(h)
  BY <1>1, NotRefused DEF Refuses
<1>3. OffsetOf(h) + LengthOf(h) <= Len(heap[RootOf(h)].items)
  <2>1. /\ Target[h] \in Handles /\ LengthOf(h) \in Nat
        /\ KindIs(Target[h], "list") \/ KindIs(Target[h], "window")
        /\ KindIs(Target[h], "list") =>
              OffsetOf(h) = 0 /\ LengthOf(h) = Len(heap[RootOf(h)].items)
        /\ KindIs(Target[h], "window") =>
              /\ RootOf(h) = heap[Target[h]].root /\ OffsetOf(h) = heap[Target[h]].offset
              /\ LengthOf(h) = heap[Target[h]].len
    BY <1>2, SlotIs
  <2>2. CASE KindIs(Target[h], "list")
    BY <2>1, <2>2
  <2>3. CASE KindIs(Target[h], "window")
    BY <2>1, <2>3 DEF FixedInside
  <2> QED BY <2>1, <2>2, <2>3
<1>4. heap'[RootOf(h)].items = Spliced(h, new)
  BY <1>1, StoreIs
<1>5. /\ OffsetOf(h) \in Nat /\ LengthOf(h) \in Nat
  BY <1>2, SlotIs
<1>6. /\ Len(heap[RootOf(h)].items) \in Nat
      /\ Start(h) = OffsetOf(h) /\ End(h) = OffsetOf(h) + LengthOf(h)
      /\ Len(Spliced(h, new)) = Start(h) + Len(new) + (Len(heap[RootOf(h)].items) - End(h))
  BY <1>2, <1>3, SplicedIs
<1>7. Len(Spliced(h, new)) = Len(heap[RootOf(h)].items)
  BY <1>2, <1>5, <1>6
<1> QED BY <1>2, <1>4, <1>7

\* A window of a fixed-size list stays inside it.
LEMMA FixedInsideKept ==
    ASSUME TypeOK, Shape, FixedInside, HeapStep
    PROVE  FixedInside'
<1>1. HeapOK /\ HeapOK' /\ SameShape
  BY HeapKept DEF TypeOK, HeapOK
<1>2. CASE heap' = heap
  BY <1>2 DEF FixedInside, KindIs, Handles
<1>3. CASE NewObject
  <2>1. PICK obj : Fits(obj) /\ Fresh(obj)
    BY <1>1, <1>3, NewObjectFits
  <2> DEFINE n == Len(heap) + 1
  <2>2. /\ n \notin Handles /\ Handles' = Handles \cup {n}
        /\ heap'[n] = obj /\ \A h \in Handles : heap'[h] = heap[h]
    BY <1>1, <2>1, GrowthIs
  <2> HIDE DEF n
  <2>3. ASSUME obj.kind = "window", heap[obj.root].policy = "fixed"
        PROVE  obj.offset + obj.len <= Len(heap[obj.root].items)
    <3>1. heap' = Append(heap, obj) /\ heap \in Seq(Objects)
      BY <1>1, <2>1 DEF Fresh, HeapOK
    <3>2. \A o : Fresh(o) => o = obj
      <4> SUFFICES ASSUME NEW o, Fresh(o) PROVE o = obj
        OBVIOUS
      <4>1. Append(heap, o)[Len(heap) + 1] = o /\ Append(heap, obj)[Len(heap) + 1] = obj
        BY <3>1
      <4> QED BY <2>1, <4>1 DEF Fresh
    <3>3. PICK h \in Handles :
             /\ ~KindIs(Target[h], "reversed")
             /\ \E from, to \in 0 .. LengthOf(h) :
                   /\ from <= to
                   /\ obj = WindowObj(RootOf(h), h, OffsetOf(h) + from, to - from,
                                      heap[RootOf(h)].mod, heap[h].policy)
      <4>1. \A items, policy : obj # ListObj(items, policy)
        BY <2>3 DEF ListObj
      <4>2. \A h, policy : obj # ViewObj(h, policy)
        BY <2>3 DEF ViewObj
      <4>3. \A h : obj # ReversedObj(h)
        BY <2>3 DEF ReversedObj
      <4> QED BY <1>3, <3>2, <4>1, <4>2, <4>3 DEF NewObject
    <3>4. PICK from \in 0 .. LengthOf(h), to \in 0 .. LengthOf(h) :
             /\ from <= to
             /\ obj = WindowObj(RootOf(h), h, OffsetOf(h) + from, to - from,
                                heap[RootOf(h)].mod, heap[h].policy)
      BY <3>3
    <3>5. obj.root = RootOf(h) /\ obj.offset = OffsetOf(h) + from /\ obj.len = to - from
      BY <3>4 DEF WindowObj
    <3>6. /\ Target[h] \in Handles /\ OffsetOf(h) \in Nat /\ LengthOf(h) \in Nat
          /\ KindIs(Target[h], "list") \/ KindIs(Target[h], "window")
          /\ KindIs(Target[h], "list") =>
                OffsetOf(h) = 0 /\ LengthOf(h) = Len(heap[RootOf(h)].items)
          /\ KindIs(Target[h], "window") =>
                /\ RootOf(h) = heap[Target[h]].root /\ OffsetOf(h) = heap[Target[h]].offset
                /\ LengthOf(h) = heap[Target[h]].len
          /\ heap[RootOf(h)] \in ListObjects
      BY <1>1, <3>3, SlotIs
    <3>7. heap[RootOf(h)].items \in Seq(Elements)
      BY <3>6 DEF ListObjects
    <3>8. Len(heap[RootOf(h)].items) \in Nat
      BY <3>7, LenProperties
    <3>9. OffsetOf(h) + LengthOf(h) <= Len(heap[RootOf(h)].items)
      <4>1. CASE KindIs(Target[h], "list")
        BY <3>6, <3>8, <4>1
      <4>2. CASE KindIs(Target[h], "window")
        BY <2>3, <3>5, <3>6, <4>2 DEF FixedInside
      <4> QED BY <3>6, <4>1, <4>2
    <3>10. from \in Int /\ to \in Int /\ to <= LengthOf(h)
      BY <3>6
    <3> QED BY <3>5, <3>6, <3>8, <3>9, <3>10
  <2>4. obj.kind = "window" => obj.root \in Handles
    BY <2>1 DEF Fits
  <2>5. \A h \in Handles : KindIs(h, "window") => heap[h].root \in Handles
    BY <1>1, ObjectAt
  <2> QED BY <2>2, <2>3, <2>4, <2>5 DEF FixedInside, KindIs
<1>4. ASSUME NEW h \in Handles, NEW new \in Seq(Elements), NEW structural \in BOOLEAN,
             Writes(h, new, structural)
      PROVE  FixedInside'
  <2> DEFINE r == RootOf(h)
             counts == Structural(h, new, structural)
  <2>1. ~RefusesStore(h, new) /\ heap' = Stored(h, new, structural)
    BY <1>4 DEF Writes
  <2>2. ~KindIs(Target[h], "reversed")
    BY <1>1, <2>1, NotRefused
  <2>3. /\ Handles' = Handles
        /\ \A x \in Handles : x # r /\ ~(counts /\ x \in Through[Target[h]]) => heap'[x] = heap[x]
        /\ counts => \A x \in Through[Target[h]] :
              /\ KindIs(x, "window") /\ heap[x].root = r
              /\ heap'[x].len = Max({0, heap[x].len + Len(new) - LengthOf(h)})
    BY <1>1, <2>1, StoreIs
  <2>4. heap[r].policy = "fixed" =>
           Len(new) = LengthOf(h) /\ Len(heap'[r].items) = Len(heap[r].items)
    BY <1>1, <1>4, FixedLength
  <2>5. LengthOf(h) \in Nat /\ KindIs(r, "list")
    BY <1>1, <2>2, SlotIs
  <2> HIDE DEF r, counts
  <2>6. ASSUME NEW w \in Handles, heap'[w].kind = "window", heap'[heap'[w].root].policy = "fixed"
        PROVE  heap'[w].offset + heap'[w].len <= Len(heap'[heap'[w].root].items)
    <3>1. Like(heap[w], heap'[w])
      BY <1>1 DEF SameShape
    <3>2. KindIs(w, "window") /\ heap'[w].root = heap[w].root /\ heap'[w].offset = heap[w].offset
      BY <2>6, <3>1 DEF Like, KindIs
    <3>3. heap[w] \in WindowObjects /\ heap[w].root \in Handles /\ KindIs(heap[w].root, "list")
      <4>1. heap[w] \in WindowObjects /\ heap[w].root \in Handles /\ heap[heap[w].root] \in ListObjects
        BY <1>1, <3>2, ObjectAt
      <4> QED BY <4>1 DEF ListObjects, KindIs
    <3>4. heap[heap[w].root].policy = "fixed"
      BY <1>1, <2>6, <3>2, <3>3 DEF SameShape, Like
    <3>5. heap[w].offset + heap[w].len <= Len(heap[heap[w].root].items)
      BY <3>2, <3>4 DEF FixedInside
    <3>6. heap[w].len \in Nat
      BY <3>3 DEF WindowObjects
    <3>7. Len(heap'[heap[w].root].items) = Len(heap[heap[w].root].items)
      <4>1. CASE heap[w].root = r
        BY <2>4, <3>4, <4>1
      <4>2. CASE heap[w].root # r
        <5>1. heap'[heap[w].root] = heap[heap[w].root]
          BY <2>3, <3>3, <4>2 DEF KindIs
        <5> QED BY <5>1
      <4> QED BY <4>1, <4>2
    <3>8. heap'[w].len = heap[w].len
      <4>1. CASE counts /\ w \in Through[Target[h]]
        <5>1. heap[w].root = r /\ heap'[w].len = Max({0, heap[w].len + Len(new) - LengthOf(h)})
          BY <2>3, <4>1
        <5>2. Len(new) = LengthOf(h)
          BY <2>4, <3>4, <5>1
        <5>3. heap[w].len + Len(new) - LengthOf(h) = heap[w].len
          BY <2>5, <3>6, <5>2
        <5>4. heap'[w].len = Max({0, heap[w].len})
          BY <5>1, <5>3
        <5>5. 0 \in Int /\ heap[w].len \in Int /\ 0 <= heap[w].len
          BY <3>6
        <5> QED BY <5>4, <5>5, TwoNumbers
      <4>2. CASE ~(counts /\ w \in Through[Target[h]])
        <5>1. w # r
          BY <2>5, <3>2 DEF KindIs
        <5> QED BY <2>3, <4>2, <5>1
      <4> QED BY <4>1, <4>2
    <3> QED BY <3>2, <3>5, <3>7, <3>8
  <2> QED BY <2>3, <2>6 DEF FixedInside, KindIs
<1> QED BY <1>2, <1>3, <1>4, HeapStepIs

\* A step leaves the parked elements, and the calls, of the right type.
LEMMA TypeKept ==
    ASSUME TypeOK, Shape, ListNext
    PROVE  TypeOK'
<1>1. HeapOK /\ HeapOK' /\ SameShape
  BY StepsAre, HeapKept DEF TypeOK, HeapOK
<1>2. \A h \in Handles : h \in Handles'
  BY <1>1 DEF SameShape
<1>3. heap' \in Seq(Objects)
  BY <1>1 DEF HeapOK
<1> DEFINE ParkedOK == parked # NothingParked => \E h \in Handles : parked = [handle |-> h]
           CallsOK == calls \in Seq(CallRecords) /\ \A i \in 1 .. Len(calls) : calls[i].recv \in Handles
<1>4. ParkedOK /\ CallsOK /\ raised \in BOOLEAN
  BY DEF TypeOK
<1> SUFFICES ParkedOK' /\ CallsOK' /\ raised' \in BOOLEAN
  BY <1>3 DEF TypeOK
<1>5. UNCHANGED parked => ParkedOK'
  BY <1>2, <1>4
<1>6. ASSUME NEW h \in Handles, parked' = NothingParked \/ parked' = [handle |-> h] PROVE ParkedOK'
  BY <1>2, <1>6
<1>7. \A h, stays : Writeback(h, stays) => parked' = NothingParked \/ parked' = [handle |-> h]
  BY DEF Writeback
<1>8. UNCHANGED calls => CallsOK'
  <2> SUFFICES ASSUME calls' = calls PROVE CallsOK'
    OBVIOUS
  <2> QED BY <1>2, <1>4
<1>9. \A b : Answer(b) => raised' \in BOOLEAN
  BY <1>4 DEF Answer, RaiseList
<1>10. RaiseList => raised' \in BOOLEAN
  BY DEF RaiseList
<1>11. parked' = NothingParked => ParkedOK'
  OBVIOUS
<1>12. CASE NewList
  BY <1>4, <1>5, <1>8, <1>12 DEF NewList
<1>13. CASE NewView
  BY <1>4, <1>8, <1>11, <1>13 DEF NewView
<1>14. CASE NewReversed
  BY <1>4, <1>8, <1>11, <1>14 DEF NewReversed
<1>15. CASE SubList
  BY <1>4, <1>8, <1>10, <1>11, <1>15 DEF SubList
<1>16. CASE AppendInPlace
  <2>1. \E h \in Handles : \E refused : Writeback(h, refused) /\ Answer(refused)
    BY <1>16 DEF AppendInPlace
  <2>2. UNCHANGED calls
    BY <1>16 DEF AppendInPlace
  <2> HIDE DEF ParkedOK, CallsOK
  <2> QED BY <1>6, <1>7, <1>8, <1>9, <2>1, <2>2
<1>17. CASE CallMethod
  <2>1. \E h \in Handles : \E refused : Writeback(h, refused) /\ Answer(refused)
    BY <1>17 DEF CallMethod
  <2>2. UNCHANGED calls
    BY <1>17 DEF CallMethod
  <2> HIDE DEF ParkedOK, CallsOK
  <2> QED BY <1>6, <1>7, <1>8, <1>9, <2>1, <2>2
<1>18. CASE CallRaises
  BY <1>8, <1>10, <1>11, <1>18 DEF CallRaises
<1>19. CASE PutAt
  <2>1. \E refused : Answer(refused)
    BY <1>19 DEF PutAt
  <2>2. UNCHANGED <<parked, calls>>
    BY <1>19 DEF PutAt
  <2> HIDE DEF ParkedOK, CallsOK
  <2> QED BY <1>5, <1>8, <1>9, <2>1, <2>2
<1>20. CASE Iterate
  <2>1. PICK h \in Handles, m \in {"each", "removeIf"} :
           calls' = <<[method |-> m, recv |-> h, rest |-> ItemsOf[h], kept |-> <<>>]>> \o calls
    BY <1>20 DEF Iterate
  <2>2. ItemsOf[h] \in Seq(Elements) /\ h \in Nat
    BY <1>1, ItemsAre, ObjectAt
  <2> DEFINE c == [method |-> m, recv |-> h, rest |-> ItemsOf[h], kept |-> <<>>]
  <2>3. c \in CallRecords /\ c.recv = h
    BY <2>2 DEF CallRecords
  <2> HIDE DEF c
  <2>4. calls' = <<c>> \o calls
    BY <2>1 DEF c
  <2>5. /\ calls' \in Seq(CallRecords) /\ Len(calls) \in Nat /\ Len(calls') = Len(calls) + 1
        /\ calls'[1] = c /\ \A i \in 2 .. Len(calls) + 1 : calls'[i] = calls[i - 1]
    BY <1>4, <2>3, <2>4, Push
  <2>6. ASSUME NEW i \in 1 .. Len(calls') PROVE calls'[i].recv \in Handles
    <3>1. CASE i = 1
      BY <2>3, <2>5, <3>1
    <3>2. CASE i # 1
      <4>1. i \in 2 .. Len(calls) + 1 /\ i - 1 \in 1 .. Len(calls)
        BY <2>5, <3>2
      <4> QED BY <1>4, <2>5, <4>1
    <3> QED BY <3>1, <3>2
  <2>7. CallsOK'
    BY <1>2, <2>5, <2>6
  <2>8. parked' = NothingParked /\ raised' = raised
    BY <1>20 DEF Iterate
  <2> QED BY <1>4, <1>11, <2>7, <2>8
<1>21. CASE Element
  <2>1. PICK hit \in BOOLEAN :
           calls' = [calls EXCEPT ![1].rest = Tail(@),
                                  ![1].kept = IF hit THEN @ ELSE Append(@, Head(calls[1].rest))]
    BY <1>21 DEF Element
  <2>2. calls # <<>> /\ Head(calls).rest # <<>>
    BY <1>21 DEF Element
  <2> DEFINE c == calls[1]
             e == [c EXCEPT !.rest = Tail(@), !.kept = IF hit THEN @ ELSE Append(@, Head(c.rest))]
  <2>3. c \in CallRecords /\ c.rest # <<>> /\ Len(calls) \in Nat \ {0} /\ c.recv \in Handles
    BY <2>2, WriterIs
  <2>4. calls' = [calls EXCEPT ![1] = e]
    BY <2>1
  <2> HIDE DEF c
  <2>5. e \in CallRecords /\ e.recv = c.recv
    <3>1. c.rest \in Seq(Elements) /\ c.kept \in Seq(Elements) /\ c.rest # <<>>
      BY <2>3 DEF CallRecords
    <3>2. Tail(c.rest) \in Seq(Elements) /\ Head(c.rest) \in Elements
      BY <3>1, Pop
    <3>3. Append(c.kept, Head(c.rest)) \in Seq(Elements)
      BY <3>1, <3>2, AppendProperties
    <3> DEFINE k == IF hit THEN c.kept ELSE Append(c.kept, Head(c.rest))
               t == Tail(c.rest)
    <3>4. k \in Seq(Elements) /\ t \in Seq(Elements)
      BY <3>1, <3>2, <3>3
    <3>5. e = [c EXCEPT !.rest = t, !.kept = k]
      BY <2>3 DEF CallRecords
    <3> HIDE DEF k, t
    <3> QED BY <2>3, <3>4, <3>5 DEF CallRecords
  <2> HIDE DEF e
  <2>6. /\ calls' \in Seq(CallRecords) /\ Len(calls') = Len(calls)
        /\ \A i \in 1 .. Len(calls) : calls'[i] = IF i = 1 THEN e ELSE calls[i]
    BY <1>4, <2>3, <2>4, <2>5, ExceptSeq
  <2>7. \A i \in 1 .. Len(calls') : calls'[i].recv \in Handles
    BY <1>4, <2>3, <2>5, <2>6
  <2>8. CallsOK'
    BY <1>2, <2>6, <2>7
  <2>9. UNCHANGED <<parked, raised>>
    BY <1>21 DEF Element
  <2> HIDE DEF ParkedOK, CallsOK
  <2> QED BY <1>4, <1>5, <2>8, <2>9
<1>22. CASE Return
  <2>1. calls # <<>> /\ calls' = Tail(calls)
    BY <1>22 DEF Return
  <2>2. parked' = NothingParked \/ \E stays : Writeback(Head(calls).recv, stays)
    BY <1>22 DEF Return
  <2>3. Head(calls).recv \in Handles
    BY <2>1, WriterIs
  <2>4. ParkedOK'
    <3> HIDE DEF ParkedOK
    <3> QED BY <1>6, <1>7, <1>11, <2>2, <2>3
  <2>5. raised' \in BOOLEAN
    BY <1>4, <1>22 DEF Return
  <2>6. /\ calls' \in Seq(CallRecords) /\ Len(calls) \in Nat \ {0} /\ Len(calls') = Len(calls) - 1
        /\ \A i \in 1 .. Len(calls) - 1 : calls'[i] = calls[i + 1]
    BY <1>4, <2>1, Pop
  <2>7. \A i \in 1 .. Len(calls') : i + 1 \in 1 .. Len(calls)
    BY <2>6
  <2>8. CallsOK'
    BY <1>2, <1>4, <2>6, <2>7
  <2> QED BY <2>4, <2>5, <2>8
<1> HIDE DEF ParkedOK, CallsOK
<1> QED BY <1>12, <1>13, <1>14, <1>15, <1>16, <1>17, <1>18, <1>19, <1>20, <1>21, <1>22 DEF ListNext

-----------------------------------------------------------------------------
IInv == TypeOK /\ Shape /\ FixedInside

\* An empty heap.
LEMMA ListInitIInv == ListInit => IInv
<1> SUFFICES ASSUME ListInit PROVE IInv
  OBVIOUS
<1>1. heap = <<>> /\ parked = NothingParked /\ raised = FALSE /\ calls = <<>>
  BY DEF ListInit
<1>2. Handles = {} /\ Len(calls) = 0
  BY <1>1 DEF Handles
<1>3. 1 .. Len(calls) = {}
  BY <1>2
<1>4. heap \in Seq(Objects) /\ calls \in Seq(CallRecords)
  BY <1>1
<1> QED BY <1>1, <1>2, <1>3, <1>4 DEF IInv, TypeOK, Shape, FixedInside

\* Every step keeps the invariant.
LEMMA NextKeepsIInv == IInv /\ [ListNext]_listVars => IInv'
<1> SUFFICES ASSUME IInv, [ListNext]_listVars PROVE IInv'
  OBVIOUS
<1>1. CASE ListNext
  <2>1. HeapStep
    BY <1>1, StepsAre DEF IInv
  <2>2. TypeOK' /\ HeapOK' /\ FixedInside'
    BY <1>1, <2>1, TypeKept, HeapKept, FixedInsideKept DEF IInv
  <2> QED BY <2>2 DEF IInv, HeapOK
<1>2. CASE UNCHANGED listVars
  BY <1>2 DEF IInv, TypeOK, Shape, FixedInside, listVars, Handles, KindIs, Objects
<1> QED BY <1>1, <1>2

\* The heap is well typed, handles refer to older handles of the right kind,
\* and nothing shortens a fixed-size list below a window of it (host.rs:3350).
THEOREM Invariant == ListSpec => []IInv
BY ListInitIInv, NextKeepsIInv, PTL DEF ListSpec

\* What a step does to a list that may not be written, or not resized.
LEMMA PolicyStep ==
    ASSUME IInv, HeapStep, NEW l \in Handles, KindIs(l, "list")
    PROVE  /\ heap[l].policy = "frozen" => heap'[l].items = heap[l].items
           /\ heap[l].policy = "fixed" => Len(heap'[l].items) = Len(heap[l].items)
<1>1. HeapOK /\ FixedInside /\ TypeOK /\ Shape
  BY DEF IInv, TypeOK, HeapOK
<1>2. CASE heap' = heap
  BY <1>2
<1>3. CASE \E obj : Fits(obj) /\ Fresh(obj)
  <2>1. heap'[l] = heap[l]
    BY <1>1, <1>3, GrowthIs
  <2> QED BY <2>1
<1>4. ASSUME NEW h \in Handles, NEW new \in Seq(Elements), NEW structural \in BOOLEAN,
             Writes(h, new, structural)
      PROVE  /\ heap[l].policy = "frozen" => heap'[l].items = heap[l].items
             /\ heap[l].policy = "fixed" => Len(heap'[l].items) = Len(heap[l].items)
  <2>1. ~RefusesStore(h, new) /\ heap' = Stored(h, new, structural)
    BY <1>4 DEF Writes
  <2>2. CASE l = RootOf(h)
    <3>1. heap[l].policy # "frozen"
      BY <1>1, <2>1, <2>2, NotRefused DEF Refuses
    <3>2. heap[l].policy = "fixed" => Len(heap'[l].items) = Len(heap[l].items)
      BY <1>1, <1>4, <2>2, FixedLength
    <3> QED BY <3>1, <3>2
  <2>3. CASE l # RootOf(h)
    <3>1. /\ \A x \in Handles :
                x # RootOf(h) /\ ~(Structural(h, new, structural) /\ x \in Through[Target[h]]) =>
                   heap'[x] = heap[x]
          /\ Structural(h, new, structural) => \A x \in Through[Target[h]] : KindIs(x, "window")
      BY <1>1, <2>1, StoreIs
    <3>2. ~KindIs(l, "window")
      BY DEF KindIs
    <3>3. heap'[l] = heap[l]
      BY <2>3, <3>1, <3>2
    <3> QED BY <3>3
  <2> QED BY <2>2, <2>3
<1> QED BY <1>1, <1>2, <1>3, <1>4, HeapStepIs

\* An unmodifiable list never changes and a fixed-size one keeps its length,
\* through any depth of views and windows, whatever the script does, the
\* elements an each returns late included (seq.rs:720, host.rs:3363).
THEOREM PoliciesHold == ListSpec => PoliciesKept
<1> DEFINE Kept == \A h \in Handles : KindIs(h, "list") =>
                      /\ heap[h].policy = "frozen" => heap'[h].items = heap[h].items
                      /\ heap[h].policy = "fixed" => Len(heap'[h].items) = Len(heap[h].items)
<1>1. IInv /\ [ListNext]_listVars => [Kept]_listVars
  <2> SUFFICES ASSUME IInv, ListNext PROVE Kept
    OBVIOUS
  <2>1. HeapStep
    BY StepsAre DEF IInv
  <2> QED BY <2>1, PolicyStep
<1> QED BY <1>1, Invariant, PTL DEF ListSpec, PoliciesKept

-----------------------------------------------------------------------------
\* Scripts that call methods on variables, wrap no windows and write to no
\* list below a window that a removeIf is on.
PlainScripts == Scripts = {}

\* Views show lists.
ViewsOnLists == \A h \in Handles : KindIs(h, "view") => KindIs(Target[h], "list")

\* A window expects a counter its list has or had.
CountersBehind ==
    \A w \in Handles : KindIs(w, "window") => heap[w].exp <= heap[heap[w].root].mod

\* A live window lies in its list and in the window it was taken from, which
\* lives too.
Lives(w) == KindIs(w, "window") /\ heap[heap[w].root].mod = heap[w].exp
Inside ==
    \A w \in Handles : Lives(w) =>
       /\ heap[w].offset + heap[w].len <= Len(heap[heap[w].root].items)
       /\ KindIs(heap[w].parent, "window") =>
             /\ Lives(heap[w].parent)
             /\ heap[w].offset + heap[w].len <= heap[heap[w].parent].offset + heap[heap[w].parent].len

\* While a closure runs nothing is parked; a removeIf inside another call is
\* one its receiver accepts; the window a removeIf is on lives, and no call
\* inside that removeIf is a removeIf on the same list.
OnWindow(c) == c.method = "removeIf" /\ KindIs(Target[c.recv], "window")
CallsApart ==
    /\ calls # <<>> => parked = NothingParked
    /\ \A i \in 1 .. Len(calls) - 1 :
          calls[i].method = "removeIf" => TRUE \notin Refused[calls[i].recv]
    /\ \A i \in 1 .. Len(calls) : OnWindow(calls[i]) => ~Stale(calls[i].recv)
    /\ \A i \in 1 .. Len(calls) : \A j \in 1 .. i - 1 :
          OnWindow(calls[i]) /\ calls[j].method = "removeIf" =>
             RootOf(calls[j].recv) # RootOf(calls[i].recv)

PInv == ViewsOnLists /\ CountersBehind /\ Inside /\ CallsApart

-----------------------------------------------------------------------------
\* check_comodification of a window compares its list's counter with its own.
LEMMA WindowIs ==
    ASSUME HeapOK, NEW w \in Handles, KindIs(w, "window")
    PROVE  /\ Target[w] = w /\ RootOf(w) = heap[w].root
           /\ OffsetOf(w) = heap[w].offset /\ LengthOf(w) = heap[w].len
           /\ Lives(w) <=> ~Stale(w)
<1>1. Target[w] = w
  BY TargetIs DEF KindIs
<1> QED BY <1>1 DEF RootOf, OffsetOf, LengthOf, Stale, Lives

\* A live window and the windows it was taken through.
LEMMA LivesThrough ==
    ASSUME HeapOK, Inside, NEW w \in Handles, Lives(w), NEW x \in Through[w]
    PROVE  /\ Lives(x)
           /\ heap[w].offset + heap[w].len <= heap[x].offset + heap[x].len
<1> DEFINE Good(g) == Lives(g) => \A y \in Through[g] :
                         /\ Lives(y)
                         /\ heap[g].offset + heap[g].len <= heap[y].offset + heap[y].len
           T == {g \in Handles : ~Good(g)}
<1>1. T = {}
  <2> SUFFICES ASSUME T # {} PROVE FALSE
    OBVIOUS
  <2> HIDE DEF Good
  <2>1. PICK m \in T : \A k \in Handles : k < m => k \notin T
    BY OldestHandle
  <2>2. m \in Handles /\ ~Good(m)
    OBVIOUS
  <2>3. Lives(m) /\ KindIs(m, "window")
    BY <2>2 DEF Good, Lives
  <2> DEFINE p == heap[m].parent
  <2>4. /\ heap[m] \in WindowObjects /\ p \in Handles /\ p < m
        /\ KindIs(p, "window") => heap[p] \in WindowObjects
    BY <2>2, <2>3, ObjectAt
  <2>5. Through[m] = {m} \cup Through[p]
    BY <2>2, <2>3, ThroughIs
  <2>6. KindIs(p, "window") => Lives(p) /\ heap[m].offset + heap[m].len <= heap[p].offset + heap[p].len
    BY <2>2, <2>3 DEF Inside
  <2> HIDE DEF p
  <2>7. Good(p)
    BY <2>1, <2>4
  <2>8. ASSUME NEW y \in Through[m], y # m
        PROVE  Lives(y) /\ heap[m].offset + heap[m].len <= heap[y].offset + heap[y].len
    <3>1. y \in Through[p]
      BY <2>5, <2>8
    <3>2. KindIs(p, "window") /\ y \in Handles /\ KindIs(y, "window")
      BY <2>4, <3>1, ThroughWindows
    <3>3. Lives(y) /\ heap[p].offset + heap[p].len <= heap[y].offset + heap[y].len
      BY <2>6, <2>7, <3>1, <3>2 DEF Good
    <3>4. heap[y] \in WindowObjects
      BY <3>2, ObjectAt
    <3>5. /\ heap[y].offset \in Nat /\ heap[y].len \in Nat
          /\ heap[p].offset \in Nat /\ heap[p].len \in Nat
          /\ heap[m].offset \in Nat /\ heap[m].len \in Nat
      BY <2>4, <3>2, <3>4 DEF WindowObjects
    <3> QED BY <2>6, <3>2, <3>3, <3>5
  <2>9. heap[m].offset \in Nat /\ heap[m].len \in Nat
    BY <2>4 DEF WindowObjects
  <2> QED BY <2>2, <2>3, <2>8, <2>9 DEF Good
<1> QED BY <1>1

\* An interval that may be used lies in its list.
LEMMA SlotInside ==
    ASSUME HeapOK, Inside, ViewsOnLists, NEW h \in Handles, ~KindIs(Target[h], "reversed"), ~Stale(h)
    PROVE  /\ OffsetOf(h) + LengthOf(h) <= Len(heap[RootOf(h)].items)
           /\ KindIs(Target[h], "window") => Target[h] = h /\ KindIs(h, "window") /\ Lives(h)
<1>1. /\ Target[h] \in Handles
      /\ KindIs(Target[h], "list") \/ KindIs(Target[h], "window")
      /\ KindIs(Target[h], "list") =>
            OffsetOf(h) = 0 /\ LengthOf(h) = Len(heap[RootOf(h)].items) /\ LengthOf(h) \in Nat
  BY SlotIs
<1>2. CASE KindIs(Target[h], "list")
  <2>1. ~KindIs(Target[h], "window")
    BY <1>2 DEF KindIs
  <2> QED BY <1>1, <1>2, <2>1
<1>3. CASE KindIs(Target[h], "window")
  <2>1. ~KindIs(h, "view")
    BY <1>3 DEF ViewsOnLists, KindIs
  <2>2. Target[h] = h
    BY <2>1, TargetIs
  <2>3. KindIs(h, "window") /\ Lives(h)
    BY <1>3, <2>2, WindowIs
  <2>4. RootOf(h) = heap[h].root /\ OffsetOf(h) = heap[h].offset /\ LengthOf(h) = heap[h].len
    BY <2>3, WindowIs
  <2>5. heap[h].offset + heap[h].len <= Len(heap[heap[h].root].items)
    BY <2>3 DEF Inside
  <2> QED BY <2>2, <2>3, <2>4, <2>5
<1> QED BY <1>1, <1>2, <1>3

\* The windows a store leaves alive: those it went through, resized, and, if
\* it does not count, all that lived.
LEMMA StoreInside ==
    ASSUME HeapOK, ViewsOnLists, CountersBehind, Inside,
           NEW h \in Handles, NEW new \in Seq(Elements), NEW structural \in BOOLEAN,
           ~Stale(h), Writes(h, new, structural)
    PROVE  /\ CountersBehind' /\ Inside'
           /\ Len(heap'[RootOf(h)].items) = Len(heap[RootOf(h)].items) + Len(new) - LengthOf(h)
           /\ Len(new) \in Nat /\ LengthOf(h) \in Nat
           /\ \A w \in Handles : KindIs(w, "window") =>
                 /\ Structural(h, new, structural) /\ w \in Through[Target[h]] =>
                       /\ heap'[w].len = heap[w].len + Len(new) - LengthOf(h)
                       /\ heap'[heap[w].root].mod = heap'[w].exp
                 /\ Structural(h, new, structural) /\ w \notin Through[Target[h]]
                       /\ heap[w].root = RootOf(h) =>
                          heap'[heap[w].root].mod # heap'[w].exp
                 /\ ~(Structural(h, new, structural) /\ w \in Through[Target[h]]) =>
                       heap'[w] = heap[w]
                 /\ ~(Structural(h, new, structural) /\ heap[w].root = RootOf(h)) =>
                       heap'[w] = heap[w] /\ heap'[heap[w].root].mod = heap[heap[w].root].mod
<1> DEFINE r == RootOf(h)
           t == Target[h]
           counts == Structural(h, new, structural)
           n == Len(heap[r].items)
           d == Len(new) - LengthOf(h)
<1>1. ~RefusesStore(h, new) /\ heap' = Stored(h, new, structural)
  BY DEF Writes
<1>2. ~KindIs(t, "reversed")
  BY <1>1, NotRefused
<1>3. /\ t \in Handles /\ r \in Handles /\ KindIs(r, "list") /\ heap[r] \in ListObjects
      /\ OffsetOf(h) \in Nat /\ LengthOf(h) \in Nat
      /\ KindIs(t, "list") \/ KindIs(t, "window")
      /\ KindIs(t, "window") => LengthOf(h) = heap[t].len
  BY <1>2, SlotIs
<1>4. /\ OffsetOf(h) + LengthOf(h) <= n
      /\ KindIs(t, "window") => t = h /\ KindIs(h, "window") /\ Lives(h)
  BY <1>2, SlotInside
<1>5. /\ HeapOK' /\ Handles' = Handles /\ SameShape
      /\ heap'[r].items = Spliced(h, new)
      /\ heap'[r].mod = heap[r].mod + IF counts THEN 1 ELSE 0
      /\ \A x \in Handles : x # r /\ ~(counts /\ x \in Through[t]) => heap'[x] = heap[x]
      /\ counts => \A x \in Through[t] :
            /\ x \in Handles /\ KindIs(x, "window") /\ x # r
            /\ heap[x].root = r
            /\ heap'[x].len = Max({0, heap[x].len + Len(new) - LengthOf(h)})
            /\ heap'[x].exp = heap'[r].mod
  BY <1>1, StoreIs
<1>6. Len(new) \in Nat /\ d \in Int
  BY <1>3, LenProperties
<1>7. n \in Nat /\ Len(heap'[r].items) = n + d
  <2>1. /\ n \in Nat /\ Start(h) = OffsetOf(h) /\ End(h) = OffsetOf(h) + LengthOf(h)
        /\ Len(Spliced(h, new)) = Start(h) + Len(new) + (n - End(h))
    BY <1>2, <1>4, SplicedIs
  <2> HIDE DEF n
  <2>2. Len(Spliced(h, new)) = n + (Len(new) - LengthOf(h))
    BY <1>3, <1>6, <2>1
  <2> QED BY <1>5, <2>1, <2>2
<1>8. ~counts => d = 0
  BY <1>3, <1>6 DEF Structural
<1>9. heap[r].mod \in Nat /\ heap'[r].mod \in Nat
  <2>1. heap[r].mod \in Nat
    BY <1>3 DEF ListObjects
  <2> HIDE DEF r, counts
  <2> QED BY <1>5, <2>1
<1> HIDE DEF r, t, counts, n
<1>10. \A w \in Handles : KindIs(w, "window") =>
          /\ w # r /\ heap[w] \in WindowObjects /\ heap[w].root \in Handles
          /\ heap[w].offset \in Nat /\ heap[w].len \in Nat /\ heap[w].exp \in Nat
          /\ KindIs(heap[w].root, "list") /\ heap[heap[w].root].mod \in Nat
          /\ heap[w].parent \in Handles
          /\ heap'[w].kind = "window"
          /\ heap'[w].root = heap[w].root /\ heap'[w].offset = heap[w].offset
          /\ heap'[w].parent = heap[w].parent
  <2> SUFFICES ASSUME NEW w \in Handles, KindIs(w, "window")
      PROVE  /\ w # r /\ heap[w] \in WindowObjects /\ heap[w].root \in Handles
             /\ heap[w].offset \in Nat /\ heap[w].len \in Nat /\ heap[w].exp \in Nat
             /\ KindIs(heap[w].root, "list") /\ heap[heap[w].root].mod \in Nat
             /\ heap[w].parent \in Handles
             /\ heap'[w].kind = "window"
             /\ heap'[w].root = heap[w].root /\ heap'[w].offset = heap[w].offset
             /\ heap'[w].parent = heap[w].parent
    OBVIOUS
  <2>1. /\ heap[w] \in WindowObjects /\ heap[w].root \in Handles /\ heap[heap[w].root] \in ListObjects
        /\ heap[w].parent \in Handles
    BY ObjectAt
  <2>2. Like(heap[w], heap'[w])
    BY <1>5 DEF SameShape
  <2>3. /\ heap[w].offset \in Nat /\ heap[w].len \in Nat /\ heap[w].exp \in Nat
        /\ heap[heap[w].root].mod \in Nat /\ KindIs(heap[w].root, "list")
    BY <2>1 DEF WindowObjects, ListObjects, KindIs
  <2>4. w # r
    BY <1>3 DEF KindIs
  <2> QED BY <2>1, <2>2, <2>3, <2>4 DEF Like, KindIs
\* The windows the store went through.
<1>11. ASSUME NEW w \in Through[t], counts
       PROVE  /\ w \in Handles /\ KindIs(w, "window") /\ heap[w].root = r
              /\ heap'[w].len = heap[w].len + d
              /\ heap'[r].mod = heap'[w].exp
              /\ Lives(w) /\ Through[w] \subseteq Through[t]
  <2>1. KindIs(t, "window") /\ heap[w].offset <= heap[t].offset /\ Through[w] \subseteq Through[t]
    BY <1>3, ThroughWindows
  <2>2. w \in Handles /\ KindIs(w, "window") /\ heap[w].root = r
    BY <1>5, <1>11
  <2>3. Lives(t)
    BY <1>4, <2>1
  <2>4. Lives(w) /\ heap[t].offset + heap[t].len <= heap[w].offset + heap[w].len
    BY <1>3, <2>3, LivesThrough
  <2>5. /\ heap[w].offset \in Nat /\ heap[w].len \in Nat
        /\ heap[t].offset \in Nat /\ heap[t].len \in Nat
    BY <1>3, <1>10, <2>1, <2>2
  <2> DEFINE z == heap[w].len + Len(new) - LengthOf(h)
  <2>6. heap[t].len <= heap[w].len /\ LengthOf(h) = heap[t].len
    BY <1>3, <2>1, <2>4, <2>5
  <2>7. z \in Int /\ 0 <= z /\ z = heap[w].len + d
    BY <1>6, <2>5, <2>6
  <2>8. Max({0, z}) = z
    <3> HIDE DEF z
    <3>1. 0 \in Int /\ z \in Int /\ 0 <= z
      BY <2>7
    <3>2. Max({0, z}) = IF 0 <= z THEN z ELSE 0
      BY <3>1, TwoNumbers
    <3> QED BY <3>1, <3>2
  <2> QED BY <1>5, <1>11, <2>1, <2>2, <2>4, <2>7, <2>8
\* The others.
<1>12. ASSUME NEW w \in Handles, KindIs(w, "window"), ~(counts /\ w \in Through[t])
       PROVE  heap'[w] = heap[w]
  BY <1>5, <1>10, <1>12
<1>13. ASSUME NEW w \in Handles, KindIs(w, "window"), heap[w].root # r
       PROVE  heap'[heap[w].root] = heap[heap[w].root] /\ heap'[w] = heap[w]
  <2>1. ~(counts /\ heap[w].root \in Through[t])
    BY <1>5, <1>10, <1>13 DEF KindIs
  <2>2. ~(counts /\ w \in Through[t])
    BY <1>5, <1>13
  <2> QED BY <1>5, <1>10, <1>12, <1>13, <2>1, <2>2
<1>14. ASSUME NEW w \in Handles, KindIs(w, "window"), heap[w].root = r, counts, w \notin Through[t]
       PROVE  heap'[r].mod # heap'[w].exp
  <2>1. heap[w].exp <= heap[r].mod /\ heap[w].exp \in Nat
    BY <1>10, <1>14 DEF CountersBehind
  <2>2. heap'[r].mod = heap[r].mod + 1
    BY <1>5, <1>14
  <2> QED BY <1>9, <1>12, <1>14, <2>1, <2>2
<1>15. ASSUME NEW w \in Handles, KindIs(w, "window")
       PROVE  heap'[w].exp <= heap'[heap[w].root].mod
  <2>1. heap[w].exp <= heap[heap[w].root].mod /\ heap[w].exp \in Nat
    BY <1>10, <1>15 DEF CountersBehind
  <2>2. CASE heap[w].root # r
    BY <1>13, <1>15, <2>1, <2>2
  <2>3. CASE heap[w].root = r /\ counts /\ w \in Through[t]
    BY <1>9, <1>11, <2>3
  <2>4. CASE heap[w].root = r /\ ~(counts /\ w \in Through[t])
    BY <1>5, <1>9, <1>12, <1>15, <2>1, <2>4
  <2> QED BY <2>2, <2>3, <2>4
<1>16. CountersBehind'
  BY <1>5, <1>10, <1>15 DEF CountersBehind, KindIs, SameShape, Like
<1>17. ASSUME NEW w \in Handles, KindIs(w, "window"), heap'[heap[w].root].mod = heap'[w].exp
       PROVE  /\ heap[w].offset + heap'[w].len <= Len(heap'[heap[w].root].items)
              /\ KindIs(heap[w].parent, "window") =>
                    /\ heap'[heap[heap[w].parent].root].mod = heap'[heap[w].parent].exp
                    /\ heap[w].offset + heap'[w].len
                          <= heap[heap[w].parent].offset + heap'[heap[w].parent].len
  <2> DEFINE p == heap[w].parent
  <2>1. /\ heap[w].offset \in Nat /\ heap[w].len \in Nat /\ p \in Handles
        /\ KindIs(p, "window") => /\ heap[p].offset \in Nat /\ heap[p].len \in Nat
                                  /\ heap[p].root = heap[w].root
    <3>1. HeapOK
      OBVIOUS
    <3>2. p \in Handles
      BY <1>10, <1>17
    <3> QED BY <1>10, <1>17, <3>1, <3>2 DEF HeapOK, Shape
  <2>2. Lives(w) => /\ heap[w].offset + heap[w].len <= Len(heap[heap[w].root].items)
                    /\ KindIs(p, "window") =>
                          /\ Lives(p)
                          /\ heap[w].offset + heap[w].len <= heap[p].offset + heap[p].len
    BY <1>17 DEF Inside
  <2> HIDE DEF p
  <2>3. CASE heap[w].root # r
    <3>1. heap'[w] = heap[w] /\ heap'[heap[w].root] = heap[heap[w].root]
      BY <1>13, <1>17, <2>3
    <3>2. Lives(w)
      BY <1>17, <3>1 DEF Lives
    <3>3. KindIs(p, "window") => heap'[p] = heap[p] /\ Lives(p)
      BY <1>13, <2>1, <2>2, <2>3, <3>2
    <3> QED BY <2>1, <2>2, <3>1, <3>2, <3>3 DEF Lives, p
  <2>4. CASE heap[w].root = r /\ counts
    <3>1. w \in Through[t]
      BY <1>14, <1>17, <2>4
    <3>2. Lives(w) /\ heap'[w].len = heap[w].len + d /\ Through[w] \subseteq Through[t]
      BY <1>11, <2>4, <3>1
    <3>3. KindIs(p, "window") => p \in Through[t]
      <4> SUFFICES ASSUME KindIs(p, "window") PROVE p \in Through[t]
        OBVIOUS
      <4>1. p \in Through[p] /\ Through[w] = {w} \cup Through[p]
        BY <1>17, <2>1, ThroughIs DEF p
      <4> QED BY <3>2, <4>1
    <3>4. KindIs(p, "window") => heap'[p].len = heap[p].len + d /\ heap'[r].mod = heap'[p].exp
      BY <1>11, <2>4, <3>3
    <3>5. heap[w].offset + heap'[w].len <= Len(heap'[heap[w].root].items)
      <4>1. heap[w].offset + heap[w].len <= n
        BY <2>2, <2>4, <3>2 DEF n
      <4> HIDE DEF d
      <4>2. heap[w].offset + (heap[w].len + d) <= n + d
        BY <1>6, <1>7, <2>1, <4>1
      <4> QED BY <1>7, <2>4, <3>2, <4>2
    <3>6. KindIs(p, "window") => heap[w].offset + heap'[w].len <= heap[p].offset + heap'[p].len
      <4> HIDE DEF d
      <4> SUFFICES ASSUME KindIs(p, "window")
          PROVE  heap[w].offset + heap'[w].len <= heap[p].offset + heap'[p].len
        OBVIOUS
      <4>1. heap[w].offset + heap[w].len <= heap[p].offset + heap[p].len
        BY <2>2, <3>2
      <4> DEFINE a == heap[w].offset
                 b == heap[w].len
                 k == heap[p].offset
                 l == heap[p].len
      <4>2. a \in Nat /\ b \in Nat /\ k \in Nat /\ l \in Nat /\ d \in Int /\ a + b <= k + l
        BY <1>6, <2>1, <4>1
      <4>3. heap'[w].len = b + d /\ heap'[p].len = l + d
        BY <3>2, <3>4
      <4> HIDE DEF a, b, k, l
      <4>4. a + (b + d) <= k + (l + d)
        BY <4>2
      <4> QED BY <4>3, <4>4 DEF a, k
    <3> QED BY <2>1, <2>4, <3>4, <3>5, <3>6 DEF p
  <2>5. CASE heap[w].root = r /\ ~counts
    <3>1. heap'[w] = heap[w] /\ (KindIs(p, "window") => heap'[p] = heap[p])
      BY <1>12, <1>17, <2>1, <2>5
    <3>2. heap'[r].mod = heap[r].mod /\ Len(heap'[r].items) = n
      <4>1. d = 0
        BY <1>8, <2>5
      <4>2. heap'[r].mod = heap[r].mod + 0 /\ Len(heap'[r].items) = n + 0
        <5> HIDE DEF d
        <5> QED BY <1>5, <1>7, <2>5, <4>1
      <4> QED BY <1>7, <1>9, <4>2
    <3>3. Lives(w)
      BY <1>17, <2>5, <3>1, <3>2 DEF Lives
    <3>4. KindIs(p, "window") => heap'[heap[p].root].mod = heap'[p].exp
      BY <2>1, <2>2, <2>5, <3>1, <3>2, <3>3 DEF Lives
    <3> QED BY <2>2, <2>5, <3>1, <3>2, <3>3, <3>4 DEF n, p
  <2> QED BY <2>3, <2>4, <2>5
<1>18. Inside'
  <2>1. ASSUME NEW w \in Handles, heap'[w].kind = "window", heap'[heap'[w].root].mod = heap'[w].exp
        PROVE  /\ heap'[w].offset + heap'[w].len <= Len(heap'[heap'[w].root].items)
               /\ heap'[heap'[w].parent].kind = "window" =>
                     /\ heap'[heap'[heap'[w].parent].root].mod = heap'[heap'[w].parent].exp
                     /\ heap'[w].offset + heap'[w].len
                           <= heap'[heap'[w].parent].offset + heap'[heap'[w].parent].len
    <3>1. KindIs(w, "window")
      BY <1>5, <2>1 DEF SameShape, Like, KindIs
    <3>2. heap'[w].root = heap[w].root /\ heap'[w].offset = heap[w].offset
          /\ heap'[w].parent = heap[w].parent /\ heap[w].parent \in Handles
      BY <1>10, <3>1
    <3>3. heap'[heap[w].parent].kind = "window" =>
             /\ KindIs(heap[w].parent, "window")
             /\ heap'[heap[w].parent].root = heap[heap[w].parent].root
             /\ heap'[heap[w].parent].offset = heap[heap[w].parent].offset
      BY <1>5, <3>2 DEF SameShape, Like, KindIs
    <3> QED BY <1>17, <2>1, <3>1, <3>2, <3>3
  <2> QED BY <1>5, <2>1 DEF Inside, Lives, KindIs
<1>19. Len(heap'[r].items) = n + Len(new) - LengthOf(h)
  <2>1. n + (Len(new) - LengthOf(h)) = n + Len(new) - LengthOf(h)
    BY <1>3, <1>6, <1>7
  <2> QED BY <1>7, <2>1
<1>20. ASSUME NEW w \in Handles, KindIs(w, "window")
       PROVE  /\ counts /\ w \in Through[t] =>
                    /\ heap'[w].len = heap[w].len + Len(new) - LengthOf(h)
                    /\ heap'[heap[w].root].mod = heap'[w].exp
              /\ counts /\ w \notin Through[t] /\ heap[w].root = r =>
                    heap'[heap[w].root].mod # heap'[w].exp
              /\ ~(counts /\ w \in Through[t]) => heap'[w] = heap[w]
              /\ ~(counts /\ heap[w].root = r) =>
                    heap'[w] = heap[w] /\ heap'[heap[w].root].mod = heap[heap[w].root].mod
  <2>1. heap[w].len + (Len(new) - LengthOf(h)) = heap[w].len + Len(new) - LengthOf(h)
    BY <1>3, <1>6, <1>10, <1>20
  <2>2. counts /\ w \in Through[t] =>
                    /\ heap'[w].len = heap[w].len + Len(new) - LengthOf(h)
                    /\ heap'[heap[w].root].mod = heap'[w].exp
    BY <1>11, <2>1
  <2>3. ~counts => heap'[r].mod = heap[r].mod
    BY <1>5, <1>9
  <2>4. ~(counts /\ heap[w].root = r) =>
           heap'[w] = heap[w] /\ heap'[heap[w].root].mod = heap[heap[w].root].mod
    BY <1>12, <1>13, <1>20, <2>3
  <2> QED BY <1>12, <1>14, <1>20, <2>2, <2>4
<1> QED BY <1>3, <1>6, <1>16, <1>18, <1>19, <1>20 DEF r, t, counts, n

\* A window taken from h, of the elements from .. to - 1 of it.
TakenFrom(obj, h) ==
    /\ IsListHandle(h) /\ ~KindIs(Target[h], "reversed") /\ ~Stale(h)
    /\ \E from, to \in 0 .. LengthOf(h) :
          /\ from <= to
          /\ obj = WindowObj(RootOf(h), h, OffsetOf(h) + from, to - from,
                             heap[RootOf(h)].mod, heap[h].policy)

\* What new objects are.
LEMMA MadeAs ==
    ASSUME HeapOK, NewObject
    PROVE  \E obj : /\ Fits(obj) /\ Fresh(obj)
                    /\ obj.kind = "view" =>
                          KindIs(Target[obj.target], "list") \/ "wrapped windows" \in Scripts
                    /\ obj.kind = "window" => \E h \in Handles : TakenFrom(obj, h)
<1>1. PICK obj : Fits(obj) /\ Fresh(obj)
  BY NewObjectFits
<1>2. \A o : Fresh(o) => o = obj
  <2> SUFFICES ASSUME NEW o, Fresh(o) PROVE o = obj
    OBVIOUS
  <2>1. heap' = Append(heap, obj) /\ heap \in Seq(Objects)
    BY <1>1 DEF Fresh, HeapOK
  <2>2. Append(heap, o)[Len(heap) + 1] = o /\ Append(heap, obj)[Len(heap) + 1] = obj
    BY <2>1
  <2> QED BY <1>1, <2>2 DEF Fresh
<1>3. \A items, policy : ListObj(items, policy).kind = "list"
  BY DEF ListObj
<1>4. \A h, policy : ViewObj(h, policy).kind = "view" /\ ViewObj(h, policy).target = h
  BY DEF ViewObj
<1>5. \A h : ReversedObj(h).kind = "reversed"
  BY DEF ReversedObj
<1>6. \A r, p, o, l, e, q : WindowObj(r, p, o, l, e, q).kind = "window"
  BY DEF WindowObj
<1>7. CASE \E items \in Seq(Elements), policy \in Policies : Fresh(ListObj(items, policy))
  <2>1. obj.kind = "list"
    BY <1>2, <1>3, <1>7
  <2> QED BY <1>1, <1>2, <2>1
<1>8. CASE \E h \in Handles, policy \in Policies :
             /\ KindIs(Target[h], "list") \/ "wrapped windows" \in Scripts
             /\ Fresh(ViewObj(h, policy))
  <2>1. PICK h \in Handles, policy \in Policies :
             /\ KindIs(Target[h], "list") \/ "wrapped windows" \in Scripts
             /\ Fresh(ViewObj(h, policy))
    BY <1>8
  <2>2. obj = ViewObj(h, policy)
    BY <1>2, <2>1
  <2>3. obj.kind = "view" /\ obj.target = h
    BY <1>4, <2>2
  <2> QED BY <1>1, <2>1, <2>3
<1>9. CASE \E h \in Handles : Fresh(ReversedObj(h))
  <2>1. obj.kind = "reversed"
    BY <1>2, <1>5, <1>9
  <2> QED BY <1>1, <1>2, <2>1
<1>10. CASE \E h \in Handles :
             /\ IsListHandle(h) /\ ~KindIs(Target[h], "reversed") /\ ~Stale(h)
             /\ \E from, to \in 0 .. LengthOf(h) :
                   /\ from <= to
                   /\ Fresh(WindowObj(RootOf(h), h, OffsetOf(h) + from, to - from,
                                      heap[RootOf(h)].mod, heap[h].policy))
  <2>1. PICK h \in Handles :
             /\ IsListHandle(h) /\ ~KindIs(Target[h], "reversed") /\ ~Stale(h)
             /\ \E from, to \in 0 .. LengthOf(h) :
                   /\ from <= to
                   /\ Fresh(WindowObj(RootOf(h), h, OffsetOf(h) + from, to - from,
                                      heap[RootOf(h)].mod, heap[h].policy))
    BY <1>10
  <2>2. TakenFrom(obj, h)
    BY <1>2, <2>1 DEF TakenFrom
  <2>3. obj.kind = "window"
    BY <1>6, <2>2 DEF TakenFrom
  <2> QED BY <1>1, <1>2, <2>2, <2>3
<1> QED BY <1>7, <1>8, <1>9, <1>10 DEF NewObject

\* A window just taken lives inside its list and what it was taken from.
LEMMA TakenInside ==
    ASSUME HeapOK, ViewsOnLists, Inside, NEW obj, NEW h \in Handles, TakenFrom(obj, h)
    PROVE  /\ obj.root = RootOf(h) /\ obj.parent = h /\ obj.exp = heap[RootOf(h)].mod
           /\ RootOf(h) \in Handles /\ heap[RootOf(h)].mod \in Nat
           /\ obj.offset \in Nat /\ obj.len \in Nat
           /\ OffsetOf(h) \in Nat /\ LengthOf(h) \in Nat
           /\ OffsetOf(h) <= obj.offset /\ obj.offset + obj.len <= OffsetOf(h) + LengthOf(h)
           /\ obj.offset + obj.len <= Len(heap[RootOf(h)].items)
           /\ KindIs(h, "window") =>
                 Lives(h) /\ obj.offset + obj.len <= heap[h].offset + heap[h].len
<1>1. PICK from \in 0 .. LengthOf(h), to \in 0 .. LengthOf(h) :
         /\ from <= to
         /\ obj = WindowObj(RootOf(h), h, OffsetOf(h) + from, to - from,
                            heap[RootOf(h)].mod, heap[h].policy)
  BY DEF TakenFrom
<1>2. /\ obj.root = RootOf(h) /\ obj.parent = h /\ obj.exp = heap[RootOf(h)].mod
      /\ obj.offset = OffsetOf(h) + from /\ obj.len = to - from
  BY <1>1 DEF WindowObj
<1>3. ~KindIs(Target[h], "reversed") /\ ~Stale(h)
  BY DEF TakenFrom
<1>4. /\ RootOf(h) \in Handles /\ OffsetOf(h) \in Nat /\ LengthOf(h) \in Nat
      /\ heap[RootOf(h)] \in ListObjects
  BY <1>3, SlotIs
<1>5. OffsetOf(h) + LengthOf(h) <= Len(heap[RootOf(h)].items)
  BY <1>3, SlotInside
<1>6. heap[RootOf(h)].items \in Seq(Elements) /\ heap[RootOf(h)].mod \in Nat
  BY <1>4 DEF ListObjects
<1>7. Len(heap[RootOf(h)].items) \in Nat
  BY <1>6, LenProperties
<1>8. from \in Nat /\ to \in Nat /\ from <= to /\ to <= LengthOf(h)
  BY <1>1, <1>4
<1>9. KindIs(h, "window") => /\ Lives(h) /\ OffsetOf(h) = heap[h].offset /\ LengthOf(h) = heap[h].len
  BY <1>3, WindowIs
<1>10. /\ obj.offset \in Nat /\ obj.len \in Nat
       /\ OffsetOf(h) <= obj.offset /\ obj.offset + obj.len <= OffsetOf(h) + LengthOf(h)
  BY <1>2, <1>4, <1>8
<1>11. obj.offset + obj.len <= Len(heap[RootOf(h)].items)
  BY <1>4, <1>5, <1>7, <1>10
<1> QED BY <1>2, <1>4, <1>6, <1>9, <1>10, <1>11

\* A new object changes no window that is there.
LEMMA GrowthInside ==
    ASSUME HeapOK, ViewsOnLists, CountersBehind, Inside, PlainScripts, NewObject
    PROVE  ViewsOnLists' /\ CountersBehind' /\ Inside'
<1>1. PICK obj : /\ Fits(obj) /\ Fresh(obj)
                 /\ obj.kind = "view" =>
                       KindIs(Target[obj.target], "list") \/ "wrapped windows" \in Scripts
                 /\ obj.kind = "window" => \E h \in Handles : TakenFrom(obj, h)
  BY MadeAs
<1> DEFINE n == Len(heap) + 1
<1>2. /\ HeapOK' /\ SameShape
      /\ n \notin Handles /\ Handles' = Handles \cup {n}
      /\ heap'[n] = obj /\ \A h \in Handles : heap'[h] = heap[h]
  BY <1>1, GrowthIs
<1> HIDE DEF n
<1>3. \A h \in Handles : Target'[h] = Target[h] /\ Target[h] \in Handles
  BY <1>2, ChainsKept, TargetIs
<1>4. "wrapped windows" \notin Scripts
  BY DEF PlainScripts
<1>5. ViewsOnLists'
  <2>1. ASSUME NEW h \in Handles, heap'[h].kind = "view" PROVE heap'[Target'[h]].kind = "list"
    BY <1>2, <1>3, <2>1 DEF ViewsOnLists, KindIs
  <2>2. ASSUME obj.kind = "view" PROVE heap'[Target'[n]].kind = "list"
    <3>1. obj.target \in Handles /\ KindIs(Target[obj.target], "list")
      BY <1>1, <1>4, <2>2 DEF Fits
    <3>2. ChainFacts'
      BY <1>2, ChainsAfter
    <3>3. Target'[n] = Target'[obj.target]
      BY <1>2, <2>2, <3>2 DEF ChainFacts, KindIs
    <3> QED BY <1>2, <1>3, <3>1, <3>3 DEF KindIs
  <2> QED BY <1>2, <2>1, <2>2 DEF ViewsOnLists, KindIs
<1>6. \A w \in Handles : KindIs(w, "window") => heap[w].root \in Handles /\ heap[w].parent \in Handles
  BY ObjectAt
<1>7. ASSUME obj.kind = "window"
      PROVE  /\ obj.root \in Handles /\ obj.parent \in Handles
             /\ obj.exp \in Nat /\ obj.exp = heap[obj.root].mod
             /\ obj.offset + obj.len <= Len(heap[obj.root].items)
             /\ KindIs(obj.parent, "window") =>
                   /\ Lives(obj.parent)
                   /\ obj.offset + obj.len <= heap[obj.parent].offset + heap[obj.parent].len
  <2>1. PICK h \in Handles : TakenFrom(obj, h)
    BY <1>1, <1>7
  <2> QED BY <2>1, TakenInside
<1>8. CountersBehind'
  <2>1. ASSUME NEW w \in Handles, heap'[w].kind = "window"
        PROVE  heap'[w].exp <= heap'[heap'[w].root].mod
    BY <1>2, <1>6, <2>1 DEF CountersBehind, KindIs
  <2>2. ASSUME obj.kind = "window" PROVE obj.exp <= heap'[obj.root].mod
    BY <1>2, <1>7, <2>2
  <2> QED BY <1>2, <2>1, <2>2 DEF CountersBehind, KindIs
<1>9. Inside'
  <2>1. ASSUME NEW w \in Handles, heap'[w].kind = "window", heap'[heap'[w].root].mod = heap'[w].exp
        PROVE  /\ heap'[w].offset + heap'[w].len <= Len(heap'[heap'[w].root].items)
               /\ heap'[heap'[w].parent].kind = "window" =>
                     /\ heap'[heap'[heap'[w].parent].root].mod = heap'[heap'[w].parent].exp
                     /\ heap'[w].offset + heap'[w].len
                           <= heap'[heap'[w].parent].offset + heap'[heap'[w].parent].len
    <3>1. KindIs(w, "window") /\ heap'[w] = heap[w]
      BY <1>2, <2>1 DEF KindIs
    <3>2. heap'[heap[w].root] = heap[heap[w].root] /\ heap'[heap[w].parent] = heap[heap[w].parent]
      BY <1>2, <1>6, <3>1
    <3>3. Lives(w)
      BY <2>1, <3>1, <3>2 DEF Lives
    <3>4. KindIs(heap[w].parent, "window") =>
             heap'[heap[heap[w].parent].root] = heap[heap[heap[w].parent].root]
      BY <1>2, <1>6, <3>1
    <3> QED BY <3>1, <3>2, <3>3, <3>4 DEF Inside, Lives, KindIs
  <2>2. ASSUME obj.kind = "window"
        PROVE  /\ obj.offset + obj.len <= Len(heap'[obj.root].items)
               /\ heap'[obj.parent].kind = "window" =>
                     /\ heap'[heap'[obj.parent].root].mod = heap'[obj.parent].exp
                     /\ obj.offset + obj.len <= heap'[obj.parent].offset + heap'[obj.parent].len
    <3>1. heap'[obj.root] = heap[obj.root] /\ heap'[obj.parent] = heap[obj.parent]
      BY <1>2, <1>7, <2>2
    <3>2. KindIs(obj.parent, "window") => heap'[heap[obj.parent].root] = heap[heap[obj.parent].root]
      BY <1>2, <1>6, <1>7, <2>2
    <3> QED BY <1>7, <2>2, <3>1, <3>2 DEF Lives, KindIs
  <2> QED BY <1>2, <2>1, <2>2 DEF Inside, Lives, KindIs
<1> QED BY <1>5, <1>8, <1>9

-----------------------------------------------------------------------------
\* What refuses any write refuses those that resize.
LEMMA RefusesLess ==
    ASSUME HeapOK, NEW h \in Handles, TRUE \notin Refused[h]
    PROVE  \A x : x \notin Refused[h]
<1> DEFINE Good(g) == FALSE \in Refused[g] => TRUE \in Refused[g]
           T == {g \in Handles : ~Good(g)}
<1>1. T = {}
  <2> SUFFICES ASSUME T # {} PROVE FALSE
    OBVIOUS
  <2> HIDE DEF Good
  <2>1. PICK m \in T : \A k \in Handles : k < m => k \notin T
    BY OldestHandle
  <2>2. m \in Handles /\ ~Good(m)
    OBVIOUS
  <2>3. KindIs(m, "view") => Good(heap[m].target)
    <3> SUFFICES ASSUME KindIs(m, "view") PROVE Good(heap[m].target)
      OBVIOUS
    <3>1. heap[m].target \in Handles /\ heap[m].target < m
      BY <2>2, ObjectAt
    <3> QED BY <2>1, <3>1
  <2>4. \A x \in BOOLEAN : x \in Refused[m] <=>
                 \/ KindIs(m, "reversed")
                 \/ Refuses(heap[m].policy, x)
                 \/ KindIs(m, "view") /\ x \in Refused[heap[m].target]
                 \/ KindIs(m, "window") /\ Refuses(heap[heap[m].root].policy, x)
    BY <2>2, RefusedIs
  <2>5. \A p : Refuses(p, FALSE) => Refuses(p, TRUE)
    BY DEF Refuses
  <2> QED BY <2>2, <2>3, <2>4, <2>5 DEF Good
<1>2. Good(h)
  BY <1>1
<1>3. Refused[h] \subseteq BOOLEAN
  BY RefusedIs
<1> QED BY <1>2, <1>3

\* The window a removeIf is on keeps its counter and its list's.
SameCounters(w) ==
    heap'[w].exp = heap[w].exp /\ heap'[heap[w].root].mod = heap[heap[w].root].mod

\* The calls that go on after a step keep apart when the step changes no
\* window one of them is on and leaves nothing parked under them.
LEMMA CallsStay ==
    ASSUME TypeOK, Shape, HeapOK', SameShape, CallsApart, calls' \in Seq(CallRecords),
           NEW k \in {0, 1}, Len(calls') = Len(calls) - k,
           \A i \in 1 .. Len(calls') : /\ calls'[i].method = calls[i + k].method
                                       /\ calls'[i].recv = calls[i + k].recv,
           calls' # <<>> => parked' = NothingParked,
           \A i \in 1 .. Len(calls') : OnWindow(calls[i + k]) => SameCounters(Target[calls[i + k].recv])
    PROVE  CallsApart'
<1>1. HeapOK /\ Len(calls) \in Nat /\ Len(calls') \in Nat
  BY LenProperties DEF HeapOK, TypeOK
<1>2. ASSUME NEW i \in 1 .. Len(calls')
      PROVE  /\ i + k \in 1 .. Len(calls) /\ calls[i + k].recv \in Handles
             /\ calls'[i].recv = calls[i + k].recv /\ calls'[i].method = calls[i + k].method
             /\ i \in 1 .. Len(calls') - 1 => i + k \in 1 .. Len(calls) - 1
             /\ \A j \in 1 .. i - 1 : j \in 1 .. Len(calls') /\ j + k \in 1 .. (i + k) - 1
  <2>1. /\ i + k \in 1 .. Len(calls)
        /\ i \in 1 .. Len(calls') - 1 => i + k \in 1 .. Len(calls) - 1
        /\ \A j \in 1 .. i - 1 : j \in 1 .. Len(calls') /\ j + k \in 1 .. (i + k) - 1
    BY <1>1
  <2> QED BY <2>1 DEF TypeOK
<1>3. \A h \in Handles :
         /\ Target'[h] = Target[h] /\ Refused'[h] = Refused[h]
         /\ Target[h] \in Handles /\ h \in Handles'
         /\ heap'[Target[h]].kind = heap[Target[h]].kind
         /\ KindIs(Target[h], "window") =>
               /\ heap'[Target[h]].root = heap[Target[h]].root /\ heap[Target[h]].root \in Handles
  <2>1. \A h \in Handles : /\ Target'[h] = Target[h] /\ Refused'[h] = Refused[h]
                           /\ Target[h] \in Handles
    BY <1>1, ChainsKept, TargetIs
  <2>2. \A h \in Handles : h \in Handles' /\ Like(heap[h], heap'[h])
    BY DEF SameShape
  <2>3. \A h \in Handles : KindIs(h, "window") => heap[h].root \in Handles
    BY <1>1, ObjectAt
  <2> QED BY <2>1, <2>2, <2>3 DEF Like, KindIs
<1>4. calls' # <<>> => parked' = NothingParked
  OBVIOUS
<1>5. ASSUME NEW i \in 1 .. Len(calls') - 1, calls'[i].method = "removeIf"
      PROVE  TRUE \notin Refused'[calls'[i].recv]
  <2>1. i \in 1 .. Len(calls')
    BY <1>1
  <2> DEFINE h == calls[i + k].recv
  <2>2. /\ h \in Handles /\ calls'[i].recv = h /\ calls[i + k].method = "removeIf"
        /\ i + k \in 1 .. Len(calls) - 1
    BY <1>2, <1>5, <2>1
  <2>3. TRUE \notin Refused[h]
    BY <2>2 DEF CallsApart
  <2> HIDE DEF h
  <2> QED BY <1>3, <2>2, <2>3
<1>6. ASSUME NEW i \in 1 .. Len(calls'),
             calls'[i].method = "removeIf", heap'[Target'[calls'[i].recv]].kind = "window"
      PROVE  /\ heap'[heap'[Target'[calls'[i].recv]].root].mod = heap'[Target'[calls'[i].recv]].exp
             /\ \A j \in 1 .. i - 1 : calls'[j].method = "removeIf" =>
                   (IF heap'[Target'[calls'[j].recv]].kind = "window"
                    THEN heap'[Target'[calls'[j].recv]].root ELSE Target'[calls'[j].recv])
                   # heap'[Target'[calls'[i].recv]].root
  <2> DEFINE h == calls[i + k].recv
  <2>1. h \in Handles /\ calls'[i].recv = h /\ i + k \in 1 .. Len(calls) /\ OnWindow(calls[i + k])
    BY <1>2, <1>3, <1>6 DEF OnWindow, KindIs
  <2>2. ~Stale(h) /\ SameCounters(Target[h])
    BY <2>1 DEF CallsApart
  <2>3. \A j \in 1 .. (i + k) - 1 : calls[j].method = "removeIf" =>
           RootOf(calls[j].recv) # RootOf(h)
    BY <2>1 DEF CallsApart
  <2>4. KindIs(Target[h], "window") /\ RootOf(h) = heap[Target[h]].root
    BY <2>1 DEF OnWindow, RootOf
  <2> HIDE DEF h
  <2>5. heap'[heap'[Target'[h]].root].mod = heap'[Target'[h]].exp
    BY <1>3, <2>1, <2>2, <2>4 DEF Stale, SameCounters
  <2>6. ASSUME NEW j \in 1 .. i - 1, calls'[j].method = "removeIf"
        PROVE  (IF heap'[Target'[calls'[j].recv]].kind = "window"
                    THEN heap'[Target'[calls'[j].recv]].root ELSE Target'[calls'[j].recv])
                   # heap'[Target'[h]].root
    <3> DEFINE g == calls[j + k].recv
    <3>1. j \in 1 .. Len(calls') /\ j + k \in 1 .. (i + k) - 1
      BY <1>2
    <3>2. g \in Handles /\ calls'[j].recv = g /\ calls[j + k].method = "removeIf"
      BY <1>2, <2>6, <3>1
    <3>3. RootOf(g) # RootOf(h)
      BY <2>3, <3>1, <3>2
    <3> HIDE DEF g
    <3>4. (IF heap'[Target'[g]].kind = "window" THEN heap'[Target'[g]].root ELSE Target'[g]) = RootOf(g)
      BY <1>3, <3>2 DEF RootOf, KindIs
    <3>5. heap'[Target'[h]].root = RootOf(h)
      BY <1>3, <2>1, <2>4
    <3> QED BY <3>2, <3>3, <3>4, <3>5
  <2> QED BY <2>1, <2>5, <2>6
<1> QED BY <1>4, <1>5, <1>6 DEF CallsApart, OnWindow, Stale, RootOf, KindIs

\* No plain script reads what a call left in the MUTATED slot: nothing is
\* parked while a closure runs.
LEMMA NothingParkedInside ==
    ASSUME TypeOK, Shape, PlainScripts, CallsApart, ListNext, ~Return, calls' # <<>>
    PROVE  parked' = NothingParked
<1>1. /\ "refused in a body" \notin Scripts /\ "field receivers" \notin Scripts
  BY DEF PlainScripts
<1>2. calls # <<>> => parked = NothingParked
  BY DEF CallsApart
<1>3. \A h : Writeback(h, FALSE) => parked' = NothingParked
  BY <1>1 DEF Writeback
<1>4. CASE NewList
  BY <1>2, <1>4 DEF NewList
<1>5. CASE NewView \/ NewReversed \/ SubList \/ CallRaises \/ Iterate
  BY <1>5 DEF NewView, NewReversed, SubList, CallRaises, Iterate
<1>6. CASE PutAt
  BY <1>2, <1>6 DEF PutAt
<1>7. CASE Element
  BY <1>2, <1>7 DEF Element
<1>8. CASE AppendInPlace
  <2>1. calls # <<>>
    BY <1>8 DEF AppendInPlace
  <2>2. PICK h \in Handles, e \in Elements :
           /\ KindIs(h, "list")
           /\ InScript(h, Append(heap[h].items, e))
           /\ Writeback(h, Refuses(heap[h].policy, TRUE))
    BY <1>8 DEF AppendInPlace
  <2>3. ~RefusesStore(h, Append(heap[h].items, e))
    BY <1>1, <2>1, <2>2 DEF InScript
  <2>4. HeapOK
    BY DEF HeapOK, TypeOK
  <2>5. RefusesStore(h, Append(heap[h].items, e)) <=> Refuses(heap[h].policy, TRUE)
    BY <2>2, <2>4, AppendStores
  <2>6. Refuses(heap[h].policy, TRUE) = FALSE
    BY <2>3, <2>5 DEF Refuses
  <2> QED BY <1>3, <2>2, <2>6
<1>9. CASE CallMethod
  <2>1. calls # <<>>
    BY <1>9 DEF CallMethod
  <2>2. PICK h \in Handles, m \in ListMethods :
           \E new \in Effects(m, ItemsOf[h]) :
              InScript(h, new) /\ Writeback(h, StoreRaises(h, new))
    BY <1>9 DEF CallMethod
  <2>3. PICK new \in Effects(m, ItemsOf[h]) :
           InScript(h, new) /\ Writeback(h, StoreRaises(h, new))
    BY <2>2
  <2>4. ~RefusesStore(h, new)
    BY <1>1, <2>1, <2>3 DEF InScript
  <2>5. StoreRaises(h, new) = FALSE
    BY <2>4 DEF StoreRaises
  <2> QED BY <1>3, <2>3, <2>5
<1> QED BY <1>4, <1>5, <1>6, <1>7, <1>8, <1>9 DEF ListNext

\* A call that returns to another leaves nothing parked, and only a removeIf
\* stores.
LEMMA ReturnIs ==
    ASSUME TypeOK, Shape, PlainScripts, CallsApart, Return
    PROVE  /\ calls' # <<>> => parked' = NothingParked
           /\ \/ heap' = heap
              \/ /\ Head(calls).method = "removeIf" /\ ~Stale(Head(calls).recv)
                 /\ \E new \in Seq(Elements) : Writes(Head(calls).recv, new, FALSE)
<1> DEFINE c == Head(calls)
           h == c.recv
<1>1. calls # <<>> /\ calls' = Tail(calls)
  BY DEF Return
<1>2. HeapOK /\ h \in Handles /\ c \in CallRecords /\ Len(calls) \in Nat \ {0} /\ c = calls[1]
  BY <1>1, WriterIs DEF HeapOK, TypeOK
<1>3. parked = NothingParked
  BY <1>1 DEF CallsApart
<1> DEFINE storing == c.method = "removeIf" /\ ~raised
<1>4. \/ parked' = NothingParked /\ heap' = heap
      \/ /\ storing
         /\ ListStore(h, c.kept, FALSE)
         /\ Writeback(h, c.method = "each" \/ raised \/ StoreRaises(h, c.kept))
  <2>1. CASE storing
    BY <2>1 DEF Return
  <2>2. CASE ~storing
    BY <1>3, <2>2 DEF Return
  <2> QED BY <2>1, <2>2
<1>5. c.kept \in Seq(Elements)
  BY <1>2 DEF CallRecords
<1>6. ASSUME storing PROVE ~Stale(h)
  <2>1. CASE KindIs(Target[h], "window")
    <3>1. OnWindow(calls[1])
      BY <1>2, <1>6, <2>1 DEF OnWindow
    <3>2. 1 \in 1 .. Len(calls)
      BY <1>2
    <3> QED BY <1>2, <3>1, <3>2 DEF CallsApart
  <2>2. CASE ~KindIs(Target[h], "window")
    BY <2>2 DEF Stale
  <2> QED BY <2>1, <2>2
<1>7. ASSUME storing, Tail(calls) # <<>> PROVE StoreRaises(h, c.kept) = FALSE
  <2>1. 1 \in 1 .. Len(calls) - 1
    <3>1. calls \in Seq(CallRecords) /\ Len(calls) # 1
      <4>1. calls \in Seq(CallRecords)
        BY DEF TypeOK
      <4>2. Tail(calls) \in Seq(CallRecords) /\ Len(Tail(calls)) = Len(calls) - 1
        BY <1>1, <4>1, HeadTailProperties
      <4>3. Len(calls) = 1 => Len(Tail(calls)) = 0
        BY <4>2
      <4> QED BY <1>7, <4>1, <4>2, <4>3, EmptySeq
    <3> HIDE DEF c, h
    <3>2. Len(calls) \in Nat \ {0} /\ Len(calls) # 1
      BY <1>2, <3>1
    <3>3. \A n \in Nat \ {0} : n # 1 => 1 \in 1 .. n - 1
      OBVIOUS
    <3> QED BY <3>2, <3>3
  <2>2. TRUE \notin Refused[h]
    BY <1>2, <1>7, <2>1 DEF CallsApart
  <2>3. \A x : x \notin Refused[h]
    BY <1>2, <2>2, RefusesLess
  <2> QED BY <2>3 DEF RefusesStore, StoreRaises
<1>8. calls' # <<>> => parked' = NothingParked
  <2> SUFFICES ASSUME Tail(calls) # <<>>, storing,
                      Writeback(h, c.method = "each" \/ raised \/ StoreRaises(h, c.kept))
      PROVE  parked' = NothingParked
    BY <1>1, <1>4
  <2>1. (c.method = "each" \/ raised \/ StoreRaises(h, c.kept)) = FALSE
    BY <1>7
  <2>2. Writeback(h, FALSE)
    BY <2>1
  <2> QED BY <2>2 DEF Writeback, PlainScripts
<1>9. ListStore(h, c.kept, FALSE) => heap' = heap \/ Writes(h, c.kept, FALSE)
  BY DEF ListStore, Writes
<1> QED BY <1>4, <1>5, <1>6, <1>8, <1>9

\* What a store keeps of windows and views.
LEMMA StoreKeeps ==
    ASSUME HeapOK, ViewsOnLists, CountersBehind, Inside,
           NEW h \in Handles, NEW new \in Seq(Elements), NEW structural \in BOOLEAN,
           ~Stale(h), Writes(h, new, structural)
    PROVE  /\ HeapOK' /\ SameShape /\ Handles' = Handles
           /\ ViewsOnLists' /\ CountersBehind' /\ Inside'
           /\ \A w \in Handles : KindIs(w, "window") /\ heap[w].root # RootOf(h) => SameCounters(w)
<1>1. ~RefusesStore(h, new) /\ heap' = Stored(h, new, structural)
  BY DEF Writes
<1>2. HeapOK' /\ Handles' = Handles /\ SameShape
  BY <1>1, StoreIs
<1>3. CountersBehind' /\ Inside'
  BY StoreInside
<1>4. \A w \in Handles : KindIs(w, "window") =>
         (~(Structural(h, new, structural) /\ heap[w].root = RootOf(h)) =>
            heap'[w] = heap[w] /\ heap'[heap[w].root].mod = heap[heap[w].root].mod)
  BY StoreInside
<1>5. ViewsOnLists'
  <2>1. \A g \in Handles : Target'[g] = Target[g] /\ Target[g] \in Handles
    BY <1>2, ChainsKept, TargetIs
  <2>2. \A g \in Handles : heap'[g].kind = heap[g].kind
    BY <1>2 DEF SameShape, Like
  <2> QED BY <1>2, <2>1, <2>2 DEF ViewsOnLists, KindIs
<1> QED BY <1>2, <1>3, <1>4, <1>5 DEF SameCounters

\* A call entered in a plain script is on no list below a window that a
\* running removeIf is on.
LEMMA IterateApart ==
    ASSUME TypeOK, Shape, PlainScripts, CallsApart, Iterate, calls' \in Seq(CallRecords)
    PROVE  CallsApart'
<1>1. "reentrant" \notin Scripts /\ "refused in a body" \notin Scripts
  BY DEF PlainScripts
<1>2. /\ heap' = heap /\ parked' = NothingParked
      /\ \E h \in Handles, m \in {"each", "removeIf"} :
           /\ ~Stale(h)
           /\ m = "removeIf" => ~IsReentrant(h) /\ (calls # <<>> => TRUE \notin Refused[h])
           /\ calls' = <<[method |-> m, recv |-> h, rest |-> ItemsOf[h], kept |-> <<>>]>> \o calls
  BY <1>1 DEF Iterate
<1>3. PICK h \in Handles, m \in {"each", "removeIf"} :
           /\ ~Stale(h)
           /\ m = "removeIf" => ~IsReentrant(h) /\ (calls # <<>> => TRUE \notin Refused[h])
           /\ calls' = <<[method |-> m, recv |-> h, rest |-> ItemsOf[h], kept |-> <<>>]>> \o calls
  BY <1>2
<1> DEFINE c == [method |-> m, recv |-> h, rest |-> ItemsOf[h], kept |-> <<>>]
<1>4. c.method = m /\ c.recv = h
  OBVIOUS
<1> HIDE DEF c
<1>5. /\ Len(calls) \in Nat /\ Len(calls') = Len(calls) + 1
      /\ calls'[1] = c /\ \A i \in 1 .. Len(calls) : calls'[i + 1] = calls[i]
      /\ calls # <<>> \/ Len(calls) = 0
  <2>1. calls' = <<c>> \o calls
    BY <1>3 DEF c
  <2>2. calls \in Seq(CallRecords) /\ <<c>> \in Seq({c}) /\ Len(<<c>>) = 1 /\ <<c>>[1] = c
    BY DEF TypeOK
  <2>3. Len(calls) \in Nat
    BY <2>2, LenProperties
  <2>4. Len(<<c>> \o calls) = Len(<<c>>) + Len(calls)
    BY <2>2
  <2>5. \A i \in 1 .. Len(<<c>>) + Len(calls) :
           (<<c>> \o calls)[i] = IF i <= Len(<<c>>) THEN <<c>>[i] ELSE calls[i - Len(<<c>>)]
    BY <2>2
  <2> QED BY <2>1, <2>2, <2>3, <2>4, <2>5
<1>6. ASSUME NEW i \in 1 .. Len(calls'), i # 1
      PROVE  i - 1 \in 1 .. Len(calls) /\ calls'[i] = calls[i - 1]
             /\ (i \in 1 .. Len(calls') - 1 => i - 1 \in 1 .. Len(calls) - 1)
  <2> DEFINE j == i - 1
  <2>1. j \in 1 .. Len(calls) /\ j + 1 = i /\ (i \in 1 .. Len(calls') - 1 => j \in 1 .. Len(calls) - 1)
    BY <1>5, <1>6
  <2>2. calls'[j + 1] = calls[j]
    BY <1>5, <2>1
  <2> QED BY <2>1, <2>2
<1>7. Target' = Target /\ Refused' = Refused
  <2>1. heap' = heap
    BY <1>2
  <2> QED BY <2>1 DEF Target, Refused, KindIs, Handles
<1>8. \A i \in 1 .. Len(calls') - 1 :
          calls'[i].method = "removeIf" => TRUE \notin Refused[calls'[i].recv]
  <2> SUFFICES ASSUME NEW i \in 1 .. Len(calls') - 1, calls'[i].method = "removeIf"
      PROVE  TRUE \notin Refused[calls'[i].recv]
    OBVIOUS
  <2>1. CASE i = 1
    <3>1. calls # <<>>
      BY <1>5, <2>1
    <3> QED BY <1>3, <1>4, <1>5, <2>1, <3>1
  <2>2. CASE i # 1
    <3>1. i \in 1 .. Len(calls')
      BY <1>5
    <3>2. i - 1 \in 1 .. Len(calls) - 1 /\ calls'[i] = calls[i - 1]
      BY <1>6, <2>2, <3>1
    <3> QED BY <3>2 DEF CallsApart
  <2> QED BY <2>1, <2>2
<1>9. \A i \in 1 .. Len(calls') : OnWindow(calls'[i]) => ~Stale(calls'[i].recv)
  <2> SUFFICES ASSUME NEW i \in 1 .. Len(calls'), OnWindow(calls'[i]) PROVE ~Stale(calls'[i].recv)
    OBVIOUS
  <2>1. CASE i = 1
    BY <1>3, <1>4, <1>5, <2>1
  <2>2. CASE i # 1
    BY <1>6, <2>2 DEF CallsApart
  <2> QED BY <2>1, <2>2
<1>10. \A i \in 1 .. Len(calls') : \A j \in 1 .. i - 1 :
          OnWindow(calls'[i]) /\ calls'[j].method = "removeIf" =>
             RootOf(calls'[j].recv) # RootOf(calls'[i].recv)
  <2> SUFFICES ASSUME NEW i \in 1 .. Len(calls'), NEW j \in 1 .. i - 1,
                      OnWindow(calls'[i]), calls'[j].method = "removeIf"
      PROVE  RootOf(calls'[j].recv) # RootOf(calls'[i].recv)
    OBVIOUS
  <2>1. i # 1 /\ j \in 1 .. Len(calls') /\ i - 1 \in 1 .. Len(calls) /\ calls'[i] = calls[i - 1]
    <3>1. i # 1 /\ j \in 1 .. Len(calls')
      BY <1>5
    <3> QED BY <1>6, <3>1
  <2>2. CASE j = 1
    <3>1. ~IsReentrant(h)
      BY <1>3, <1>4, <1>5, <2>2
    <3>2. i - 1 \in DOMAIN calls
      <4>1. calls \in Seq(CallRecords)
        BY DEF TypeOK
      <4> QED BY <2>1, <4>1
    <3> QED BY <1>4, <1>5, <2>1, <2>2, <3>1, <3>2 DEF IsReentrant, OnWindow
  <2>3. CASE j # 1
    <3>1. j - 1 \in 1 .. (i - 1) - 1 /\ calls'[j] = calls[j - 1]
      <4>1. j - 1 \in 1 .. (i - 1) - 1
        BY <1>5, <2>1, <2>3
      <4> QED BY <1>6, <2>1, <2>3, <4>1
    <3> QED BY <2>1, <3>1 DEF CallsApart
  <2> QED BY <2>2, <2>3
<1>11. /\ \A i \in 1 .. Len(calls') - 1 :
            calls'[i].method = "removeIf" => TRUE \notin Refused'[calls'[i].recv]
       /\ \A i \in 1 .. Len(calls') : (OnWindow(calls[i]))' => ~(Stale(calls[i].recv))'
       /\ \A i \in 1 .. Len(calls') : \A j \in 1 .. i - 1 :
             (OnWindow(calls[i]))' /\ calls'[j].method = "removeIf" =>
                (RootOf(calls[j].recv))' # (RootOf(calls[i].recv))'
  BY <1>2, <1>7, <1>8, <1>9, <1>10 DEF OnWindow, Stale, RootOf, KindIs
<1> QED BY <1>2, <1>11 DEF CallsApart

\* A step that enters no call ends one or none, and leaves the others as they
\* are but for what they still have to see.
LEMMA CallsAfter ==
    ASSUME TypeOK, ListNext, ~Iterate
    PROVE  \E k \in {0, 1} :
              /\ Len(calls') = Len(calls) - k
              /\ k = 1 <=> Return
              /\ \A i \in 1 .. Len(calls') : /\ calls'[i].method = calls[i + k].method
                                             /\ calls'[i].recv = calls[i + k].recv
<1>1. calls \in Seq(CallRecords) /\ Len(calls) \in Nat
  BY LenProperties DEF TypeOK
<1>2. CASE Return
  <2>1. calls # <<>> /\ calls' = Tail(calls)
    BY <1>2 DEF Return
  <2>2. Len(calls') = Len(calls) - 1 /\ \A i \in 1 .. Len(calls') : calls'[i] = calls[i + 1]
    BY <1>1, <2>1
  <2> QED BY <1>2, <2>2
<1>3. CASE ~Return
  <2>1. /\ Len(calls') = Len(calls)
        /\ \A i \in 1 .. Len(calls) : /\ calls'[i].method = calls[i].method
                                      /\ calls'[i].recv = calls[i].recv
    <3>1. CASE Element
      <4>1. PICK hit \in BOOLEAN :
               calls' = [calls EXCEPT ![1].rest = Tail(@),
                            ![1].kept = IF hit THEN @ ELSE Append(@, Head(calls[1].rest))]
        BY <3>1 DEF Element
      <4>2. Len(calls') = Len(calls)
        BY <1>1, <4>1
      <4> DEFINE c == [calls[1] EXCEPT !.rest = Tail(@)]
                 d == [c EXCEPT !.kept = IF hit THEN @ ELSE Append(@, Head(c.rest))]
      <4>3. \A i \in 1 .. Len(calls) : calls[i] \in CallRecords
        BY <1>1
      <4>4. \A i \in 1 .. Len(calls) : i # 1 => calls'[i] = calls[i]
        BY <1>1, <4>1
      <4>5. ASSUME 1 \in 1 .. Len(calls)
            PROVE  calls'[1].method = calls[1].method /\ calls'[1].recv = calls[1].recv
        BY <1>1, <4>1, <4>3, <4>5 DEF CallRecords
      <4> QED BY <4>2, <4>4, <4>5
    <3>2. CASE ~Element
      <4>1. calls' = calls
        BY <1>3, <3>2 DEF ListNext, NewList, NewView, NewReversed, SubList, AppendInPlace,
                          CallMethod, CallRaises, PutAt
      <4> QED BY <1>1, <4>1
    <3> QED BY <3>1, <3>2
  <2>2. \A i \in 1 .. Len(calls') : i + 0 = i
    BY <1>1, <2>1
  <2>3. Len(calls') = Len(calls) - 0
    BY <1>1, <2>1
  <2> QED BY <1>3, <2>1, <2>2, <2>3
<1> QED BY <1>2, <1>3

\* Every step of a plain script keeps the invariant.
LEMMA NextKeepsPInv ==
    ASSUME IInv, PInv, PlainScripts, ListNext, IInv'
    PROVE  PInv'
<1>1. TypeOK /\ Shape /\ HeapOK /\ HeapOK' /\ calls' \in Seq(CallRecords)
  BY DEF IInv, HeapOK, TypeOK
<1>2. ViewsOnLists /\ CountersBehind /\ Inside /\ CallsApart
  BY DEF PInv
<1>3. HeapStep
  BY <1>1, StepsAre
\* What the heap's change leaves of the windows that calls are on.
<1>4. ASSUME heap' = heap
      PROVE  /\ SameShape /\ ViewsOnLists' /\ CountersBehind' /\ Inside'
             /\ \A w : SameCounters(w)
  <2>1. SameShape
    BY <1>4 DEF SameShape, Like, Handles
  <2>2. ViewsOnLists' /\ CountersBehind' /\ Inside'
    BY <1>2, <1>4 DEF ViewsOnLists, CountersBehind, Inside, Lives, Target, KindIs, Handles
  <2> QED BY <1>4, <2>1, <2>2 DEF SameCounters
<1>5. ASSUME NewObject
      PROVE  /\ SameShape /\ ViewsOnLists' /\ CountersBehind' /\ Inside'
             /\ \A w \in Handles : KindIs(w, "window") => SameCounters(w)
  <2>1. ViewsOnLists' /\ CountersBehind' /\ Inside'
    BY <1>1, <1>2, <1>5, GrowthInside
  <2>2. PICK obj : Fits(obj) /\ Fresh(obj)
    BY <1>1, <1>5, NewObjectFits
  <2>3. SameShape /\ \A h \in Handles : heap'[h] = heap[h]
    BY <1>1, <2>2, GrowthIs
  <2>4. \A w \in Handles : KindIs(w, "window") => heap[w].root \in Handles
    BY <1>1, ObjectAt
  <2> QED BY <2>1, <2>3, <2>4 DEF SameCounters
<1>6. CASE Iterate
  <2>1. heap' = heap
    BY <1>6 DEF Iterate
  <2>2. CallsApart'
    BY <1>1, <1>2, <1>6, IterateApart
  <2> QED BY <1>4, <2>1, <2>2 DEF PInv
<1>7. CASE ~Iterate
  <2>1. PICK k \in {0, 1} :
              /\ Len(calls') = Len(calls) - k
              /\ k = 1 <=> Return
              /\ \A i \in 1 .. Len(calls') : /\ calls'[i].method = calls[i + k].method
                                             /\ calls'[i].recv = calls[i + k].recv
    BY <1>1, <1>7, CallsAfter
  <2>2. calls' # <<>> => parked' = NothingParked
    BY <1>1, <1>2, NothingParkedInside, ReturnIs
  <2>3. \A i \in 1 .. Len(calls') : i + k \in 1 .. Len(calls) /\ calls[i + k].recv \in Handles
    <3>1. Len(calls) \in Nat
      BY <1>1, LenProperties DEF TypeOK
    <3>2. \A i \in 1 .. Len(calls') : i + k \in 1 .. Len(calls)
      BY <2>1, <3>1
    <3> QED BY <1>1, <3>2 DEF TypeOK
  <2>4. SUFFICES /\ SameShape /\ ViewsOnLists' /\ CountersBehind' /\ Inside'
                 /\ \A i \in 1 .. Len(calls') :
                       OnWindow(calls[i + k]) => SameCounters(Target[calls[i + k].recv])
    <3>1. CallsApart'
      BY <1>1, <1>2, <2>1, <2>2, <2>4, CallsStay
    <3> QED BY <2>4, <3>1 DEF PInv
  <2>5. \A i \in 1 .. Len(calls') : OnWindow(calls[i + k]) =>
           /\ Target[calls[i + k].recv] \in Handles /\ KindIs(Target[calls[i + k].recv], "window")
           /\ RootOf(calls[i + k].recv) = heap[Target[calls[i + k].recv]].root
    BY <1>1, <2>3, TargetIs DEF OnWindow, RootOf
  <2>6. CASE heap' = heap
    BY <1>4, <2>6
  <2>7. CASE NewObject
    BY <1>5, <2>5, <2>7
  <2>8. ASSUME NEW h \in Handles, NEW new \in Seq(Elements), NEW structural \in BOOLEAN,
               ~Stale(h), Writes(h, new, structural),
               \A i \in 1 .. Len(calls') : OnWindow(calls[i + k]) => RootOf(calls[i + k].recv) # RootOf(h)
        PROVE  /\ SameShape /\ ViewsOnLists' /\ CountersBehind' /\ Inside'
               /\ \A i \in 1 .. Len(calls') :
                     OnWindow(calls[i + k]) => SameCounters(Target[calls[i + k].recv])
    <3>1. /\ SameShape /\ ViewsOnLists' /\ CountersBehind' /\ Inside'
          /\ \A w \in Handles : KindIs(w, "window") /\ heap[w].root # RootOf(h) => SameCounters(w)
      BY <1>1, <1>2, <2>8, StoreKeeps
    <3> QED BY <2>5, <2>8, <3>1
  <2>9. CASE ~Return /\ heap' # heap /\ ~NewObject
    <3>1. PICK h \in Handles, new \in Seq(Elements), structural \in BOOLEAN :
             Entered(h) /\ Writes(h, new, structural)
      BY <1>3, <2>9 DEF HeapStep
    <3>2. ~Stale(h) /\ ~IsReentrant(h)
      BY <3>1 DEF Entered, PlainScripts
    <3>3. \A i \in 1 .. Len(calls') : OnWindow(calls[i + k]) => RootOf(calls[i + k].recv) # RootOf(h)
      <4>1. \A i \in 1 .. Len(calls') : i + k \in DOMAIN calls
        <5>1. calls \in Seq(CallRecords)
          BY <1>1 DEF TypeOK
        <5> QED BY <2>3, <5>1
      <4> QED BY <3>2, <4>1 DEF IsReentrant, OnWindow
    <3> QED BY <2>8, <3>1, <3>2, <3>3
  <2>10. CASE Return /\ heap' # heap
    <3> DEFINE h == Head(calls).recv
    <3>1. /\ Head(calls).method = "removeIf" /\ ~Stale(h)
          /\ \E new \in Seq(Elements) : Writes(h, new, FALSE)
      BY <1>1, <1>2, <2>10, ReturnIs
    <3>2. calls # <<>>
      BY <2>10 DEF Return
    <3>3. h \in Handles /\ Len(calls) \in Nat \ {0} /\ Head(calls) = calls[1]
      BY <1>1, <3>2, WriterIs
    <3>4. \A i \in 1 .. Len(calls') : OnWindow(calls[i + k]) => RootOf(calls[i + k].recv) # RootOf(h)
      <4>1. k = 1
        BY <2>1, <2>10
      <4>2. \A i \in 1 .. Len(calls') : i + k \in 1 .. Len(calls) /\ 1 \in 1 .. (i + k) - 1
        BY <2>3, <4>1
      <4> QED BY <1>2, <3>1, <3>3, <4>2 DEF CallsApart
    <3> HIDE DEF h
    <3>5. PICK new \in Seq(Elements) : Writes(h, new, FALSE)
      BY <3>1
    <3> QED BY <2>8, <3>1, <3>3, <3>4, <3>5
  <2> QED BY <2>6, <2>7, <2>9, <2>10
<1> QED BY <1>6, <1>7

\* Plain scripts keep views on lists, counters and windows in order and the
\* calls in progress apart.
THEOREM PlainInvariant == ASSUME PlainScripts PROVE ListSpec => [](IInv /\ PInv)
<1>1. ListInit => IInv /\ PInv
  <2> SUFFICES ASSUME ListInit PROVE PInv
    BY ListInitIInv
  <2>1. Handles = {} /\ calls = <<>> /\ Len(calls) = 0
    BY DEF ListInit, Handles
  <2>2. 1 .. Len(calls) = {} /\ 1 .. Len(calls) - 1 = {}
    BY <2>1
  <2> QED BY <2>1, <2>2 DEF PInv, ViewsOnLists, CountersBehind, Inside, Lives, CallsApart
<1>2. IInv /\ PInv /\ [ListNext]_listVars => (IInv /\ PInv)'
  <2> SUFFICES ASSUME IInv, PInv, [ListNext]_listVars PROVE PInv'
    BY NextKeepsIInv
  <2>1. IInv'
    BY NextKeepsIInv
  <2>2. CASE ListNext
    BY <2>1, <2>2, NextKeepsPInv
  <2>3. CASE UNCHANGED listVars
    <3>1. heap' = heap /\ calls' = calls /\ parked' = parked
      BY <2>3 DEF listVars
    <3>2. Target' = Target /\ Refused' = Refused
      BY <3>1 DEF Target, Refused, KindIs, Handles
    <3> QED BY <3>1, <3>2 DEF PInv, ViewsOnLists, CountersBehind, Inside, Lives, CallsApart,
                              OnWindow, Stale, RootOf, KindIs, Handles
  <2> QED BY <2>2, <2>3
<1> QED BY <1>1, <1>2, PTL DEF ListSpec

\* A window that may be used lies inside its list, and inside the window it
\* was taken from (list_store and its parent walk agree).
THEOREM WindowsStayInside == ASSUME PlainScripts PROVE ListSpec => []WindowsInside
<1>1. IInv /\ PInv => WindowsInside
  <2> SUFFICES ASSUME IInv, PInv, NEW w \in Handles, KindIs(w, "window"), ~Stale(w)
      PROVE  /\ OffsetOf(w) + LengthOf(w) <= Len(heap[RootOf(w)].items)
             /\ KindIs(heap[w].parent, "window") =>
                   /\ ~Stale(heap[w].parent)
                   /\ OffsetOf(heap[w].parent) <= OffsetOf(w)
                   /\ OffsetOf(w) + LengthOf(w)
                         <= OffsetOf(heap[w].parent) + LengthOf(heap[w].parent)
    BY DEF WindowsInside
  <2>1. HeapOK
    BY DEF IInv, HeapOK, TypeOK
  <2>2. /\ RootOf(w) = heap[w].root /\ OffsetOf(w) = heap[w].offset /\ LengthOf(w) = heap[w].len
        /\ Lives(w) /\ heap[w].parent \in Handles
    BY <2>1, WindowIs, ObjectAt
  <2>3. /\ heap[w].offset + heap[w].len <= Len(heap[heap[w].root].items)
        /\ KindIs(heap[w].parent, "window") =>
              /\ Lives(heap[w].parent)
              /\ heap[w].offset + heap[w].len <= heap[heap[w].parent].offset + heap[heap[w].parent].len
    BY <2>2 DEF PInv, Inside
  <2>4. KindIs(heap[w].parent, "window") => heap[heap[w].parent].offset <= heap[w].offset
    BY DEF IInv, Shape
  <2>5. KindIs(heap[w].parent, "window") =>
           /\ OffsetOf(heap[w].parent) = heap[heap[w].parent].offset
           /\ LengthOf(heap[w].parent) = heap[heap[w].parent].len
           /\ Lives(heap[w].parent) <=> ~Stale(heap[w].parent)
    BY <2>1, <2>2, WindowIs
  <2> QED BY <2>2, <2>3, <2>4, <2>5
<1> QED BY <1>1, PlainInvariant, PTL

\* The return of an each stores nothing (take_mutated finds the slot empty).
THEOREM EachReturnsNothing == ASSUME PlainScripts PROVE ListSpec => EachStoresNothing
<1>1. IInv /\ PInv /\ [ListNext]_listVars =>
         [Len(calls') < Len(calls) /\ Head(calls).method = "each" => heap' = heap]_listVars
  <2> SUFFICES ASSUME IInv, PInv, ListNext, Len(calls') < Len(calls), Head(calls).method = "each"
      PROVE  heap' = heap
    OBVIOUS
  <2>1. TypeOK /\ Shape /\ CallsApart /\ calls \in Seq(CallRecords) /\ Len(calls) \in Nat
    BY LenProperties DEF IInv, PInv, TypeOK
  <2>2. CASE Iterate
    BY <2>2 DEF Iterate
  <2>3. CASE Return
    BY <2>1, <2>3, ReturnIs
  <2>4. CASE ~Iterate /\ ~Return
    <3>1. Len(calls') = Len(calls)
      BY <2>1, <2>4, CallsAfter
    <3> QED BY <2>1, <3>1
  <2> QED BY <2>2, <2>3, <2>4
<1> QED BY <1>1, PlainInvariant, PTL DEF ListSpec, EachStoresNothing

-----------------------------------------------------------------------------
\* The middle of three sequences in a row.
LEMMA MiddleOf ==
    ASSUME NEW E, NEW a \in Seq(E), NEW b \in Seq(E), NEW c \in Seq(E)
    PROVE  /\ SubSeq((a \o b) \o c, Len(a) + 1, Len(a) + Len(b)) = b
           /\ Len((a \o b) \o c) = Len(a) + Len(b) + Len(c)
<1> DEFINE s == (a \o b) \o c
           t == SubSeq(s, Len(a) + 1, Len(a) + Len(b))
<1>1. s \in Seq(E) /\ Len(s) = Len(a) + Len(b) + Len(c)
  OBVIOUS
<1>2. Len(a) \in Nat /\ Len(b) \in Nat /\ Len(c) \in Nat
  BY LenProperties
<1>3. t \in Seq(E) /\ Len(t) = Len(b)
  BY <1>1, <1>2
<1>4. \A i \in 1 .. Len(b) : s[Len(a) + i] = b[i]
  BY <1>2
<1>5. \A i \in 1 .. Len(b) : t[i] = s[Len(a) + i]
  BY <1>1, <1>2
<1> HIDE DEF s, t
<1>6. t = b
  BY <1>3, <1>4, <1>5, SeqEqual
<1> QED BY <1>1, <1>6 DEF s, t

\* A handle that may be used shows as the list or live window its views end
\* in, with the interval list_slot finds.
LEMMA HandleShown ==
    ASSUME HeapOK, ViewsOnLists, NEW h \in Handles, ~KindIs(Target[h], "reversed"), ~Stale(h)
    PROVE  /\ Target[h] \in Windows!Lists \cup Live
           /\ Windows!Root(Target[h]) = RootOf(h) /\ Windows!Offset(Target[h]) = OffsetOf(h)
           /\ Windows!Length(Target[h]) = LengthOf(h)
           /\ Windows!Path(Target[h]) = Through[Target[h]]
           /\ Through[h] = Through[Target[h]]
           /\ RootOf(h) \in Windows!Lists
<1> DEFINE t == Target[h]
<1>1. /\ t \in Handles /\ RootOf(h) \in Handles /\ KindIs(RootOf(h), "list")
      /\ KindIs(t, "list") \/ KindIs(t, "window")
      /\ KindIs(t, "list") => /\ RootOf(h) = t /\ OffsetOf(h) = 0
                              /\ LengthOf(h) = Len(heap[RootOf(h)].items)
      /\ KindIs(t, "window") => /\ RootOf(h) = heap[t].root /\ OffsetOf(h) = heap[t].offset
                                /\ LengthOf(h) = heap[t].len
  BY SlotIs
<1>2. Target[t] = t
  BY <1>1, TargetIs DEF KindIs
<1>3. Windows!Lists = {l \in Handles : KindIs(l, "list")}
  BY DEF Windows!Lists, Contents, KindIs
<1>4. KindIs(h, "view") => KindIs(t, "list")
  BY DEF ViewsOnLists
<1>5. ~KindIs(h, "view") => t = h
  BY TargetIs
<1>6. \A g \in Handles : ~KindIs(g, "window") => Through[g] = {}
  BY ThroughIs
<1>7. Through[h] = Through[t]
  BY <1>1, <1>4, <1>5, <1>6 DEF KindIs
<1>8. CASE KindIs(t, "list")
  <2>1. t \in Windows!Lists /\ Contents[t] = heap[t].items
    BY <1>1, <1>3, <1>8 DEF Contents, KindIs
  <2>2. Through[t] = {}
    BY <1>1, <1>6, <1>8 DEF KindIs
  <2> HIDE DEF t
  <2>3. /\ Windows!Root(t) = t /\ Windows!Offset(t) = 0 /\ Windows!Length(t) = Len(heap[t].items)
        /\ Windows!Path(t) = {}
    BY <2>1 DEF Windows!Root, Windows!Offset, Windows!Length, Windows!Path
  <2> QED BY <1>1, <1>3, <1>7, <1>8, <2>1, <2>2, <2>3 DEF t
<1>9. CASE KindIs(t, "window")
  <2>1. t \notin Windows!Lists
    BY <1>3, <1>9 DEF KindIs
  <2>2. Spans[t] = [root |-> heap[t].root, offset |-> heap[t].offset, len |-> heap[t].len,
                    path |-> Through[t]]
    BY <1>1, <1>9 DEF Spans, KindIs
  <2>3. t \in Live
    BY <1>1, <1>2, <1>9 DEF Live, Stale, RootOf, KindIs
  <2> HIDE DEF t
  <2>4. /\ Windows!Root(t) = heap[t].root /\ Windows!Offset(t) = heap[t].offset
        /\ Windows!Length(t) = heap[t].len /\ Windows!Path(t) = Through[t]
    BY <2>1, <2>2 DEF Windows!Root, Windows!Offset, Windows!Length, Windows!Path
  <2> QED BY <1>1, <1>3, <1>7, <1>9, <2>3, <2>4 DEF t
<1> QED BY <1>1, <1>8, <1>9

\* A new object shows as a new list, as a window taken from a usable handle,
\* or not at all.
LEMMA GrowthShown ==
    ASSUME HeapOK, ViewsOnLists, NewObject
    PROVE  Windows!Next \/ UNCHANGED Windows!windowVars
<1>1. PICK obj : /\ Fits(obj) /\ Fresh(obj)
                 /\ obj.kind = "window" => \E h \in Handles : TakenFrom(obj, h)
  BY MadeAs
<1> DEFINE n == Len(heap) + 1
<1>2. /\ HeapOK' /\ SameShape /\ n \notin Handles /\ Handles' = Handles \cup {n}
      /\ heap'[n] = obj /\ \A h \in Handles : heap'[h] = heap[h]
  BY <1>1, GrowthIs
<1> HIDE DEF n
<1>3. \A h \in Handles : Through'[h] = Through[h]
  BY <1>2, ChainsKept
<1>4. \A w \in Handles : heap[w].kind = "window" => heap[w].root \in Handles
  BY ObjectAt DEF KindIs
<1> DEFINE Ls == {h \in Handles : heap[h].kind = "list"}
           Ws == {h \in Handles : heap[h].kind = "window"}
           SpanAt(w) == [root |-> heap[w].root, offset |-> heap[w].offset, len |-> heap[w].len,
                         path |-> Through[w]]
           NewSpan(w) == [root |-> heap'[w].root, offset |-> heap'[w].offset, len |-> heap'[w].len,
                          path |-> Through'[w]]
<1>5. /\ DOMAIN Contents = Ls /\ \A l \in Ls : Contents[l] = heap[l].items
      /\ DOMAIN Spans = Ws /\ \A w \in Ws : Spans[w] = SpanAt(w)
      /\ Live \subseteq Ws
  BY DEF Contents, Spans, Live
<1>6. \A w \in Handles : NewSpan(w) = SpanAt(w)
  BY <1>2, <1>3
<1>7. ASSUME obj.kind # "list" PROVE Contents' = Contents
  <2>1. {h \in Handles' : heap'[h].kind = "list"} = Ls
    BY <1>2, <1>7
  <2>2. \A l \in Ls : heap'[l].items = heap[l].items
    BY <1>2
  <2> QED BY <2>1, <2>2 DEF Contents
<1>8. ASSUME obj.kind # "window" PROVE Spans' = Spans /\ Live' = Live
  <2>1. {h \in Handles' : heap'[h].kind = "window"} = Ws
    BY <1>2, <1>8
  <2>2. Spans' = [w \in Ws |-> NewSpan(w)]
    BY <2>1 DEF Spans
  <2>3. Spans = [w \in Ws |-> SpanAt(w)]
    BY DEF Spans
  <2>4. [w \in Ws |-> NewSpan(w)] = [w \in Ws |-> SpanAt(w)]
    <3> HIDE DEF NewSpan, SpanAt
    <3> QED BY <1>6
  <2>5. Live' = Live
    BY <1>2, <1>4, <1>8 DEF Live
  <2> QED BY <2>2, <2>3, <2>4, <2>5
<1>9. CASE obj.kind = "list"
  <2>1. Contents' = [x \in Ls \cup {n} |-> IF x = n THEN Contents'[n] ELSE Contents[x]]
    <3>1. {h \in Handles' : heap'[h].kind = "list"} = Ls \cup {n}
      BY <1>2, <1>9
    <3>2. Contents' = [x \in Ls \cup {n} |-> heap'[x].items]
      BY <3>1 DEF Contents
    <3>3. Contents'[n] = heap'[n].items
      BY <3>2
    <3>4. \A x \in Ls \cup {n} : heap'[x].items = IF x = n THEN Contents'[n] ELSE Contents[x]
      BY <1>2, <1>5, <3>3
    <3> QED BY <3>2, <3>4
  <2>2. Spans' = Spans /\ Live' = Live
    BY <1>8, <1>9
  <2>3. n \in DOMAIN Contents' /\ n \notin Ls \cup Ws
    BY <1>2, <2>1
  <2>4. Windows!Lists = Ls /\ Windows!Taken = Ws
    BY <1>5 DEF Windows!Lists, Windows!Taken
  <2> HIDE DEF Ls, Ws
  <2>5. Windows!Create(n, Contents'[n])
    BY <2>1, <2>2, <2>3, <2>4 DEF Windows!Create
  <2>6. n \in DOMAIN Contents' \ Windows!Lists
    BY <2>3, <2>4
  <2> QED BY <2>5, <2>6 DEF Windows!Next
<1>10. CASE obj.kind = "window"
  <2>1. PICK h \in Handles : TakenFrom(obj, h)
    BY <1>1, <1>10
  <2>2. ~KindIs(Target[h], "reversed") /\ ~Stale(h)
    BY <2>1 DEF TakenFrom
  <2>3. PICK from \in 0 .. LengthOf(h), to \in 0 .. LengthOf(h) :
           /\ from <= to
           /\ obj = WindowObj(RootOf(h), h, OffsetOf(h) + from, to - from,
                              heap[RootOf(h)].mod, heap[h].policy)
    BY <2>1 DEF TakenFrom
  <2> DEFINE t == Target[h]
  <2>4. /\ t \in Windows!Lists \cup Live
        /\ Windows!Root(t) = RootOf(h) /\ Windows!Offset(t) = OffsetOf(h)
        /\ Windows!Length(t) = LengthOf(h) /\ Windows!Path(t) = Through[h]
    BY <2>2, HandleShown
  <2>5. OffsetOf(h) \in Nat /\ LengthOf(h) \in Nat /\ RootOf(h) \in Handles
    BY <2>2, SlotIs
  <2>6. /\ obj.root = RootOf(h) /\ obj.offset = OffsetOf(h) + from /\ obj.len = to - from
        /\ obj.exp = heap[RootOf(h)].mod /\ obj.parent = h
    BY <2>3 DEF WindowObj
  <2> HIDE DEF t
  <2>7. Through'[n] = Through[h] \cup {n}
    <3>1. ChainFacts'
      BY <1>2, ChainsAfter
    <3>2. Through'[n] = {n} \cup Through'[h]
      BY <1>2, <1>10, <2>6, <3>1 DEF ChainFacts, KindIs
    <3> QED BY <1>3, <3>2
  <2> DEFINE start == obj.offset - Windows!Offset(t)
  <2>8. start = from /\ start + obj.len = to /\ Windows!Offset(t) + from = obj.offset
    BY <2>3, <2>4, <2>5, <2>6
  <2>9. Spans' = [x \in Ws \cup {n} |->
                  IF x = n THEN [root |-> RootOf(h), offset |-> OffsetOf(h) + from,
                                 len |-> to - from, path |-> Through[h] \cup {n}]
                  ELSE Spans[x]]
    <3>1. {x \in Handles' : heap'[x].kind = "window"} = Ws \cup {n}
      BY <1>2, <1>10
    <3>2. Spans' = [x \in Ws \cup {n} |-> NewSpan(x)]
      BY <3>1 DEF Spans
    <3>3. NewSpan(n) = [root |-> RootOf(h), offset |-> OffsetOf(h) + from,
                        len |-> to - from, path |-> Through[h] \cup {n}]
      BY <1>2, <2>6, <2>7
    <3>4. \A x \in Ws : x # n /\ NewSpan(x) = Spans[x]
      <4> HIDE DEF NewSpan, SpanAt
      <4> QED BY <1>2, <1>5, <1>6
    <3> HIDE DEF NewSpan, Ws
    <3> QED BY <3>2, <3>3, <3>4
  <2>10. Live' = Live \cup {n}
    BY <1>2, <1>4, <1>10, <2>5, <2>6 DEF Live
  <2>11. Contents' = Contents
    BY <1>7, <1>10
  <2>12. Windows!Lists = Ls /\ Windows!Taken = Ws
    BY <1>5 DEF Windows!Lists, Windows!Taken
  <2>13. n \notin Ls \cup Ws
    BY <1>2
  <2>14. /\ Spans'[n].offset = obj.offset /\ Spans'[n].len = obj.len
         /\ n \in DOMAIN Spans'
    <3> HIDE DEF Ws
    <3> QED BY <2>6, <2>9
  <2> HIDE DEF Ls, Ws
  <2>15. Windows!Take(n, t, from, to)
    <3>1. Windows!Usable(t)
      BY <2>4 DEF Windows!Usable
    <3>2. 0 <= from /\ from <= to /\ to <= Windows!Length(t)
      BY <2>3, <2>4, <2>5
    <3> QED BY <2>4, <2>9, <2>10, <2>11, <2>12, <2>13, <3>1, <3>2 DEF Windows!Take
  <2>16. /\ Spans'[n].offset - Windows!Offset(t) = from
         /\ (Spans'[n].offset - Windows!Offset(t)) + Spans'[n].len = to
    BY <2>8, <2>14
  <2>17. n \in DOMAIN Spans' \ Windows!Taken
    BY <2>12, <2>13, <2>14
  <2> QED BY <2>4, <2>15, <2>16, <2>17 DEF Windows!Next
<1>11. CASE obj.kind \notin {"list", "window"}
  BY <1>7, <1>8, <1>11 DEF Windows!windowVars
<1> QED BY <1>9, <1>10, <1>11

\* A store writes the interval of the handle, and ends the windows of the list
\* it did not go through.
LEMMA StoreShown ==
    ASSUME HeapOK, ViewsOnLists, CountersBehind, Inside,
           NEW h \in Handles, NEW new \in Seq(Elements), NEW structural \in BOOLEAN,
           ~Stale(h), Writes(h, new, structural)
    PROVE  Windows!Next
<1> DEFINE t == Target[h]
           r == RootOf(h)
           old == heap[r].items
           counts == Structural(h, new, structural)
           Ls == {x \in Handles : heap[x].kind = "list"}
           Ws == {x \in Handles : heap[x].kind = "window"}
           SpanAt(w) == [root |-> heap[w].root, offset |-> heap[w].offset, len |-> heap[w].len,
                         path |-> Through[w]]
           NewSpan(w) == [root |-> heap'[w].root, offset |-> heap'[w].offset, len |-> heap'[w].len,
                          path |-> Through'[w]]
<1>1. ~RefusesStore(h, new) /\ heap' = Stored(h, new, structural)
  BY DEF Writes
<1>2. ~KindIs(t, "reversed")
  BY <1>1, NotRefused
<1>3. /\ t \in Windows!Lists \cup Live
      /\ Windows!Root(t) = r /\ Windows!Offset(t) = OffsetOf(h)
      /\ Windows!Length(t) = LengthOf(h) /\ Windows!Path(t) = Through[t]
      /\ r \in Windows!Lists
  BY <1>2, HandleShown
<1>4. /\ HeapOK' /\ Handles' = Handles /\ SameShape
      /\ heap'[r].items = Spliced(h, new)
      /\ \A x \in Handles : x # r /\ ~(counts /\ x \in Through[t]) => heap'[x] = heap[x]
      /\ \A x \in Through[t] : KindIs(x, "window")
  <2>1. /\ HeapOK' /\ Handles' = Handles /\ SameShape
        /\ heap'[RootOf(h)].items = Spliced(h, new)
        /\ \A x \in Handles :
              x # RootOf(h) /\ ~(Structural(h, new, structural) /\ x \in Through[Target[h]]) =>
                 heap'[x] = heap[x]
    BY <1>1, StoreIs
  <2>2. \A x \in Through[Target[h]] : KindIs(x, "window")
    BY TargetIs, ThroughWindows
  <2> QED BY <2>1, <2>2
<1>5. /\ Len(heap'[r].items) = Len(old) + Len(new) - LengthOf(h)
      /\ Len(new) \in Nat /\ LengthOf(h) \in Nat
      /\ \A w \in Handles : KindIs(w, "window") =>
            /\ counts /\ w \in Through[t] =>
                  /\ heap'[w].len = heap[w].len + Len(new) - LengthOf(h)
                  /\ heap'[heap[w].root].mod = heap'[w].exp
            /\ counts /\ w \notin Through[t] /\ heap[w].root = r =>
                  heap'[heap[w].root].mod # heap'[w].exp
            /\ ~(counts /\ w \in Through[t]) => heap'[w] = heap[w]
            /\ ~(counts /\ heap[w].root = r) =>
                  heap'[w] = heap[w] /\ heap'[heap[w].root].mod = heap[heap[w].root].mod
  BY StoreInside
<1>6. /\ OffsetOf(h) \in Nat /\ OffsetOf(h) + LengthOf(h) <= Len(old)
      /\ r \in Handles /\ KindIs(r, "list") /\ heap[r] \in ListObjects
      /\ KindIs(t, "window") => t = h /\ KindIs(h, "window") /\ Lives(h)
  BY <1>2, SlotIs, SlotInside
<1>7. old \in Seq(Elements) /\ Len(old) \in Nat
  BY <1>6, LenProperties DEF ListObjects
<1>8. Start(h) = OffsetOf(h) /\ End(h) = OffsetOf(h) + LengthOf(h)
  BY <1>2, <1>6, SplicedIs
<1> DEFINE a == SubSeq(old, 1, OffsetOf(h))
           b == SubSeq(old, OffsetOf(h) + LengthOf(h) + 1, Len(old))
<1>9. heap'[r].items = a \o new \o b
  BY <1>4, <1>8 DEF Spliced
<1>10. a \in Seq(Elements) /\ Len(a) = OffsetOf(h) /\ b \in Seq(Elements)
  BY <1>5, <1>6, <1>7
\* The contents.
<1>11. /\ DOMAIN Contents = Ls /\ \A l \in Ls : Contents[l] = heap[l].items
       /\ DOMAIN Spans = Ws /\ \A w \in Ws : Spans[w] = SpanAt(w)
  BY DEF Contents, Spans
<1>12. \A x \in Handles : heap'[x].kind = heap[x].kind
  BY <1>4 DEF SameShape, Like
<1>13. {x \in Handles' : heap'[x].kind = "list"} = Ls /\ {x \in Handles' : heap'[x].kind = "window"} = Ws
  BY <1>4, <1>12
<1>14. Contents' = [Contents EXCEPT ![r] = a \o new \o b]
  <2>1. Contents' = [x \in Ls |-> heap'[x].items]
    BY <1>13 DEF Contents
  <2>2. \A x \in Ls : x # r => heap'[x] = heap[x]
    BY <1>4 DEF KindIs
  <2>3. Contents = [x \in Ls |-> heap[x].items]
    BY DEF Contents
  <2> DEFINE s == a \o new \o b
  <2>4. \A x \in Ls : heap'[x].items = IF x = r THEN s ELSE heap[x].items
    BY <1>9, <2>2
  <2> HIDE DEF s, Ls, r
  <2>5. [Contents EXCEPT ![r] = s] = [x \in Ls |-> IF x = r THEN s ELSE heap[x].items]
    BY <2>3
  <2> QED BY <2>1, <2>4, <2>5 DEF s
<1>15. r \in Ls /\ Contents[r] = old /\ Contents'[r] = heap'[r].items
  <2>1. r \in Ls
    BY <1>6 DEF KindIs
  <2>2. Contents' = [x \in Ls |-> heap'[x].items]
    BY <1>13 DEF Contents
  <2> HIDE DEF Ls, r
  <2> QED BY <1>11, <2>1, <2>2 DEF old
<1> DEFINE grown == Len(Contents'[r]) - Len(Contents[r])
<1>16. grown \in Int /\ LengthOf(h) + grown = Len(new)
  <2>1. grown = Len(heap'[r].items) - Len(old)
    BY <1>15
  <2> HIDE DEF grown, old, r
  <2> QED BY <1>5, <1>7, <2>1
<1>17. SubSeq(Contents'[r], OffsetOf(h) + 1, OffsetOf(h) + LengthOf(h) + grown) = new
  <2>1. SubSeq((a \o new) \o b, Len(a) + 1, Len(a) + Len(new)) = new
    BY <1>10, MiddleOf
  <2>2. OffsetOf(h) + LengthOf(h) + grown = OffsetOf(h) + Len(new)
    <3> HIDE DEF grown
    <3> QED BY <1>5, <1>6, <1>16
  <2> HIDE DEF grown, a, b, r
  <2> QED BY <1>9, <1>10, <1>15, <2>1, <2>2
\* The windows.
<1>18. \A w \in Ws : KindIs(w, "window") /\ w \in Handles /\ heap'[w].kind = "window"
  BY <1>12 DEF KindIs
<1>19. \A w \in Handles : Through'[w] = Through[w]
  BY <1>4, ChainsKept
<1>20. \A w \in Ws : heap'[w].root = heap[w].root /\ heap'[w].offset = heap[w].offset
  BY <1>4, <1>18 DEF SameShape, Like, KindIs
<1>21. Spans' = [w \in Ws |-> NewSpan(w)]
  BY <1>13 DEF Spans
<1>22. CASE counts
  <2>1. \A w \in Ws : NewSpan(w) = IF w \in Through[t]
                                   THEN [SpanAt(w) EXCEPT !.len = @ + Len(new) - LengthOf(h)]
                                   ELSE SpanAt(w)
    BY <1>5, <1>18, <1>19, <1>20, <1>22
  <2>2. Spans' = [w \in Ws |-> IF w \in Through[t]
                               THEN [Spans[w] EXCEPT !.len = @ + Len(new) - LengthOf(h)]
                               ELSE Spans[w]]
    <3> HIDE DEF NewSpan, SpanAt, Ws, t
    <3> QED BY <1>11, <1>21, <2>1
  <2>3. \A w \in Through[t] : w \in Live
    <3> SUFFICES ASSUME NEW w \in Through[t] PROVE w \in Live
      OBVIOUS
    <3>1. t \in Handles
      BY TargetIs
    <3>2. KindIs(t, "window") /\ w \in Handles /\ KindIs(w, "window")
      BY <3>1, ThroughWindows
    <3>3. Lives(t)
      BY <1>6, <3>2
    <3>4. Lives(w)
      BY <3>1, <3>3, LivesThrough
    <3> QED BY <3>2, <3>4 DEF Live, Lives, KindIs
  <2>4. Live' = {w \in Live : Spans[w].root = r => w \in Through[t]}
    <3>1. Live' = {w \in Ws : heap'[w].exp = heap'[heap'[w].root].mod}
      BY <1>13 DEF Live
    <3>2. Live = {w \in Ws : heap[w].exp = heap[heap[w].root].mod}
      BY DEF Live
    <3> HIDE DEF Ws, r, t
    <3>3. \A w \in Ws : Spans[w].root = heap[w].root
      BY <1>11
    <3>4. ASSUME NEW w \in Ws
          PROVE  heap'[w].exp = heap'[heap'[w].root].mod <=>
                    /\ heap[w].exp = heap[heap[w].root].mod
                    /\ heap[w].root = r => w \in Through[t]
      <4>1. KindIs(w, "window") /\ w \in Handles /\ heap'[w].root = heap[w].root
        BY <1>18, <1>20
      <4>2. CASE w \in Through[t]
        <5>1. heap'[heap[w].root].mod = heap'[w].exp
          BY <1>5, <1>22, <4>1, <4>2
        <5>2. w \in Live
          BY <2>3, <4>2
        <5> QED BY <3>2, <4>1, <4>2, <5>1, <5>2
      <4>3. CASE w \notin Through[t] /\ heap[w].root = r
        BY <1>5, <1>22, <4>1, <4>3
      <4>4. CASE w \notin Through[t] /\ heap[w].root # r
        BY <1>5, <1>22, <4>1, <4>4
      <4> QED BY <4>2, <4>3, <4>4
    <3> QED BY <3>1, <3>2, <3>3, <3>4
  <2> DEFINE elements == SubSeq(Contents'[r], OffsetOf(h) + 1, OffsetOf(h) + LengthOf(h) + grown)
  <2>5. Windows!Lists = Ls /\ Windows!Taken = Ws
    BY <1>11 DEF Windows!Lists, Windows!Taken
  <2> HIDE DEF Ls, Ws, t, r
  <2>6. Contents' = [Contents EXCEPT ![r] = SubSeq(@, 1, OffsetOf(h)) \o new
                        \o SubSeq(@, OffsetOf(h) + LengthOf(h) + 1, Len(@))]
    BY <1>11, <1>14, <1>15
  <2>7. Windows!Write(t, new, TRUE)
    BY <1>3, <2>2, <2>4, <2>5, <2>6 DEF Windows!Write, Windows!Usable
  <2>8. Windows!Length(t) + (Len(Contents'[Windows!Root(t)]) - Len(Contents[Windows!Root(t)])) >= 0
    <3> HIDE DEF grown
    <3>1. LengthOf(h) + grown >= 0
      BY <1>5, <1>16
    <3> QED BY <1>3, <3>1 DEF grown
  <2>9. Windows!Write(t, SubSeq(Contents'[Windows!Root(t)], Windows!Offset(t) + 1,
                                Windows!Offset(t) + Windows!Length(t)
                                  + (Len(Contents'[Windows!Root(t)]) - Len(Contents[Windows!Root(t)]))),
                        TRUE)
    BY <1>3, <1>17, <2>7
  <2> QED BY <1>3, <2>8, <2>9 DEF Windows!Next
<1>23. CASE ~counts
  <2>1. \A w \in Ws : NewSpan(w) = SpanAt(w)
    BY <1>5, <1>18, <1>19, <1>23
  <2>2. Spans' = Spans
    <3>1. Spans = [w \in Ws |-> SpanAt(w)]
      BY DEF Spans
    <3> HIDE DEF NewSpan, SpanAt, Ws
    <3> QED BY <1>21, <2>1, <3>1
  <2>3. Live' = Live
    <3>1. Live' = {w \in Ws : heap'[w].exp = heap'[heap'[w].root].mod}
      BY <1>13 DEF Live
    <3>2. Live = {w \in Ws : heap[w].exp = heap[heap[w].root].mod}
      BY DEF Live
    <3>3. \A w \in Ws : heap'[w].exp = heap[w].exp /\ heap'[heap'[w].root].mod = heap[heap[w].root].mod
      BY <1>5, <1>18, <1>20, <1>23
    <3> HIDE DEF Ws
    <3> QED BY <3>1, <3>2, <3>3
  <2>4. Len(new) = LengthOf(h)
    BY <1>23 DEF Structural
  <2>5. Windows!Lists = Ls /\ Windows!Taken = Ws
    BY <1>11 DEF Windows!Lists, Windows!Taken
  <2> HIDE DEF Ls, Ws, t, r
  <2>6. Contents' = [Contents EXCEPT ![r] = SubSeq(@, 1, OffsetOf(h)) \o new
                        \o SubSeq(@, OffsetOf(h) + LengthOf(h) + 1, Len(@))]
    BY <1>11, <1>14, <1>15
  <2>7. Windows!Write(t, new, FALSE)
    BY <1>3, <2>2, <2>3, <2>4, <2>5, <2>6 DEF Windows!Write, Windows!Usable
  <2>8. Windows!Length(t) + (Len(Contents'[Windows!Root(t)]) - Len(Contents[Windows!Root(t)])) >= 0
    <3> HIDE DEF grown
    <3>1. LengthOf(h) + grown >= 0
      BY <1>5, <1>16
    <3> QED BY <1>3, <3>1 DEF grown
  <2>9. Windows!Write(t, SubSeq(Contents'[Windows!Root(t)], Windows!Offset(t) + 1,
                                Windows!Offset(t) + Windows!Length(t)
                                  + (Len(Contents'[Windows!Root(t)]) - Len(Contents[Windows!Root(t)]))),
                        FALSE)
    BY <1>3, <1>17, <2>7
  <2> QED BY <1>3, <2>8, <2>9 DEF Windows!Next
<1> QED BY <1>22, <1>23

\* A step that leaves the heap alone shows as none.
LEMMA NothingShown ==
    ASSUME HeapOK, heap' = heap
    PROVE  UNCHANGED Windows!windowVars
<1>1. Contents' = Contents /\ Live' = Live
  BY DEF Contents, Live, Handles
<1>2. Through' = Through
  BY DEF Through, KindIs, Handles
<1>3. Spans' = Spans
  BY <1>2 DEF Spans, Handles
<1> QED BY <1>1, <1>3 DEF Windows!windowVars

\* Counters and parent chains implement live windows: what the code keeps with
\* modification counters is what subList promises without them.
THEOREM WindowsImplemented == ASSUME PlainScripts PROVE ListSpec => ImplementsWindows
<1>1. ListInit => Windows!Init
  <2> SUFFICES ASSUME ListInit PROVE Windows!Init
    OBVIOUS
  <2>1. Handles = {}
    BY DEF ListInit, Handles
  <2>2. Contents = <<>> /\ Spans = <<>> /\ Live = {}
    BY <2>1 DEF Contents, Spans, Live
  <2> QED BY <2>2 DEF Windows!Init
<1>2. IInv /\ PInv /\ [ListNext]_listVars => [Windows!Next]_Windows!windowVars
  <2> SUFFICES ASSUME IInv, PInv, [ListNext]_listVars PROVE Windows!Next \/ UNCHANGED Windows!windowVars
    OBVIOUS
  <2>1. /\ TypeOK /\ Shape /\ HeapOK /\ ViewsOnLists /\ CountersBehind /\ Inside /\ CallsApart
    BY DEF IInv, PInv, HeapOK, TypeOK
  <2>2. CASE heap' = heap
    BY <2>1, <2>2, NothingShown
  <2>3. CASE ListNext /\ heap' # heap
    <3>1. HeapStep
      BY <2>1, <2>3, StepsAre
    <3>2. CASE NewObject
      BY <2>1, <3>2, GrowthShown
    <3>3. CASE \E h \in Handles, new \in Seq(Elements), structural \in BOOLEAN :
                 Entered(h) /\ Writes(h, new, structural)
      BY <2>1, <3>3, StoreShown DEF Entered
    <3>4. CASE Return
      <4> DEFINE h == Head(calls).recv
      <4>1. ~Stale(h) /\ \E new \in Seq(Elements) : Writes(h, new, FALSE)
        BY <2>1, <2>3, <3>4, ReturnIs
      <4>2. h \in Handles
        BY <2>1, <3>4, WriterIs DEF Return
      <4> HIDE DEF h
      <4> QED BY <2>1, <4>1, <4>2, StoreShown
    <3> QED BY <2>3, <3>1, <3>2, <3>3, <3>4 DEF HeapStep
  <2>4. CASE UNCHANGED listVars
    <3>1. heap' = heap
      BY <2>4 DEF listVars
    <3> QED BY <2>1, <3>1, NothingShown
  <2> QED BY <2>2, <2>3, <2>4
<1> QED BY <1>1, <1>2, PlainInvariant, PTL DEF ListSpec, ImplementsWindows, Windows!Spec
=============================================================================
