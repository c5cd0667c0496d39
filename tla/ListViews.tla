----------------------------- MODULE ListViews -----------------------------
(***************************************************************************)
(* Lists, windows (subList), wrapper views and reversed views of           *)
(* src/src/host.rs, the write policies of src/src/host/seq.rs, and the     *)
(* MUTATED slot through which a list method hands its new contents back.   *)
(*                                                                         *)
(* A method call on a list handle copies the elements, runs the method on  *)
(* the copy and stores what the method parked.  A method that takes a      *)
(* closure runs Groovy code between the copy and the store; calls is the   *)
(* stack of those in progress, and every other operation may happen then.  *)
(***************************************************************************)
EXTENDS Integers, Sequences, SequencesExt, FiniteSets, FiniteSetsExt

CONSTANTS
    Elements,       \* what lists hold
    Literals,       \* the contents a list is made with
    MaxObjects,     \* bound on the heap
    MaxItems,       \* bound on a list's length
    MaxCalls,       \* bound on nested iterations
    MaxListSteps,   \* bound on the operations of a behaviour
    Scripts         \* what the script does beyond plain calls on variables

ASSUME ScriptsAssumption ==
    Scripts \subseteq {"field receivers", "refused in a body",
                       "reentrant", "wrapped windows"}

\* What lists hold can be sorted.
ASSUME ElementsAssumption ==
    Elements \subseteq Int /\ Literals \subseteq Seq(Elements)

VARIABLES
    heap,           \* handle -> the object
    parked,         \* MUTATED: the elements a call left, or NothingParked
    raised,         \* an exception is on its way out of the running closures
    calls,          \* the iterations in progress, innermost first
    listSteps

listVars == <<heap, parked, raised, calls, listSteps>>

NothingParked == [none |-> TRUE]
Handles == DOMAIN heap
KindIs(h, k) == heap[h].kind = k

ListObj(items, policy) == [kind |-> "list", items |-> items, mod |-> 0, policy |-> policy]
WindowObj(root, parent, offset, len, exp, policy) ==
    [kind |-> "window", root |-> root, parent |-> parent, offset |-> offset,
     len |-> len, exp |-> exp, policy |-> policy]
ViewObj(target, policy) == [kind |-> "view", target |-> target, policy |-> policy]
ReversedObj(root) == [kind |-> "reversed", target |-> root, policy |-> "plain"]

-----------------------------------------------------------------------------
\* Reading a handle.

\* What a chain of wrapper views ends in.
Target[h \in Handles] == IF KindIs(h, "view") THEN Target[heap[h].target] ELSE h

\* list_slot: the list a handle reads and its interval there.
RootOf(h) == IF KindIs(Target[h], "window") THEN heap[Target[h]].root ELSE Target[h]
OffsetOf(h) == IF KindIs(Target[h], "window") THEN heap[Target[h]].offset ELSE 0
LengthOf(h) == IF KindIs(Target[h], "window") THEN heap[Target[h]].len
               ELSE Len(heap[Target[h]].items)     \* not of a reversed view

\* check_comodification.
Stale(h) == /\ KindIs(Target[h], "window")
            /\ heap[RootOf(h)].mod # heap[Target[h]].exp

\* list_id: a window is a list while its root still spans it.
IsListHandle(h) == KindIs(h, "window") => OffsetOf(h) + LengthOf(h) <= Len(heap[RootOf(h)].items)

\* as_list_raw.
ItemsOf[h \in Handles] ==
    CASE KindIs(h, "view") -> ItemsOf[heap[h].target]
      [] KindIs(h, "reversed") -> Reverse(ItemsOf[heap[h].target])
      [] ~IsListHandle(h)    -> <<>>
      [] OTHER -> SubSeq(heap[RootOf(h)].items, OffsetOf(h) + 1, OffsetOf(h) + LengthOf(h))

-----------------------------------------------------------------------------
\* Writing through a handle.

Refuses(policy, resizes) == policy = "frozen" \/ (policy = "fixed" /\ resizes)

\* write_refused along the views of a handle, then by the window and its root:
\* whether it refuses writes that resize, and others.
Refused[h \in Handles] ==
    {resizes \in BOOLEAN :
       \/ KindIs(h, "reversed")
       \/ Refuses(heap[h].policy, resizes)
       \/ /\ KindIs(h, "view")
          /\ resizes \in Refused[heap[h].target]
       \/ /\ KindIs(h, "window")
          /\ Refuses(heap[heap[h].root].policy, resizes)}

\* updateSizeAndModCount: a window and the windows it was taken through.
Through[h \in Handles] ==
    IF KindIs(h, "window") THEN {h} \cup Through[heap[h].parent] ELSE {}

\* list_store, past its refusals: counts says whether the write moves the
\* list's counter, resized which windows follow it.
Splice(h, new, counts, resized) ==
    LET r == RootOf(h)
        old == heap[r].items
        end == Min({OffsetOf(h) + LengthOf(h), Len(old)})
        start == Min({OffsetOf(h), end})
        mod == heap[r].mod + IF counts THEN 1 ELSE 0
    IN  [x \in Handles |->
           CASE x = r -> [heap[r] EXCEPT !.mod = mod, !.items =
                            SubSeq(old, 1, start) \o new \o SubSeq(old, end + 1, Len(old))]
             [] counts /\ x \in resized ->
                  [heap[x] EXCEPT !.len = Max({0, @ + Len(new) - LengthOf(h)}), !.exp = mod]
             [] OTHER -> heap[x]]

StoredOuterKept(h, new, structural) ==
    Splice(h, new, structural \/ Len(new) # LengthOf(h), {Target[h]})
StoredAsClaimed(h, new, structural) == Splice(h, new, structural, Through[Target[h]])
Stored(h, new, structural) ==
    Splice(h, new, structural \/ Len(new) # LengthOf(h), Through[Target[h]])

\* A store the object refuses raises and changes nothing.
RefusesByHandle(h, new) ==
    \/ KindIs(Target[h], "reversed")
    \/ Refuses(heap[h].policy, Len(new) # LengthOf(h))
RefusesStore(h, new) ==
    (KindIs(Target[h], "reversed") \/ Len(new) # LengthOf(h)) \in Refused[h]

\* A wrapper of a reversed list has no list_slot: its stores are dropped.
StoreRaises(h, new) ==
    RefusesStore(h, new) /\ ~(KindIs(h, "view") /\ KindIs(Target[h], "reversed"))
ListStore(h, new, structural) ==
    IF RefusesStore(h, new) THEN heap' = heap ELSE heap' = Stored(h, new, structural)

\* bumps_mod_count: the methods the JDK counts whatever they changed.
Counts(m, h) ==
    \/ m \in {"add", "push", "insert", "remove", "pop", "clear"}
    \/ (m = "unique" /\ LengthOf(h) > 1)
    \/ (m \in {"sort", "addAll"} /\ ~KindIs(h, "window"))

-----------------------------------------------------------------------------
\* What the list methods make of the copied elements: a set, over their
\* arguments.  putAt past the end pads the list.
InsertItem(s, i, e) == SubSeq(s, 1, i) \o <<e>> \o SubSeq(s, i + 1, Len(s))

\* The elements at the positions keep holds, in their order.
Picked(s, keep) ==
    LET upTo[n \in 0 .. Len(s)] == IF n = 0 THEN <<>>
                                   ELSE IF n \in keep THEN Append(upTo[n - 1], s[n])
                                   ELSE upTo[n - 1]
    IN  upTo[Len(s)]
IsFirst(s, i) == \A j \in 1 .. i - 1 : s[j] # s[i]

Sorted(s) ==
    {t \in {[i \in DOMAIN s |-> s[p[i]]] : p \in Bijection(DOMAIN s, DOMAIN s)} :
        \A i, j \in DOMAIN s : i < j => t[i] <= t[j]}

Effects(m, s) ==
    CASE m = "add"     -> {Append(s, e) : e \in Elements}
      [] m = "push"    -> {<<e>> \o s : e \in Elements}
      [] m = "insert"  -> {InsertItem(s, i, e) : i \in 0 .. Len(s), e \in Elements}
      [] m = "addAll"  -> {s} \cup {s \o <<e, e>> : e \in Elements}
      [] m = "remove"  -> {RemoveAt(s, i) : i \in DOMAIN s}
      [] m = "pop"     -> IF s = <<>> THEN {} ELSE {Tail(s)}
      [] m = "clear"   -> {<<>>}
      [] m = "removeElement" -> {Picked(s, {i \in DOMAIN s : s[i] = e => ~IsFirst(s, i)}) :
                                    e \in Elements}
      [] m = "retainAll"     -> {Picked(s, {i \in DOMAIN s : s[i] = e}) : e \in Elements}
      [] m = "set"     -> {[s EXCEPT ![i] = e] : i \in DOMAIN s, e \in Elements}
      [] m = "swap"    -> {[s EXCEPT ![i] = s[j], ![j] = s[i]] : i, j \in DOMAIN s}
      [] m = "putAt"   -> {InsertItem(s, Len(s), e) : e \in Elements}
                            \cup {[s EXCEPT ![i] = e] : i \in DOMAIN s, e \in Elements}
      [] m = "sort"    -> Sorted(s)
      [] m = "reverse" -> {Reverse(s)}
      [] m = "unique"  -> {Picked(s, {i \in DOMAIN s : IsFirst(s, i)})}

ListMethods == {"add", "push", "insert", "addAll", "remove", "pop", "clear", "removeElement",
                "retainAll", "set", "swap", "putAt", "sort", "reverse", "unique"}

\* A bad index, or an empty list to pop, raises before anything is parked.
MayRaise(m) == m \in {"insert", "remove", "pop", "set", "swap", "putAt"}

-----------------------------------------------------------------------------
ListInit ==
    /\ heap = <<>>
    /\ parked = NothingParked
    /\ raised = FALSE
    /\ calls = <<>>
    /\ listSteps = 0

\* The script, or the closure of the innermost iteration, is running.
InScriptCode == raised = FALSE /\ listSteps < MaxListSteps
ListStep == listSteps' = listSteps + 1

\* What a raise does: a handler in the same body takes it, or it leaves the
\* closures that are running.
RaiseList == raised' \in {FALSE, calls # <<>>}

Fresh(obj) == heap' = Append(heap, obj)

\* A list literal, or a factory of java.util with its write policy.
NewList ==
    /\ InScriptCode /\ ListStep /\ Len(heap) < MaxObjects
    /\ \E items \in Literals, policy \in {"plain", "fixed", "frozen"} :
         Fresh(ListObj(items, policy))
    /\ UNCHANGED <<parked, raised, calls>>

\* list_view: asUnmodifiable, asSynchronized.
NewView ==
    /\ InScriptCode /\ ListStep /\ Len(heap) < MaxObjects
    /\ \E h \in Handles, policy \in {"open", "frozen"} :
         /\ KindIs(Target[h], "list") \/ "wrapped windows" \in Scripts
         /\ IsListHandle(h) /\ ~Stale(h)
         /\ Fresh(ViewObj(h, policy))
    /\ parked' = NothingParked
    /\ UNCHANGED <<raised, calls>>

\* asReversed.
NewReversed ==
    /\ InScriptCode /\ ListStep /\ Len(heap) < MaxObjects
    /\ \E h \in Handles : /\ IsListHandle(h) /\ ~Stale(h) /\ ~KindIs(Target[h], "reversed")
                          /\ Fresh(ReversedObj(h))
    /\ parked' = NothingParked
    /\ UNCHANGED <<raised, calls>>

\* make_sublist: the window's policy is its receiver's.
SubList ==
    /\ InScriptCode /\ ListStep /\ Len(heap) < MaxObjects
    /\ parked' = NothingParked
    /\ \E h \in Handles :
         /\ IsListHandle(h) /\ ~KindIs(Target[h], "reversed")
         /\ \/ /\ ~Stale(h)
               /\ \E from, to \in 0 .. LengthOf(h) :
                    /\ from <= to
                    /\ Fresh(WindowObj(RootOf(h), h, OffsetOf(h) + from, to - from,
                                       heap[RootOf(h)].mod, heap[h].policy))
               /\ UNCHANGED raised
            \/ /\ RaiseList                       \* stale, or bad bounds
               /\ UNCHANGED heap
    /\ UNCHANGED calls

-----------------------------------------------------------------------------
\* A structural write, in the closure of a removeIf on a window, to the list
\* below that window.
IsReentrant(h) == \E i \in DOMAIN calls :
    /\ calls[i].method = "removeIf" /\ KindIs(Target[calls[i].recv], "window")
    /\ RootOf(calls[i].recv) = RootOf(h)

InScript(h, new) ==
    /\ (calls # <<>> /\ RefusesStore(h, new)) => "refused in a body" \in Scripts
    /\ IsReentrant(h) => "reentrant" \in Scripts
    /\ ~RefusesStore(h, new) =>
          Len(heap[RootOf(h)].items) + Len(new) - LengthOf(h) <= MaxItems

\* GWRITEBACK follows the call of a mutating method when its receiver is a
\* variable; after a raise, or on another receiver, what was parked stays.
Writeback(h, stays) ==
    IF stays THEN parked' = [handle |-> h]
    ELSE \/ parked' = NothingParked
         \/ "field receivers" \in Scripts /\ parked' = [handle |-> h]

Answer(refused) == IF refused THEN RaiseList ELSE UNCHANGED raised

\* list_push_root: add and << on a whole list append in place.
AppendInPlace ==
    /\ InScriptCode /\ ListStep
    /\ \E h \in Handles, e \in Elements :
         /\ KindIs(h, "list")
         /\ InScript(h, Append(heap[h].items, e))
         /\ LET refused == Refuses(heap[h].policy, TRUE)
            IN  /\ heap' = IF refused THEN heap
                           ELSE [heap EXCEPT ![h].items = Append(@, e), ![h].mod = @ + 1]
                /\ Writeback(h, refused)
                /\ Answer(refused)
    /\ UNCHANGED calls

\* The other list methods: the handle's elements are copied, the method parks
\* its result, and the result is stored.
CallMethod ==
    /\ InScriptCode /\ ListStep
    /\ \E h \in Handles, m \in ListMethods :
         /\ IsListHandle(h) /\ ~Stale(h)
         /\ m = "add" => ~KindIs(h, "list")
         /\ \E new \in Effects(m, ItemsOf[h]) :
              /\ InScript(h, new)
              /\ ListStore(h, new, Counts(m, h))
              /\ Writeback(h, StoreRaises(h, new))
              /\ Answer(StoreRaises(h, new))
    /\ UNCHANGED calls

\* A call that raises before it parks: a stale window, a bad index.
CallRaises ==
    /\ InScriptCode /\ ListStep
    /\ \E h \in Handles, m \in ListMethods : Stale(h) \/ MayRaise(m)
    /\ parked' = NothingParked
    /\ RaiseList
    /\ UNCHANGED <<heap, calls>>

\* b_setindex, and the Collections statics (sort, reverse, fill, rotate):
\* through list_set_root or list_store, with nothing parked.
PutAt ==
    /\ InScriptCode /\ ListStep
    /\ \E h \in Handles :
         /\ IsListHandle(h) /\ ~Stale(h)
         /\ \E new \in Effects("putAt", ItemsOf[h]) :
              /\ InScript(h, new)
              /\ ListStore(h, new, FALSE)
              /\ Answer(StoreRaises(h, new))
    /\ UNCHANGED <<parked, calls>>

-----------------------------------------------------------------------------
\* Methods that run a closure for every element of the copy.
Iterate ==
    /\ InScriptCode /\ ListStep /\ Len(calls) < MaxCalls
    /\ parked' = NothingParked
    /\ \E h \in Handles, m \in {"each", "removeIf"} :
         /\ IsListHandle(h) /\ ~Stale(h)
         /\ m = "removeIf" => ~KindIs(Target[h], "reversed")
         /\ (m = "removeIf" /\ IsReentrant(h)) => "reentrant" \in Scripts
         /\ (m = "removeIf" /\ calls # <<>> /\ TRUE \in Refused[h]) => "refused in a body" \in Scripts
         /\ calls' = <<[method |-> m, recv |-> h, rest |-> ItemsOf[h], kept |-> <<>>]>> \o calls
    /\ UNCHANGED <<heap, raised>>

\* The closure answers for the next element; removeIf keeps what it declines.
Element ==
    /\ ~raised /\ calls # <<>> /\ Head(calls).rest # <<>>
    /\ \E hit \in BOOLEAN :
         calls' = [calls EXCEPT ![1].rest = Tail(@),
                                ![1].kept = IF hit THEN @ ELSE Append(@, Head(calls[1].rest))]
    /\ UNCHANGED <<heap, parked, raised, listSteps>>

\* The call returns: removeIf parks what it kept, and whatever is parked is
\* stored into the receiver, after a raise too.
Return ==
    /\ calls # <<>>
    /\ raised \/ Head(calls).rest = <<>>
    /\ LET c == Head(calls)
           left == IF c.method = "removeIf" /\ ~raised THEN [items |-> c.kept]
                   ELSE IF parked = NothingParked THEN NothingParked ELSE [items |-> ItemsOf[parked.handle]]
       IN  IF left = NothingParked
           THEN /\ parked' = NothingParked /\ heap' = heap
                /\ raised' \in {FALSE, raised /\ Tail(calls) # <<>>}
           ELSE /\ ListStore(c.recv, left.items, FALSE)
                /\ Writeback(c.recv, c.method = "each" \/ raised \/ StoreRaises(c.recv, left.items))
                /\ IF raised \/ StoreRaises(c.recv, left.items)
                   THEN raised' \in {FALSE, Tail(calls) # <<>>} ELSE UNCHANGED raised
    /\ calls' = Tail(calls)
    /\ UNCHANGED listSteps

ListNext == \/ NewList \/ NewView \/ NewReversed \/ SubList
            \/ AppendInPlace \/ CallMethod \/ CallRaises \/ PutAt
            \/ Iterate \/ Element \/ Return

ListSpec == ListInit /\ [][ListNext]_listVars

-----------------------------------------------------------------------------
\* A window that may be used lies inside its list, and inside the window it
\* was taken from: the splice of list_store and the parent walk that resizes
\* the outer windows agree (host.rs:3350).
WindowsInside ==
    \A w \in Handles : KindIs(w, "window") /\ ~Stale(w) =>
       LET p == heap[w].parent
       IN  /\ OffsetOf(w) + LengthOf(w) <= Len(heap[RootOf(w)].items)
           /\ KindIs(p, "window") => /\ ~Stale(p)
                                     /\ OffsetOf(p) <= OffsetOf(w)
                                     /\ OffsetOf(w) + LengthOf(w) <= OffsetOf(p) + LengthOf(p)

\* An unmodifiable list never changes and a fixed-size one keeps its length,
\* through whatever window, view, method or iteration the write comes
\* (seq.rs:720, host.rs:3363).
PoliciesKept ==
    [][\A h \in Handles : KindIs(h, "list") =>
         /\ heap[h].policy = "frozen" => heap'[h].items = heap[h].items
         /\ heap[h].policy = "fixed" => Len(heap'[h].items) = Len(heap[h].items)]_listVars

\* each runs the closure for its effects: the return of an each stores nothing
\* (host.rs:13413, and the take_mutated of host.rs:12149).
EachStoresNothing ==
    [][Len(calls') < Len(calls) /\ Head(calls).method = "each" => heap' = heap]_listVars

\* subList as the JDK promises it, without counters.
Contents == [l \in {h \in Handles : heap[h].kind = "list"} |-> heap[l].items]
Spans == [w \in {h \in Handles : heap[h].kind = "window"} |->
            [root |-> heap[w].root, offset |-> heap[w].offset, len |-> heap[w].len,
             path |-> Through[w]]]
Live == {w \in Handles : heap[w].kind = "window" /\ heap[w].exp = heap[heap[w].root].mod}

Windows == INSTANCE LiveWindows WITH
    Ids <- 1 .. MaxObjects, content <- Contents, span <- Spans, live <- Live

\* Counters and parent chains implement live windows (host.rs:3350, 3496).
ImplementsWindows == Windows!Spec
=============================================================================
