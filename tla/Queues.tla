------------------------------- MODULE Queues -------------------------------
(***************************************************************************)
(* The java.util sequence classes of src/src/host/seq.rs: a PriorityQueue  *)
(* kept as the JDK's binary heap, a Stack and a Deque.  The elements of a  *)
(* heap are ordered by a key that several elements share, the elements of  *)
(* a stack or a deque are numbered by arrival.                             *)
(***************************************************************************)
EXTENDS Integers, Sequences, SequencesExt, FiniteSets, FiniteSetsExt

CONSTANTS
    HeapElements,  \* what a heap may hold
    MaxQueue,      \* bound on the elements
    MaxArrivals    \* bound on the arrivals at a stack or deque

ASSUME QueueAssumption ==
    HeapElements \subseteq Nat \ {0} /\ MaxQueue \in Nat /\ MaxArrivals \in Nat

VARIABLES
    kind,          \* the class of the collection
    queue,         \* its elements, in storage order
    taken,         \* the element the last call took out, or NotTaken
    arrivals       \* elements that arrived at a stack or deque

queueVars == <<kind, queue, taken, arrivals>>

NotTaken == 0
QueueKey(x) == x \div 2

-----------------------------------------------------------------------------
\* sift_up from position k: x settles at the first ancestor that is not
\* greater, the ancestors passed move down one place each.
SiftUp(q, k, x) ==
    LET passed[i \in 1 .. k] ==
            IF i > 1 /\ QueueKey(x) < QueueKey(q[i \div 2])
            THEN {i} \cup passed[i \div 2] ELSE {i}
        settle == Min(passed[k])
    IN  [j \in DOMAIN q |->
           IF j = settle THEN x ELSE IF j \in passed[k] THEN q[j \div 2] ELSE q[j]]

\* The child sift_down compares with: the right one only when it is less.
LesserChild(q, i) == IF 2 * i + 1 <= Len(q) /\ QueueKey(q[2 * i]) > QueueKey(q[2 * i + 1])
               THEN 2 * i + 1 ELSE 2 * i

\* sift_down from position k.
SiftDown(q, k, x) ==
    LET below[i \in k .. Len(q)] ==
            IF 2 * i <= Len(q) /\ QueueKey(x) > QueueKey(q[LesserChild(q, i)])
            THEN {i} \cup below[LesserChild(q, i)] ELSE {i}
        settle == Max(below[k])
    IN  [j \in DOMAIN q |->
           IF j = settle THEN x ELSE IF j \in below[k] THEN q[LesserChild(q, j)] ELSE q[j]]

\* construct: the copied array is made a heap from the last parent up.
Heapified(s) ==
    LET done[i \in 1 .. (Len(s) \div 2) + 1] ==
            IF i > Len(s) \div 2 THEN s ELSE SiftDown(done[i + 1], i, done[i + 1][i])
    IN  done[1]

\* pq_add, poll and pq_remove_at.
Added(q, x) == SiftUp(Append(q, x), Len(q) + 1, x)
Polled(q) == IF Len(q) = 1 THEN <<>> ELSE SiftDown(Front(q), 1, Last(q))
RemovedOnce(q, i) ==
    IF i = Len(q) THEN Front(q) ELSE SiftDown(Front(q), i, Last(q))
RemovedAt(q, i) ==
    IF i = Len(q) THEN Front(q)
    ELSE LET down == SiftDown(Front(q), i, Last(q))
         IN  IF down[i] = Last(q) THEN SiftUp(down, i, Last(q)) ELSE down

-----------------------------------------------------------------------------
QueueInit ==
    /\ taken = NotTaken
    /\ arrivals = 0
    /\ \/ /\ kind = "PriorityQueue"
          /\ \E n \in 0 .. MaxQueue : \E seed \in [1 .. n -> HeapElements] : queue = Heapified(seed)
       \/ /\ kind \in {"Stack", "ArrayDeque"}
          /\ queue = <<>>

\* add, offer, <<.
PqAdd ==
    /\ kind = "PriorityQueue" /\ Len(queue) < MaxQueue
    /\ \E x \in HeapElements : queue' = Added(queue, x)
    /\ taken' = NotTaken
    /\ UNCHANGED <<kind, arrivals>>

\* poll, remove().
PqPoll ==
    /\ kind = "PriorityQueue" /\ queue # <<>>
    /\ taken' = Head(queue)
    /\ queue' = Polled(queue)
    /\ UNCHANGED <<kind, arrivals>>

\* remove(Object): the first element that equals it.
PqRemove ==
    /\ kind = "PriorityQueue"
    /\ \E x \in ToSet(queue) :
         /\ taken' = x
         /\ queue' = RemovedAt(queue, Min({i \in DOMAIN queue : queue[i] = x}))
    /\ UNCHANGED <<kind, arrivals>>

Arrival == arrivals < MaxArrivals /\ arrivals' = arrivals + 1 /\ taken' = NotTaken

\* stack_method: push and pop at the end.
StackPush == kind = "Stack" /\ Arrival /\ queue' = Append(queue, arrivals') /\ UNCHANGED kind
StackPop == /\ kind = "Stack" /\ queue # <<>>
            /\ taken' = Last(queue) /\ queue' = Front(queue)
            /\ UNCHANGED <<kind, arrivals>>

\* deque_method: push is addFirst, offer and add are addLast.
DequeFirst == kind = "ArrayDeque" /\ Arrival /\ queue' = <<arrivals'>> \o queue /\ UNCHANGED kind
DequeLast == kind = "ArrayDeque" /\ Arrival /\ queue' = Append(queue, arrivals') /\ UNCHANGED kind
TakeFirst == /\ kind = "ArrayDeque" /\ queue # <<>>
             /\ taken' = Head(queue) /\ queue' = Tail(queue)
             /\ UNCHANGED <<kind, arrivals>>
TakeLast == /\ kind = "ArrayDeque" /\ queue # <<>>
            /\ taken' = Last(queue) /\ queue' = Front(queue)
            /\ UNCHANGED <<kind, arrivals>>

QueueNext == \/ PqAdd \/ PqPoll \/ PqRemove
             \/ StackPush \/ StackPop
             \/ DequeFirst \/ DequeLast \/ TakeFirst \/ TakeLast

QueueSpec == QueueInit /\ [][QueueNext]_queueVars

-----------------------------------------------------------------------------
\* The storage order keeps what the class promises: no element of a heap is
\* less than its parent, whatever was removed from the middle (seq.rs:225); a
\* stack holds its elements by arrival.
InStorageOrder ==
    /\ kind = "PriorityQueue" => \A i \in 2 .. Len(queue) : QueueKey(queue[i \div 2]) <= QueueKey(queue[i])
    /\ kind = "Stack" => \A i, j \in DOMAIN queue : i < j => queue[i] < queue[j]

\* What a call does to the elements.
Occurrences(s, x) == Cardinality({i \in DOMAIN s : s[i] = x})
KeepsStorage ==
    /\ InStorageOrder'
    /\ \E x \in HeapElements \cup 1 .. MaxArrivals :
         /\ Len(queue') < Len(queue) => x = taken'
         /\ \A y \in (ToSet(queue) \cup ToSet(queue')) \ {x} : Occurrences(queue', y) = Occurrences(queue, y)
         /\ Occurrences(queue', x) - Occurrences(queue, x) = Len(queue') - Len(queue)

\* A call takes one element out or puts one in, the others stay (sifting loses
\* nothing and doubles nothing), and what it leaves is in storage order
\* (seq.rs:161, 180, 225).
StorageKept == [][KeepsStorage]_queueVars
=============================================================================
