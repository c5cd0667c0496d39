----------------------------- MODULE ClassInit -----------------------------
(***************************************************************************)
(* Static initialisation of script classes (src/src/host.rs): a class is   *)
(* initialised on its first use, superclasses first, and its initialisers  *)
(* may use other classes, or its own, while they run, and may raise.       *)
(***************************************************************************)
EXTENDS Integers, Sequences, SequencesExt, FiniteSets

CONSTANTS
    Classes,        \* the script's classes
    Parent,         \* Parent[c]: the superclass of c, or c itself
    FieldOrder      \* the static fields each class declares, in order

\* The hierarchy has no cycle: class_chain follows it to its end.
ASSUME HierarchyAssumption ==
    /\ IsFiniteSet(Classes) /\ "no class" \notin Classes
    /\ Parent \in [Classes -> Classes]
    /\ \E depth \in [Classes -> 0 .. Cardinality(Classes)] :
         \A c \in Classes : Parent[c] = c \/ depth[Parent[c]] < depth[c]

\* A class declares a static field once.
ASSUME FieldOrderAssumption ==
    /\ FieldOrder \in Seq(ToSet(FieldOrder))
    /\ \A i, j \in 1 .. Len(FieldOrder) : FieldOrder[i] = FieldOrder[j] => i = j

VARIABLES
    statics,        \* STATICS: class -> field -> value, once it has begun
    inits,          \* the ensure_static_init calls in progress, innermost first
    failed,         \* classes one of whose initialisers raised
    begun           \* <<class, field>> of every initialiser begun

classVars == <<statics, inits, failed, begun>>

NoClass == "no class"
ZeroValue == "zero"

\* class_chain: from the root down.
ChainOf[c \in Classes] == IF Parent[c] = c THEN <<c>> ELSE Append(ChainOf[Parent[c]], c)
InitChainOfSelf(c) == <<c>>
InitChain(c) == ChainOf[c]

\* A class already begun is passed over, finished or not.
InitPassed(c) == c \in DOMAIN statics

\* The initialisers of a class have all run.
InitsFinishedEarly(next) == next >= Len(FieldOrder)
InitsFinished(next) == next > Len(FieldOrder)

InitCall(chain) == [chain |-> chain, class |-> NoClass, next |-> 1, running |-> FALSE]
TopInit == Head(inits)

ClassInitInit == statics = <<>> /\ inits = <<>> /\ failed = {} /\ begun = {}

\* The script, or the initialiser that is running, uses a class: new, a
\* static call, a static field.
UseClass ==
    /\ inits # <<>> => TopInit.running
    /\ \E c \in Classes : /\ \E d \in ToSet(InitChain(c)) : ~InitPassed(d)
                          /\ inits' = <<InitCall(InitChain(c))>> \o inits
    /\ UNCHANGED <<statics, failed, begun>>

\* ensure_static_init goes on: to the next class of the chain, registering it
\* with its fields at zero, to the next initialiser of that class, or back.
NextClass ==
    /\ inits # <<>> /\ ~TopInit.running /\ TopInit.class = NoClass
    /\ IF TopInit.chain = <<>> THEN inits' = Tail(inits) /\ UNCHANGED statics
       ELSE LET c == Head(TopInit.chain)
            IN  /\ inits' = [inits EXCEPT ![1].chain = Tail(@), ![1].next = 1,
                                          ![1].class = IF InitPassed(c) THEN NoClass ELSE c]
                /\ statics' = IF InitPassed(c) THEN statics
                              ELSE [d \in DOMAIN statics \cup {c} |->
                                      IF d = c THEN [f \in ToSet(FieldOrder) |-> ZeroValue]
                                               ELSE statics[d]]
    /\ UNCHANGED <<failed, begun>>

NextInitialiser ==
    /\ inits # <<>> /\ ~TopInit.running /\ TopInit.class # NoClass
    /\ IF InitsFinished(TopInit.next)
       THEN inits' = [inits EXCEPT ![1].class = NoClass] /\ UNCHANGED begun
       ELSE /\ inits' = [inits EXCEPT ![1].running = TRUE]
            /\ begun' = begun \cup {<<TopInit.class, FieldOrder[TopInit.next]>>}
    /\ UNCHANGED <<statics, failed>>

InitialiserAnswers ==
    /\ inits # <<>> /\ TopInit.running
    /\ statics' = [statics EXCEPT ![TopInit.class][FieldOrder[TopInit.next]] = "initialised"]
    /\ inits' = [inits EXCEPT ![1].next = @ + 1, ![1].running = FALSE]
    /\ UNCHANGED <<failed, begun>>

\* A raise ends the whole call: the rest of the class and of the chain is
\* left as it is, and the initialiser that used the class may catch it.
InitialiserRaises ==
    /\ inits # <<>> /\ TopInit.running
    /\ failed' = failed \cup {TopInit.class}
    /\ inits' = Tail(inits)
    /\ UNCHANGED <<statics, begun>>

\* static_write: a store to a static field of a class in use.
WriteStatic ==
    /\ inits # <<>> => TopInit.running
    /\ \E c \in DOMAIN statics, f \in ToSet(FieldOrder) :
         statics' = [statics EXCEPT ![c][f] = "written"]
    /\ UNCHANGED <<inits, failed, begun>>

ClassInitNext == \/ UseClass \/ NextClass \/ NextInitialiser
                 \/ InitialiserAnswers \/ InitialiserRaises \/ WriteStatic

ClassInitSpec == ClassInitInit /\ [][ClassInitNext]_classVars

-----------------------------------------------------------------------------
InProgress(c) == \E i \in DOMAIN inits : inits[i].class = c

\* An initialiser begins once, however the classes use each other, and after
\* those of the superclasses have all begun or are interrupted below it
\* (host.rs:6512).
InitialisedOnce ==
    [][begun' # begun =>
         /\ <<TopInit.class, FieldOrder[TopInit.next]>> \notin begun
         /\ \A c \in ToSet(ChainOf[TopInit.class]) \ {TopInit.class} :
              \/ InProgress(c) \/ c \in failed
              \/ \A f \in ToSet(FieldOrder) : <<c, f>> \in begun]_classVars

\* A field is seen at its zero only by code that runs inside its class's
\* initialisation, or after that raised (host.rs:6512).
ZeroOnlyInside ==
    \A c \in DOMAIN statics, f \in ToSet(FieldOrder) :
       statics[c][f] = ZeroValue => InProgress(c) \/ c \in failed
=============================================================================
