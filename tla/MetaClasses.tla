---------------------------- MODULE MetaClasses ----------------------------
(***************************************************************************)
(* Methods injected through a metaclass (src/src/host.rs): into one        *)
(* instance or into a class.  A class's first injection replaces its       *)
(* metaclass; an instance keeps the one it was built with, which the code  *)
(* tells from heap positions.                                              *)
(***************************************************************************)
EXTENDS Integers, Sequences, SequencesExt, FiniteSets

CONSTANTS
    Types,          \* the script's classes
    Super,          \* Super[c]: the superclass of c, or c itself
    MaxHeap         \* bound on the heap

\* The hierarchy has no cycle: class_chain follows it to its end.
ASSUME SuperAssumption ==
    /\ IsFiniteSet(Types) /\ "other" \notin Types
    /\ Super \in [Types -> Types]
    /\ \E depth \in [Types -> 0 .. Cardinality(Types)] :
         \A c \in Types : Super[c] = c \/ depth[Super[c]] < depth[c]

VARIABLES
    objects,        \* the heap: the class of each object, or NotInstance
    emcBorn,        \* EMC_BORN: class -> heap length at its first injection
    emcMethods,     \* EMC_METHODS: classes with the injected method
    emcInstance,    \* EMC_INSTANCE: instances with it
    expando         \* the instances built with a replaced metaclass

emcVars == <<objects, emcBorn, emcMethods, emcInstance, expando>>

NotInstance == "other"
Instances == {i \in DOMAIN objects : objects[i] # NotInstance}
Ancestors[c \in Types] == IF Super[c] = c THEN <<c>> ELSE <<c>> \o Ancestors[Super[c]]

EmcInit == /\ objects = <<>> /\ emcBorn = <<>>
           /\ emcMethods = {} /\ emcInstance = {} /\ expando = {}

NewObject ==
    /\ Len(objects) < MaxHeap
    /\ \E c \in Types \cup {NotInstance} :
         /\ objects' = Append(objects, c)
         /\ expando' = IF c \in DOMAIN emcBorn THEN expando \cup {Len(objects')} ELSE expando
    /\ UNCHANGED <<emcBorn, emcMethods, emcInstance>>

\* emc_register through C.metaClass, whose handle is an object of the heap.
InjectClass ==
    /\ Len(objects) < MaxHeap
    /\ objects' = Append(objects, NotInstance)
    /\ \E c \in Types :
         /\ emcBorn' = IF c \in DOMAIN emcBorn THEN emcBorn
                       ELSE [d \in DOMAIN emcBorn \cup {c} |->
                               IF d = c THEN Len(objects') ELSE emcBorn[d]]
         /\ emcMethods' = emcMethods \cup {c}
    /\ UNCHANGED <<emcInstance, expando>>

\* emc_register through instance.metaClass.
InjectInstance ==
    /\ Len(objects) < MaxHeap
    /\ objects' = Append(objects, NotInstance)
    /\ \E i \in Instances : emcInstance' = emcInstance \cup {i}
    /\ UNCHANGED <<emcBorn, emcMethods, expando>>

\* The heap id of the i-th object is i - 1.
BornSince(c, i) == c \in DOMAIN emcBorn => emcBorn[c] < i - 1
BornWith(c, i) == c \in DOMAIN emcBorn => emcBorn[c] <= i - 1

\* emc_lookup: what answers the method for an instance, the first class of
\* its chain with an injection it sees.
Answering(i) ==
    {k \in DOMAIN Ancestors[objects[i]] :
        LET c == Ancestors[objects[i]][k]
        IN  c \in emcMethods /\ (c = objects[i] => BornWith(c, i))}
EmcLookup(i) ==
    IF i \in emcInstance THEN <<"instance", i>>
    ELSE IF Answering(i) = {} THEN <<"missing">>
    ELSE <<"class", Ancestors[objects[i]][Min(Answering(i))]>>

EmcNext == NewObject \/ InjectClass \/ InjectInstance

EmcSpec == EmcInit /\ [][EmcNext]_emcVars

\* An instance answers with its own method, else with the nearest injection
\* of its class, seen when the metaclass it was built with is the replaced
\* one, or of a superclass: heap positions order constructions and
\* injections as they happened (host.rs:4043, 4061).
SeesItsMetaclass ==
    \A i \in Instances :
       LET c == objects[i]
           seen == IF i \in expando THEN {c} \cap emcMethods ELSE {}
           above == {d \in ToSet(Ancestors[c]) \ {c} : d \in emcMethods}
       IN  CASE i \in emcInstance -> EmcLookup(i) = <<"instance", i>>
             [] i \notin emcInstance /\ seen # {} -> EmcLookup(i) = <<"class", c>>
             [] i \notin emcInstance /\ seen = {} /\ above # {} ->
                  /\ EmcLookup(i)[1] = "class" /\ EmcLookup(i)[2] \in above
                  /\ \A d \in above : d \in ToSet(Ancestors[EmcLookup(i)[2]])
             [] OTHER -> EmcLookup(i) = <<"missing">>
=============================================================================
