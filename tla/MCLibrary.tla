----------------------------- MODULE MCLibrary -----------------------------
(***************************************************************************)
(* The stateful objects of the host library and its methods that call a    *)
(* closure per element, each on a small instance: a behaviour exercises    *)
(* one of them, the others rest.                                           *)
(***************************************************************************)
EXTENDS MCWalks, ListViews, Queues, LazyValues, ClassInit, MetaClasses

VARIABLE part

MCLiterals == {<<1, 2>>}
MCParent == [c \in {"A", "B", "C"} |-> IF c = "B" THEN "A" ELSE c]
MCSuper == [c \in {"A", "B"} |-> "A"]
MCFieldOrder == <<"f", "g">>
MCParts == {"lists", "queues", "lazy values", "class initialisation", "metaclasses", "walks"}

\* Which parts a run exercises.
CONSTANT Parts

libraryVars == <<listVars, queueVars, lazyVars, classVars, emcVars, walkVars, part>>

Rest(p) ==
    /\ part' = part
    /\ p # "lists" => UNCHANGED listVars
    /\ p # "queues" => UNCHANGED queueVars
    /\ p # "lazy values" => UNCHANGED lazyVars
    /\ p # "class initialisation" => UNCHANGED classVars
    /\ p # "metaclasses" => UNCHANGED emcVars
    /\ p # "walks" => UNCHANGED walkVars

Init ==
    /\ part \in Parts
    /\ ListInit /\ LazyInit /\ ClassInitInit /\ EmcInit /\ IterationInit
    /\ IF part = "queues" THEN QueueInit
       ELSE kind = "Stack" /\ queue = <<>> /\ taken = NotTaken /\ arrivals = 0
    /\ part # "lazy values" => ~eager /\ autoGrow

Next ==
    \/ part = "lists" /\ ListNext /\ Rest("lists")
    \/ part = "queues" /\ QueueNext /\ Rest("queues")
    \/ part = "lazy values" /\ LazyNext /\ Rest("lazy values")
    \/ part = "class initialisation" /\ ClassInitNext /\ Rest("class initialisation")
    \/ part = "metaclasses" /\ EmcNext /\ Rest("metaclasses")
    \/ part = "walks" /\ IterationNext /\ Rest("walks")

Spec == Init /\ [][Next]_libraryVars
=============================================================================
