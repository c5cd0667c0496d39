---------------------------- MODULE DynamicScope ----------------------------
(***************************************************************************)
(* What the host's thread-locals promise: dynamic scope.  A call runs in an *)
(* environment of its own, and when it is over -- however it ends -- its    *)
(* caller has the environment it had before the call.                       *)
(***************************************************************************)
EXTENDS Sequences, SequencesExt

CONSTANTS
    Env,      \* environments
    Clean     \* the one a script starts in

VARIABLES
    env,      \* the environment of the running call
    callers   \* those of its callers, outermost first

Init == env = Clean /\ callers = <<>>

Call ==
    /\ env' \in Env
    /\ callers' = Append(callers, env)

Return ==
    /\ callers # <<>>
    /\ env' = Last(callers)
    /\ callers' = Front(callers)

Next == Call \/ Return

Spec == Init /\ [][Next]_<<env, callers>>
=============================================================================
