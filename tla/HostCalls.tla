----------------------------- MODULE HostCalls -----------------------------
(***************************************************************************)
(* How host.rs re-enters the virtual machine: a builtin runs a closure, a   *)
(* method or a GDK call that runs Groovy code of its own, each on the Rust  *)
(* stack of the one before, with what they mean to each other kept in       *)
(* thread-locals (CLOSURE_STACK, DELEGATES, CATEGORIES, NO_STACK,           *)
(* MISS_PROBE).                                                             *)
(*                                                                          *)
(* An activation is one Rust call that changes a thread-local or pushes a   *)
(* VM frame.  Groovy code runs when the innermost one is a closure or a     *)
(* method; the GDK runs when it is a dispatch.  What the code computes is   *)
(* left out: it may call, raise, miss a method or return at any point.       *)
(* A delegate is a slot of DELEGATES, not the list in it: a mutator called   *)
(* on a delegate list (dispatch_on_delegate) replaces what the slot holds.   *)
(***************************************************************************)
EXTENDS Integers, Sequences, FiniteSets, SequencesExt

CONSTANTS
    Closures, Receivers, Categories, Methods,
    None,
    MaxDepth,     \* MAX_CALL_DEPTH
    MaxFrames,    \* bound: VM frames
    MaxNesting    \* bound: activations

ASSUME DepthAssumption == MaxDepth \in Nat
ASSUME NoneAssumption == None \notin Methods

VARIABLES
    running,   \* a script is running on this thread
    armed,     \* EXC_ARMED: its raises are parked
    ctx,       \* the thread-locals that scope calls
    probed,    \* MISS_PROBED
    acts,      \* activations, innermost last
    frames,    \* vm.frames.len()
    pending,   \* PENDING: the kind of exception in flight
    fault      \* G_ERROR is set and the machine is halted

vars == <<running, armed, ctx, probed, acts, frames, pending, fault>>

Raised == {"exception", "missing", "missingNoStack", "stackOverflow"}
Kinds  == {"closure", "sub", "with", "use", "sum", "probe"}

Context ==
    [delegates : Seq(Receivers), closures : Seq(Closures), categories : Seq(Categories),
     noStack : BOOLEAN, probe : Methods \cup {None}]

\* What a new thread's cells hold.
Clean == [delegates |-> <<>>, closures |-> <<>>, categories |-> <<>>,
          noStack |-> FALSE, probe |-> None]

Activation ==
    [kind : Kinds, delegated : BOOLEAN, pushed : Nat, noStack : BOOLEAN,
     probe : Methods \cup {None}, probed : BOOLEAN, base : Nat, entry : Context]

\* The Rust locals of a call of this kind; entry is the context it was called
\* in, kept for the properties only.
Act(k, delegated, pushed) ==
    [kind |-> k, delegated |-> delegated, pushed |-> pushed, noStack |-> ctx.noStack,
     probe |-> ctx.probe, probed |-> probed, base |-> frames, entry |-> ctx]

Init ==
    /\ running = FALSE /\ armed = FALSE /\ ctx = Clean /\ probed = FALSE
    /\ acts = <<>> /\ frames = 0 /\ pending = None /\ fault = FALSE

Inner == Last(acts)
Running(kinds) ==
    running /\ ~fault /\ IF acts = <<>> THEN "script" \in kinds ELSE Inner.kind \in kinds
InCode == Running({"script", "closure", "sub"})
InHost == Running({"sum", "probe"})
Base == IF acts = <<>> THEN 0 ELSE Inner.base + 1
Room(n) == Len(acts) + n <= MaxNesting

\* run_chunk: a new VM, and reset_heap, which leaves the scoping cells alone.
StartRun ==
    /\ ~running /\ running' = TRUE
    /\ armed' \in BOOLEAN
    /\ frames' = 0 /\ pending' = None /\ fault' = FALSE
    /\ UNCHANGED <<ctx, probed, acts>>

EndRun ==
    /\ running /\ acts = <<>> /\ running' = FALSE
    /\ UNCHANGED <<armed, ctx, probed, acts, frames, pending, fault>>

\* raise_with.
Raise(kind) ==
    IF armed THEN pending' = kind /\ fault' = fault
    ELSE fault' = TRUE /\ pending' = pending

Throw ==
    /\ InCode \/ InHost
    /\ Raise("exception")
    /\ UNCHANGED <<running, armed, ctx, probed, acts, frames>>

Catch ==
    /\ InCode /\ pending # None
    /\ pending' = None
    /\ UNCHANGED <<running, armed, ctx, probed, acts, frames, fault>>

\* raise_missing_method.
Miss(m) ==
    /\ InCode \/ InHost
    /\ IF ctx.probe = m
       THEN probed' = TRUE /\ UNCHANGED <<pending, fault>>
       ELSE /\ Raise(IF ctx.noStack THEN "missingNoStack" ELSE "missing")
            /\ probed' = probed
    /\ UNCHANGED <<running, armed, ctx, acts, frames>>

\* Op::Call: a frame and no Rust.  A recursive function's prologue checks the
\* depth (b_depth); others nest as deep as the source does.
NativeCall(recursive) ==
    /\ InCode /\ frames < MaxFrames
    /\ frames' = frames + 1
    /\ IF recursive /\ frames' >= MaxDepth THEN Raise("stackOverflow")
       ELSE UNCHANGED <<pending, fault>>
    /\ UNCHANGED <<running, armed, ctx, probed, acts>>

\* Mutant: a return that pops whatever frame there is.
NativeReturnPastBase ==
    /\ InCode /\ frames > 0
    /\ frames' = frames - 1
    /\ UNCHANGED <<running, armed, ctx, probed, acts, pending, fault>>

NativeReturn ==
    /\ InCode /\ frames > Base
    /\ frames' = frames - 1
    /\ UNCHANGED <<running, armed, ctx, probed, acts, pending, fault>>

-----------------------------------------------------------------------------
(* Calls into Groovy code.                                                   *)

\* Mutant: the limit is off by one.
PastLimit == frames > MaxDepth

\* run_sub: at the limit it raises instead, and the caller cleans up at once.
AtLimit == frames >= MaxDepth

RunSub(a, c) ==
    IF AtLimit
    THEN Raise("stackOverflow") /\ UNCHANGED <<ctx, acts, frames>>
    ELSE /\ ctx' = c /\ acts' = Append(acts, a) /\ frames' = frames + 1
         /\ UNCHANGED <<pending, fault>>

\* invoke_closure_with, for a closure that has a delegate of its own or none.
Entered(c, clo, d) ==
    [c EXCEPT !.delegates = IF d = None THEN @ ELSE Append(@, d),
              !.closures = Append(@, clo), !.noStack = FALSE]

InvokeClosure(clo, d) ==
    /\ InCode \/ Running({"sum"})
    /\ Room(1)
    /\ RunSub(Act("closure", d # None, 0), Entered(ctx, clo, d))
    /\ UNCHANGED <<running, armed, probed>>

\* invoke_sub.
InvokeSub ==
    /\ InCode \/ InHost
    /\ Room(1)
    /\ RunSub(Act("sub", FALSE, 0), ctx)
    /\ UNCHANGED <<running, armed, probed>>

\* x.with { }, x.tap { }, and the closure behind an Expando's method: the
\* receiver is the delegate while the closure runs.
With(r) ==
    /\ InCode /\ Room(1)
    /\ ctx' = [ctx EXCEPT !.delegates = Append(@, r)]
    /\ acts' = Append(acts, Act("with", FALSE, 0))
    /\ UNCHANGED <<running, armed, probed, frames, pending, fault>>

\* use (A, B) { }.  The flag it sets around a TimeCategory block
\* (host.rs:10993-11005) is left out: only date arithmetic reads it.
Use(cats) ==
    /\ InCode /\ Room(1)
    /\ ctx' = [ctx EXCEPT !.categories = @ \o cats]
    /\ acts' = Append(acts, Act("use", FALSE, Len(cats)))
    /\ UNCHANGED <<running, armed, probed, frames, pending, fault>>

\* The closure of a with or a use.
RunBody(clo, d) ==
    /\ Running({"with", "use"})
    /\ Room(1)
    /\ RunSub(Act("closure", d # None, 0), Entered(ctx, clo, d))
    /\ UNCHANGED <<running, armed, probed>>

\* dispatch_call_unboxed on sum or average.
Sum ==
    /\ InCode \/ InHost
    /\ Room(1)
    /\ ctx' = [ctx EXCEPT !.noStack = TRUE]
    /\ acts' = Append(acts, Act("sum", FALSE, 0))
    /\ UNCHANGED <<running, armed, probed, frames, pending, fault>>

\* The GDK's turn before a methodMissing, a category or an isX getter.
Probe(m) ==
    /\ InCode \/ InHost
    /\ Room(1)
    /\ ctx' = [ctx EXCEPT !.probe = m]
    /\ probed' = FALSE
    /\ acts' = Append(acts, Act("probe", FALSE, 0))
    /\ UNCHANGED <<running, armed, frames, pending, fault>>

-----------------------------------------------------------------------------
(* Returns.                                                                  *)

\* Mutant: the delegate pushed for a closure stays.
UndoKeepsDelegate(a, c) ==
    CASE a.kind = "closure" -> [c EXCEPT !.closures = Front(@), !.noStack = a.noStack]
      [] a.kind = "sub"   -> c
      [] a.kind = "with"  -> [c EXCEPT !.delegates = Front(@)]
      [] a.kind = "use"   -> [c EXCEPT !.categories = SubSeq(@, 1, Len(@) - a.pushed)]
      [] a.kind = "sum"   -> [c EXCEPT !.noStack = a.noStack]
      [] a.kind = "probe" -> [c EXCEPT !.probe = a.probe]

\* What the rest of an activation's Rust function does to the cells.
Undo(a, c) ==
    CASE a.kind = "closure" ->
           [c EXCEPT !.closures = Front(@), !.noStack = a.noStack,
                     !.delegates = IF a.delegated THEN Front(@) ELSE @]
      [] a.kind = "sub"   -> c
      [] a.kind = "with"  -> [c EXCEPT !.delegates = Front(@)]
      [] a.kind = "use"   -> [c EXCEPT !.categories = SubSeq(@, 1, Len(@) - a.pushed)]
      [] a.kind = "sum"   -> [c EXCEPT !.noStack = a.noStack]
      [] a.kind = "probe" -> [c EXCEPT !.probe = a.probe]

Left == /\ ctx' = Undo(Inner, ctx)
        /\ acts' = Front(acts)
        /\ UNCHANGED <<running, armed, fault>>

\* The body's ReturnValue popped its frame, or the machine halted and did not.
Popped == IF fault THEN frames' = frames ELSE frames = Base /\ frames' = Inner.base

\* downgrade_no_stack.
Downgraded(p) == IF p = "missingNoStack" THEN "missing" ELSE p

LeaveClosure ==
    /\ acts # <<>> /\ Inner.kind = "closure"
    /\ Popped /\ Left
    /\ pending' = Downgraded(pending)
    /\ probed' = probed

LeaveSub ==
    /\ acts # <<>> /\ Inner.kind = "sub"
    /\ Popped /\ Left
    /\ UNCHANGED <<pending, probed>>

LeaveHost ==
    /\ acts # <<>> /\ Inner.kind \in {"with", "use", "sum"}
    /\ Left
    /\ UNCHANGED <<pending, probed, frames>>

\* Mutant: the answer of an inner probe is left to the outer one.
LeaveProbeProbed ==
    /\ acts # <<>> /\ Inner.kind = "probe"
    /\ Left
    /\ UNCHANGED <<pending, frames, probed>>

LeaveProbe ==
    /\ acts # <<>> /\ Inner.kind = "probe"
    /\ Left
    /\ probed' = Inner.probed
    /\ UNCHANGED <<pending, frames>>

CategoryLists == {<<k>> : k \in Categories} \cup (Categories \X Categories)

Next ==
    \/ StartRun \/ EndRun \/ Throw \/ Catch
    \/ \E m \in Methods : Miss(m) \/ Probe(m)
    \/ \E recursive \in BOOLEAN : NativeCall(recursive)
    \/ NativeReturn
    \/ \E clo \in Closures, d \in Receivers \cup {None} :
          InvokeClosure(clo, d) \/ RunBody(clo, d)
    \/ InvokeSub \/ Sum
    \/ \E r \in Receivers : With(r)
    \/ \E cats \in CategoryLists : Use(cats)
    \/ LeaveClosure \/ LeaveSub \/ LeaveHost \/ LeaveProbe

Spec == Init /\ [][Next]_vars

-----------------------------------------------------------------------------
(* Properties. *)

TypeOK ==
    /\ running \in BOOLEAN /\ armed \in BOOLEAN /\ probed \in BOOLEAN /\ fault \in BOOLEAN
    /\ ctx \in Context
    /\ acts \in Seq(Activation)
    /\ frames \in Nat
    /\ pending \in Raised \cup {None}

\* However a call ends -- a return, an exception on its way out, a fault, the
\* depth limit -- its caller finds the delegates, the running closures, the
\* categories, the miss flavour and the probe it had before the call.
Scope == INSTANCE DynamicScope WITH
            Env <- Context, env <- ctx,
            callers <- [i \in 1..Len(acts) |-> acts[i].entry]
ScopesRestored == Scope!Spec

\* reset_heap does not clear these cells and a fault abandons VM frames, yet no
\* run starts with what an earlier one left in them.
NoResidue == acts = <<>> => ctx = Clean /\ probed = FALSE

\* MAX_CALL_DEPTH: however closures, methods and native recursion interleave,
\* the Rust stack holds at most that many nested VM::run calls.
Nested == {i \in 1..Len(acts) : acts[i].kind \in {"closure", "sub"}}
RustStackBounded == Cardinality(Nested) <= MaxDepth

\* Each nested run's frame is still on the machine's stack while it runs, so
\* its ReturnValue pops its own frame and not its caller's.
Own(a) == IF a.kind \in {"closure", "sub"} THEN 1 ELSE 0      \* frames of its own
FramesNested ==
    /\ \A i \in 1..Len(acts) : frames >= acts[i].base + Own(acts[i])
    /\ \A i, j \in 1..Len(acts) : i < j => acts[j].base >= acts[i].base + Own(acts[i])
=============================================================================
