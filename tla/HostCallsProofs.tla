-------------------------- MODULE HostCallsProofs --------------------------
(***************************************************************************)
(* Dynamic scope, frames and the depth limit of host re-entry, for every    *)
(* set of closures, receivers, categories and methods and every depth.      *)
(*                                                                          *)
(* The argument: what an activation's Rust function will do to the cells    *)
(* (Undo) gives back the context it was called in, now for the innermost    *)
(* one and, once it has returned, for each of its callers (Restores).       *)
(***************************************************************************)
EXTENDS HostCalls, SequenceTheorems, FiniteSetTheorems, TLAPS

Restores ==
    /\ acts = <<>> => ctx = Clean
    /\ acts # <<>> => Undo(Last(acts), ctx) = Last(acts).entry
    /\ acts # <<>> => acts[1].entry = Clean
    /\ \A i \in 1..Len(acts) - 1 : Undo(acts[i], acts[i + 1].entry) = acts[i].entry

ProbedOnlyUnderProbe ==
    /\ ctx.probe = None => probed = FALSE
    /\ \A i \in 1..Len(acts) : acts[i].entry.probe = None => acts[i].probed = FALSE

BelowLimit == \A i \in 1..Len(acts) : Own(acts[i]) = 1 => acts[i].base < MaxDepth

Idle == ~running => acts = <<>>

IInv == TypeOK /\ Restores /\ ProbedOnlyUnderProbe /\ FramesNested /\ BelowLimit /\ Idle

-----------------------------------------------------------------------------
(* Sequences.                                                                *)

\* What is appended is last, and the front of the result is what it was.
LEMMA AppendLast ==
    ASSUME NEW S, NEW s \in Seq(S), NEW e \in S
    PROVE  /\ Append(s, e) \in Seq(S) /\ Append(s, e) # <<>>
           /\ Len(s) \in Nat /\ Len(Append(s, e)) = Len(s) + 1
           /\ Front(Append(s, e)) = s /\ Last(Append(s, e)) = e
           /\ Append(s, e)[Len(s) + 1] = e
           /\ \A i \in 1..Len(s) : Append(s, e)[i] = s[i]
<1>1. /\ Append(s, e) \in Seq(S) /\ Len(Append(s, e)) = Len(s) + 1
      /\ Append(s, e)[Len(s) + 1] = e /\ Len(s) \in Nat
      /\ \A i \in 1..Len(s) : Append(s, e)[i] = s[i]
  BY AppendProperties, LenProperties
<1>2. Last(Append(s, e)) = e /\ Append(s, e) # <<>>
  BY <1>1 DEF Last
<1>3. Front(Append(s, e)) = s
  <2>1. /\ SubSeq(Append(s, e), 1, Len(s)) \in Seq(S)
        /\ Len(SubSeq(Append(s, e), 1, Len(s))) = Len(s)
        /\ \A i \in 1..Len(s) : SubSeq(Append(s, e), 1, Len(s))[i] = Append(s, e)[i]
    BY <1>1
  <2>2. SubSeq(Append(s, e), 1, Len(s)) = s
    BY <1>1, <2>1, SeqEqual
  <2> QED BY <1>1, <2>2 DEF Front
<1> QED BY <1>1, <1>2, <1>3

\* The front of a sequence is the sequence without its last element.
LEMMA FrontLast ==
    ASSUME NEW S, NEW s \in Seq(S), s # <<>>
    PROVE  /\ Front(s) \in Seq(S) /\ Last(s) \in S /\ Last(s) = s[Len(s)]
           /\ Len(s) \in Nat \ {0} /\ Len(Front(s)) = Len(s) - 1
           /\ \A i \in 1..Len(s) - 1 : Front(s)[i] = s[i]
<1>1. Len(s) \in Nat \ {0} /\ \A i \in 1..Len(s) : s[i] \in S
  BY LenProperties, ElementOfSeq, EmptySeq
<1> DEFINE n == Len(s) - 1
<1>n. 1 \in 1..Len(s) + 1 /\ n \in 1 - 1..Len(s) /\ n \in Nat
  BY <1>1
<1> HIDE DEF n
<1>p. /\ SubSeq(s, 1, n) \in Seq(S) /\ Len(SubSeq(s, 1, n)) = n - 1 + 1
      /\ \A i \in 1..n - 1 + 1 : SubSeq(s, 1, n)[i] = s[1 + i - 1]
  BY <1>n, SubSeqProperties
<1>2. /\ SubSeq(s, 1, n) \in Seq(S) /\ Len(SubSeq(s, 1, n)) = n
      /\ \A i \in 1..n : SubSeq(s, 1, n)[i] = s[i]
  BY <1>n, <1>p
<1> QED BY <1>1, <1>2 DEF Front, Last, n

\* Cutting off as many elements as were added gives back the sequence.
LEMMA ConcatUndone ==
    ASSUME NEW S, NEW s \in Seq(S), NEW t \in Seq(S)
    PROVE  s \o t \in Seq(S) /\ SubSeq(s \o t, 1, Len(s \o t) - Len(t)) = s
<1>1. /\ s \o t \in Seq(S) /\ Len(s \o t) = Len(s) + Len(t)
      /\ Len(s) \in Nat /\ Len(t) \in Nat
      /\ \A i \in 1..Len(s) : (s \o t)[i] = s[i]
  BY ConcatProperties, LenProperties
<1>2. /\ SubSeq(s \o t, 1, Len(s)) \in Seq(S)
      /\ Len(SubSeq(s \o t, 1, Len(s))) = Len(s)
      /\ \A i \in 1..Len(s) : SubSeq(s \o t, 1, Len(s))[i] = (s \o t)[i]
  BY <1>1
<1>3. SubSeq(s \o t, 1, Len(s)) = s
  BY <1>1, <1>2, SeqEqual
<1> QED BY <1>1, <1>3

-----------------------------------------------------------------------------
(* Each kind of activation undoes what its entry did.                        *)

\* An activation remembers the context, the frames and the probe it found.
LEMMA ActTyped ==
    ASSUME TypeOK, NEW k \in Kinds, NEW d \in BOOLEAN, NEW n \in Nat
    PROVE  /\ Act(k, d, n) \in Activation
           /\ Act(k, d, n).kind = k /\ Act(k, d, n).entry = ctx
           /\ Act(k, d, n).base = frames /\ Act(k, d, n).probed = probed
           /\ Act(k, d, n).delegated = d /\ Act(k, d, n).pushed = n
           /\ Act(k, d, n).noStack = ctx.noStack /\ Act(k, d, n).probe = ctx.probe
<1>1. ctx.noStack \in BOOLEAN /\ ctx.probe \in Methods \cup {None}
  BY DEF TypeOK, Context
<1> QED BY <1>1 DEF TypeOK, Act, Activation

\* The type of each cell.
LEMMA ContextFields ==
    ASSUME NEW c \in Context
    PROVE  /\ c.delegates \in Seq(Receivers) /\ c.closures \in Seq(Closures)
           /\ c.categories \in Seq(Categories) /\ c.noStack \in BOOLEAN
           /\ c.probe \in Methods \cup {None}
  BY DEF Context

\* invoke_closure_with: the delegate, the closure and the miss flavour it sets.
LEMMA ClosureUndone ==
    ASSUME TypeOK, NEW clo \in Closures, NEW d \in Receivers \cup {None}
    PROVE  /\ Entered(ctx, clo, d) \in Context
           /\ Undo(Act("closure", d # None, 0), Entered(ctx, clo, d)) = ctx
           /\ Entered(ctx, clo, d).probe = ctx.probe
<1> DEFINE a == Act("closure", d # None, 0)
           ds == IF d = None THEN ctx.delegates ELSE Append(ctx.delegates, d)
           cs == Append(ctx.closures, clo)
           c == [ctx EXCEPT !.delegates = ds, !.closures = cs, !.noStack = FALSE]
<1>1. a.kind = "closure" /\ a.delegated = (d # None) /\ a.noStack = ctx.noStack
  BY DEF Act
<1>2. ctx \in Context
  BY DEF TypeOK
<1>3. cs \in Seq(Closures) /\ Front(cs) = ctx.closures
  BY <1>2, ContextFields, AppendLast
<1>4. ds \in Seq(Receivers) /\ (IF d # None THEN Front(ds) ELSE ds) = ctx.delegates
  <2>1. CASE d = None
    BY <1>2, <2>1, ContextFields
  <2>2. CASE d # None
    <3>1. d \in Receivers /\ ctx.delegates \in Seq(Receivers)
      BY <1>2, <2>2, ContextFields
    <3> QED BY <2>2, <3>1, AppendLast
  <2> QED BY <2>1, <2>2
<1>5. Entered(ctx, clo, d) = c
  BY DEF Entered
<1> HIDE DEF ds, cs, a
<1>6. c \in Context /\ c.probe = ctx.probe
  BY <1>2, <1>3, <1>4 DEF Context
<1>7. Undo(a, c) = [c EXCEPT !.closures = Front(@), !.noStack = ctx.noStack,
                             !.delegates = IF d # None THEN Front(@) ELSE @]
  BY <1>1 DEF Undo
<1>8. Undo(a, c) = [ctx EXCEPT !.closures = Front(cs), !.noStack = ctx.noStack,
                               !.delegates = IF d # None THEN Front(ds) ELSE ds]
  BY <1>2, <1>7 DEF Context
<1>9. Undo(a, c) = [ctx EXCEPT !.closures = ctx.closures, !.noStack = ctx.noStack,
                               !.delegates = ctx.delegates]
  BY <1>3, <1>4, <1>8, Zenon
<1>10. Undo(a, c) = ctx
  <2> HIDE DEF c
  <2> QED BY <1>2, <1>9 DEF Context
<1> QED BY <1>5, <1>6, <1>10 DEF a

\* invoke_sub changes no cell.
LEMMA SubUndone == Undo(Act("sub", FALSE, 0), ctx) = ctx
  BY DEF Act, Undo

\* with and tap: the delegate they push.
LEMMA WithUndone ==
    ASSUME TypeOK, NEW r \in Receivers
    PROVE  LET c == [ctx EXCEPT !.delegates = Append(@, r)]
           IN  c \in Context /\ Undo(Act("with", FALSE, 0), c) = ctx /\ c.probe = ctx.probe
<1> DEFINE ds == Append(ctx.delegates, r)
           c == [ctx EXCEPT !.delegates = ds]
<1>1. ctx \in Context
  BY DEF TypeOK
<1>2. ds \in Seq(Receivers) /\ Front(ds) = ctx.delegates
  BY <1>1, ContextFields, AppendLast
<1> HIDE DEF ds
<1>3. c \in Context /\ c.probe = ctx.probe
  BY <1>1, <1>2 DEF Context
<1>4. Undo(Act("with", FALSE, 0), c) = [c EXCEPT !.delegates = Front(@)]
  BY DEF Act, Undo
<1>5. Undo(Act("with", FALSE, 0), c) = ctx
  BY <1>1, <1>2, <1>4 DEF Context
<1> QED BY <1>3, <1>5 DEF ds

\* use: as many categories are dropped as were pushed.
LEMMA UseUndone ==
    ASSUME TypeOK, NEW cats \in Seq(Categories)
    PROVE  LET c == [ctx EXCEPT !.categories = @ \o cats]
           IN  c \in Context /\ Undo(Act("use", FALSE, Len(cats)), c) = ctx /\ c.probe = ctx.probe
<1> DEFINE ks == ctx.categories \o cats
           c == [ctx EXCEPT !.categories = ks]
           a == Act("use", FALSE, Len(cats))
<1>1. ctx \in Context
  BY DEF TypeOK
<1>2. ks \in Seq(Categories) /\ SubSeq(ks, 1, Len(ks) - Len(cats)) = ctx.categories
  BY <1>1, ContextFields, ConcatUndone
<1> HIDE DEF ks
<1>3. c \in Context /\ c.probe = ctx.probe
  BY <1>1, <1>2 DEF Context
<1>4. Undo(a, c) = [c EXCEPT !.categories = SubSeq(@, 1, Len(@) - Len(cats))]
  BY DEF Act, Undo
<1>5. Undo(a, c) = [ctx EXCEPT !.categories = SubSeq(ks, 1, Len(ks) - Len(cats))]
  BY <1>1, <1>4 DEF Context
<1>6. Undo(a, c) = ctx
  BY <1>1, <1>2, <1>5 DEF Context
<1> QED BY <1>3, <1>6 DEF ks

\* sum and average: the miss flavour they set.
LEMMA SumUndone ==
    ASSUME TypeOK
    PROVE  LET c == [ctx EXCEPT !.noStack = TRUE]
           IN  c \in Context /\ Undo(Act("sum", FALSE, 0), c) = ctx /\ c.probe = ctx.probe
<1> DEFINE c == [ctx EXCEPT !.noStack = TRUE]
<1>1. ctx \in Context
  BY DEF TypeOK
<1>2. Undo(Act("sum", FALSE, 0), c) = [c EXCEPT !.noStack = ctx.noStack]
  BY DEF Act, Undo
<1> QED BY <1>1, <1>2 DEF Context

\* A probe puts back the probe it replaced.
LEMMA ProbeUndone ==
    ASSUME TypeOK, NEW m \in Methods
    PROVE  LET c == [ctx EXCEPT !.probe = m]
           IN  c \in Context /\ Undo(Act("probe", FALSE, 0), c) = ctx /\ c.probe = m
<1> DEFINE c == [ctx EXCEPT !.probe = m]
<1>1. ctx \in Context
  BY DEF TypeOK
<1>2. Undo(Act("probe", FALSE, 0), c) = [c EXCEPT !.probe = ctx.probe]
  BY DEF Act, Undo
<1> QED BY <1>1, <1>2 DEF Context

-----------------------------------------------------------------------------
(* What a step does: it enters an activation, leaves the innermost one, or   *)
(* stays in it.                                                              *)

Scalars ==
    /\ running \in BOOLEAN /\ armed \in BOOLEAN /\ probed \in BOOLEAN /\ fault \in BOOLEAN
    /\ pending \in Raised \cup {None}

Enters(a, c) ==
    /\ a \in Activation /\ c \in Context
    /\ a.entry = ctx /\ a.base = frames /\ a.probed = probed
    /\ Undo(a, c) = ctx
    /\ ctx' = c /\ acts' = Append(acts, a)
    /\ frames' = frames + Own(a)
    /\ Own(a) = 1 => frames < MaxDepth
    /\ c.probe = None => probed' = FALSE
    /\ running'

Leaves ==
    /\ acts # <<>>
    /\ ctx' = Undo(Inner, ctx) /\ acts' = Front(acts)
    /\ frames' \in Nat /\ frames' >= Inner.base
    /\ ctx'.probe = None => probed' = FALSE
    /\ running'

Stays ==
    /\ ctx' = ctx /\ acts' = acts
    /\ frames' \in Nat
    /\ acts # <<>> => frames' >= Inner.base + Own(Inner)
    /\ ctx.probe = None => probed' = FALSE
    /\ ~running' => acts = <<>>

Step == Scalars' /\ ((\E a, c : Enters(a, c)) \/ Leaves \/ Stays)

\* raise_with parks an exception or halts the machine; nothing else.
LEMMA RaiseTyped ==
    ASSUME TypeOK, NEW k \in Raised, Raise(k)
    PROVE  pending' \in Raised \cup {None} /\ fault' \in BOOLEAN
  BY DEF Raise, TypeOK

\* The innermost activation, and what the invariant says of it.
LEMMA InnerFacts ==
    ASSUME IInv, acts # <<>>
    PROVE  /\ Inner \in Activation /\ Inner = acts[Len(acts)] /\ Len(acts) \in 1..Len(acts)
           /\ Inner.kind \in Kinds /\ Inner.base \in Nat /\ Inner.entry \in Context
           /\ Own(Inner) \in {0, 1} /\ frames \in Nat
           /\ frames >= Inner.base + Own(Inner)
           /\ Undo(Inner, ctx) = Inner.entry
           /\ Inner.entry.probe = None => Inner.probed = FALSE
           /\ running
<1>1. /\ Inner \in Activation /\ Inner = acts[Len(acts)] /\ Len(acts) \in 1..Len(acts)
  BY FrontLast DEF IInv, TypeOK, Inner
<1>2. Inner.kind \in Kinds /\ Inner.base \in Nat /\ Inner.entry \in Context
  BY <1>1 DEF Activation
<1>3. Own(Inner) \in {0, 1}
  BY DEF Own
<1>4. frames \in Nat /\ running \in BOOLEAN
  BY DEF IInv, TypeOK
<1>5. frames >= Inner.base + Own(Inner)
  BY <1>1 DEF IInv, FramesNested
<1>6. Undo(Inner, ctx) = Inner.entry
  BY DEF IInv, Restores, Inner
<1>7. Inner.entry.probe = None => Inner.probed = FALSE
  BY <1>1 DEF IInv, ProbedOnlyUnderProbe
<1>8. running
  BY <1>4 DEF IInv, Idle
<1> QED BY <1>1, <1>2, <1>3, <1>4, <1>5, <1>6, <1>7, <1>8

\* A run of a closure or a method either enters it or, at the depth limit,
\* leaves everything as it was but for the exception.
LEMMA RunSubStep ==
    ASSUME IInv, running, NEW k \in {"closure", "sub"}, NEW d \in BOOLEAN, NEW c \in Context,
           RunSub(Act(k, d, 0), c), UNCHANGED <<running, armed, probed>>,
           Undo(Act(k, d, 0), c) = ctx, c.probe = ctx.probe
    PROVE  Step
<1> DEFINE a == Act(k, d, 0)
<1>1. TypeOK /\ k \in Kinds
  BY DEF IInv, Kinds
<1>2. /\ a \in Activation /\ a.kind = k /\ a.entry = ctx
      /\ a.base = frames /\ a.probed = probed
  BY <1>1, ActTyped
<1>3. Own(a) = 1
  BY <1>2 DEF Own
<1>4. frames \in Nat /\ MaxDepth \in Nat
  BY <1>1, DepthAssumption DEF TypeOK
<1>5. ctx.probe = None => probed' = FALSE
  BY DEF IInv, ProbedOnlyUnderProbe
<1> HIDE DEF a
<1>6. RunSub(a, c)
  BY DEF a
<1>7. CASE AtLimit
  <2>1. Raise("stackOverflow") /\ UNCHANGED <<ctx, acts, frames>>
    BY <1>6, <1>7 DEF RunSub
  <2>2. Scalars'
    BY <1>1, <2>1, RaiseTyped DEF Scalars, TypeOK, Raised
  <2>3. Stays
    BY <1>4, <1>5, <2>1, InnerFacts DEF Stays
  <2> QED BY <2>2, <2>3 DEF Step
<1>8. CASE ~AtLimit
  <2>1. /\ ctx' = c /\ acts' = Append(acts, a) /\ frames' = frames + 1
        /\ UNCHANGED <<pending, fault>>
    BY <1>6, <1>8 DEF RunSub
  <2>2. Scalars'
    BY <1>1, <2>1 DEF Scalars, TypeOK
  <2>3. frames < MaxDepth
    BY <1>4, <1>8 DEF AtLimit
  <2>4. Undo(a, c) = ctx
    BY DEF a
  <2>5. Enters(a, c)
    BY <1>2, <1>3, <1>5, <2>1, <2>3, <2>4 DEF Enters
  <2> QED BY <2>2, <2>5 DEF Step
<1> QED BY <1>7, <1>8

\* A dispatch of the host's own enters at once and pushes no frame.
LEMMA HostStep ==
    ASSUME IInv, running, NEW k \in {"with", "use", "sum", "probe"}, NEW n \in Nat,
           NEW c \in Context,
           ctx' = c, acts' = Append(acts, Act(k, FALSE, n)),
           UNCHANGED <<running, armed, frames, pending, fault>>,
           probed' \in BOOLEAN, c.probe = None => probed' = FALSE,
           Undo(Act(k, FALSE, n), c) = ctx
    PROVE  Step
<1> DEFINE a == Act(k, FALSE, n)
<1>1. TypeOK /\ k \in Kinds
  BY DEF IInv, Kinds
<1>2. /\ a \in Activation /\ a.kind = k /\ a.entry = ctx
      /\ a.base = frames /\ a.probed = probed
  BY <1>1 DEF Act, Activation, TypeOK, Context
<1>3. Own(a) = 0 /\ frames \in Nat
  BY <1>1, <1>2 DEF Own, TypeOK
<1> HIDE DEF a
<1>4. Undo(a, c) = ctx /\ acts' = Append(acts, a)
  BY DEF a
<1>5. Enters(a, c)
  <2>1. running' /\ frames' = frames + Own(a)
    BY <1>1, <1>3 DEF TypeOK
  <2>2. Own(a) = 1 => frames < MaxDepth
    BY <1>3
  <2> QED BY <1>2, <1>4, <2>1, <2>2, Zenon DEF Enters
<1>6. Scalars'
  BY <1>1 DEF Scalars, TypeOK
<1> QED BY <1>5, <1>6 DEF Step

\* The invariant's part about the probe: a step that leaves MISS_PROBED alone
\* leaves it false outside a probe.
LEMMA ProbedKept ==
    ASSUME IInv, probed' = probed, ctx.probe = None
    PROVE  probed' = FALSE
  BY DEF IInv, ProbedOnlyUnderProbe

\* Groovy code that neither calls nor returns stays where it is.
LEMMA StaysInCode ==
    ASSUME IInv, running, Scalars',
           UNCHANGED <<running, ctx, acts>>, frames' \in Nat,
           acts # <<>> => frames' >= Inner.base + Own(Inner),
           ctx.probe = None => probed' = FALSE
    PROVE  Step
<1>1. running'
  BY DEF IInv, TypeOK
<1> QED BY <1>1, Zenon DEF Step, Stays

\* The same for code that pushes and pops no frame either.
LEMMA StaysInFrame ==
    ASSUME IInv, running, Scalars', UNCHANGED <<running, ctx, acts, frames>>,
           ctx.probe = None => probed' = FALSE
    PROVE  Step
<1>1. frames' \in Nat
  BY DEF IInv, TypeOK
<1>2. acts # <<>> => frames' >= Inner.base + Own(Inner)
  BY InnerFacts
<1> QED BY <1>1, <1>2, StaysInCode

\* Where Groovy code runs a script is running, and the innermost activation,
\* if there is one, has a frame of its own.
LEMMA CodeRuns ==
    ASSUME IInv
    PROVE  /\ InCode \/ InHost => running
           /\ InCode /\ acts # <<>> => Own(Inner) = 1 /\ Base = Inner.base + 1
           /\ Base \in Nat
           /\ acts = <<>> => Base = 0
<1>1. CASE acts = <<>>
  BY <1>1 DEF InCode, InHost, Running, Base
<1>2. CASE acts # <<>>
  <2>1. Inner.base \in Nat /\ running
    BY <1>2, InnerFacts
  <2>2. ASSUME InCode PROVE Own(Inner) = 1
    <3>1. Inner.kind \in {"script", "closure", "sub"} /\ Inner.kind \in Kinds
      BY <1>2, <2>2, InnerFacts, Zenon DEF InCode, Running
    <3> QED BY <3>1 DEF Own, Kinds
  <2>3. Base = Inner.base + 1
    BY <1>2, Zenon DEF Base
  <2>4. Base \in Nat
    BY <2>1, <2>3
  <2> QED BY <1>2, <2>1, <2>2, <2>3, <2>4, Zenon
<1> QED BY <1>1, <1>2

\* StartRun, EndRun, Throw, Catch, Miss, NativeCall and NativeReturn stay.
LEMMA CodeSteps ==
    ASSUME IInv,
           \/ StartRun \/ EndRun \/ Throw \/ Catch
           \/ \E m \in Methods : Miss(m)
           \/ \E recursive \in BOOLEAN : NativeCall(recursive)
           \/ NativeReturn
    PROVE  Step
<1>0. TypeOK
  BY DEF IInv
<1>1. CASE StartRun
  <2>1. acts = <<>>
    BY <1>0, <1>1 DEF StartRun, IInv, Idle, TypeOK
  <2>2. Scalars'
    BY <1>0, <1>1 DEF StartRun, Scalars, TypeOK
  <2>3. ctx.probe = None => probed' = FALSE
    BY <1>1, ProbedKept DEF StartRun
  <2>4. Stays
    BY <1>1, <2>1, <2>3 DEF StartRun, Stays
  <2> QED BY <2>2, <2>4 DEF Step
<1>2. CASE EndRun
  <2>1. Scalars' /\ frames' \in Nat
    BY <1>0, <1>2 DEF EndRun, Scalars, TypeOK
  <2>2. ctx.probe = None => probed' = FALSE
    BY <1>2, ProbedKept DEF EndRun
  <2>3. Stays
    BY <1>2, <2>1, <2>2 DEF EndRun, Stays
  <2> QED BY <2>1, <2>3 DEF Step
<1>3. CASE Throw
  <2>1. running
    BY <1>3, CodeRuns DEF Throw
  <2>2. Scalars'
    BY <1>0, <1>3, RaiseTyped DEF Throw, Scalars, TypeOK, Raised
  <2>3. UNCHANGED <<running, ctx, acts, frames>> /\ probed' = probed
    BY <1>3 DEF Throw
  <2> QED BY <2>1, <2>2, <2>3, ProbedKept, StaysInFrame
<1>4. CASE Catch
  <2>1. running
    BY <1>4, CodeRuns DEF Catch
  <2>2. Scalars'
    BY <1>0, <1>4 DEF Catch, Scalars, TypeOK
  <2>3. UNCHANGED <<running, ctx, acts, frames>> /\ probed' = probed
    BY <1>4 DEF Catch
  <2> QED BY <2>1, <2>2, <2>3, ProbedKept, StaysInFrame
<1>5. ASSUME NEW m \in Methods, Miss(m) PROVE Step
  <2>1. running /\ UNCHANGED <<running, armed, ctx, acts, frames>>
    BY <1>5, CodeRuns DEF Miss
  <2>2. CASE ctx.probe = m
    <3>1. probed' = TRUE /\ UNCHANGED <<pending, fault>>
      BY <1>5, <2>2 DEF Miss
    <3>2. Scalars'
      BY <1>0, <2>1, <3>1 DEF Scalars, TypeOK
    <3>3. ctx.probe # None
      BY <2>2, NoneAssumption
    <3> QED BY <2>1, <3>2, <3>3, StaysInFrame
  <2>3. CASE ctx.probe # m
    <3>1. probed' = probed
          /\ Raise(IF ctx.noStack THEN "missingNoStack" ELSE "missing")
      BY <1>5, <2>3 DEF Miss
    <3>2. (IF ctx.noStack THEN "missingNoStack" ELSE "missing") \in Raised
      BY DEF Raised
    <3>3. pending' \in Raised \cup {None} /\ fault' \in BOOLEAN
      BY <1>0, <3>1, <3>2, RaiseTyped
    <3>4. Scalars'
      BY <1>0, <2>1, <3>1, <3>3 DEF Scalars, TypeOK
    <3> QED BY <2>1, <3>1, <3>4, ProbedKept, StaysInFrame
  <2> QED BY <2>2, <2>3
<1>6. ASSUME NEW recursive \in BOOLEAN, NativeCall(recursive) PROVE Step
  <2>1. running /\ UNCHANGED <<running, armed, ctx, probed, acts>> /\ frames' = frames + 1
    BY <1>6, CodeRuns DEF NativeCall
  <2>2. pending' \in Raised \cup {None} /\ fault' \in BOOLEAN
    <3>1. Raise("stackOverflow") \/ UNCHANGED <<pending, fault>>
      BY <1>6 DEF NativeCall
    <3> QED BY <1>0, <3>1, RaiseTyped DEF Raised, TypeOK
  <2>3. Scalars'
    BY <1>0, <2>1, <2>2 DEF Scalars, TypeOK
  <2>4. frames \in Nat /\ frames' \in Nat
    BY <1>0, <2>1 DEF TypeOK
  <2>5. ASSUME acts # <<>> PROVE frames' >= Inner.base + Own(Inner)
    <3>1. /\ frames >= Inner.base + Own(Inner)
          /\ Inner.base \in Nat /\ Own(Inner) \in {0, 1}
      BY <2>5, InnerFacts
    <3> QED BY <2>1, <2>4, <3>1
  <2> QED BY <2>1, <2>3, <2>4, <2>5, ProbedKept, StaysInCode
<1>7. CASE NativeReturn
  <2>1. running /\ UNCHANGED <<running, armed, ctx, probed, acts, pending, fault>>
    BY <1>7, CodeRuns DEF NativeReturn
  <2>2. frames' = frames - 1 /\ frames > Base /\ InCode
    BY <1>7 DEF NativeReturn
  <2>3. Scalars'
    BY <1>0, <2>1 DEF Scalars, TypeOK
  <2>4. frames \in Nat
    BY <1>0 DEF TypeOK
  <2>5. frames' \in Nat
    BY <2>2, <2>4, CodeRuns
  <2>6. ASSUME acts # <<>> PROVE frames' >= Inner.base + Own(Inner)
    <3>1. Own(Inner) = 1 /\ Base = Inner.base + 1 /\ Base \in Nat /\ Inner.base \in Nat
      BY <2>2, <2>6, CodeRuns, InnerFacts
    <3> QED BY <2>2, <2>4, <3>1
  <2> QED BY <2>1, <2>3, <2>5, <2>6, ProbedKept, StaysInCode
<1> QED BY <1>1, <1>2, <1>3, <1>4, <1>5, <1>6, <1>7

\* The lists use is called with are sequences of categories.
LEMMA CategoryListsTyped ==
    ASSUME NEW cats \in CategoryLists
    PROVE  cats \in Seq(Categories) /\ Len(cats) \in Nat
<1>1. CASE cats \in {<<k>> : k \in Categories}
  <2>1. PICK k \in Categories : cats = <<k>>
    BY <1>1
  <2> QED BY <2>1
<1>2. CASE cats \in Categories \X Categories
  <2>1. PICK j \in Categories, k \in Categories : cats = <<j, k>>
    BY <1>2
  <2> QED BY <2>1
<1> QED BY <1>1, <1>2 DEF CategoryLists

\* The calls enter an activation, or raise at the depth limit.
LEMMA CallSteps ==
    ASSUME IInv,
           \/ \E m \in Methods : Probe(m)
           \/ \E clo \in Closures, d \in Receivers \cup {None} :
                 InvokeClosure(clo, d) \/ RunBody(clo, d)
           \/ InvokeSub \/ Sum
           \/ \E r \in Receivers : With(r)
           \/ \E cats \in CategoryLists : Use(cats)
    PROVE  Step
<1>0. TypeOK /\ ctx \in Context /\ probed \in BOOLEAN
  BY DEF IInv, TypeOK
<1>1. ASSUME NEW m \in Methods, Probe(m) PROVE Step
  <2> DEFINE c == [ctx EXCEPT !.probe = m]
  <2>1. c \in Context /\ Undo(Act("probe", FALSE, 0), c) = ctx
    BY <1>0, ProbeUndone
  <2> HIDE DEF c
  <2>2. /\ running /\ ctx' = c /\ acts' = Append(acts, Act("probe", FALSE, 0))
        /\ UNCHANGED <<running, armed, frames, pending, fault>> /\ probed' = FALSE
    BY <1>1, CodeRuns DEF Probe, c
  <2> QED BY <2>1, <2>2, HostStep
<1>2. ASSUME NEW clo \in Closures, NEW d \in Receivers \cup {None},
             InvokeClosure(clo, d) \/ RunBody(clo, d)
      PROVE  Step
  <2> DEFINE c == Entered(ctx, clo, d)
             b == (d # None)
  <2>1. c \in Context /\ Undo(Act("closure", b, 0), c) = ctx /\ c.probe = ctx.probe
    BY <1>0, ClosureUndone
  <2>2. running
    BY <1>2, CodeRuns DEF InvokeClosure, RunBody, Running
  <2>3. b \in BOOLEAN
    OBVIOUS
  <2>4. RunSub(Act("closure", b, 0), c) /\ UNCHANGED <<running, armed, probed>>
    BY <1>2 DEF InvokeClosure, RunBody
  <2> HIDE DEF c, b
  <2> QED BY <2>1, <2>2, <2>3, <2>4, RunSubStep
<1>3. CASE InvokeSub
  <2>1. running /\ RunSub(Act("sub", FALSE, 0), ctx) /\ UNCHANGED <<running, armed, probed>>
    BY <1>3, CodeRuns DEF InvokeSub
  <2>2. PICK b \in BOOLEAN : b = FALSE
    OBVIOUS
  <2>3. RunSub(Act("sub", b, 0), ctx) /\ Undo(Act("sub", b, 0), ctx) = ctx
    BY <2>1, <2>2, SubUndone
  <2> QED BY <1>0, <2>1, <2>3, RunSubStep
<1>4. CASE Sum
  <2> DEFINE c == [ctx EXCEPT !.noStack = TRUE]
  <2>1. c \in Context /\ Undo(Act("sum", FALSE, 0), c) = ctx /\ c.probe = ctx.probe
    BY <1>0, SumUndone
  <2> HIDE DEF c
  <2>2. /\ running /\ ctx' = c /\ acts' = Append(acts, Act("sum", FALSE, 0))
        /\ UNCHANGED <<running, armed, probed, frames, pending, fault>>
    BY <1>4, CodeRuns DEF Sum, c
  <2>3. probed' \in BOOLEAN /\ (c.probe = None => probed' = FALSE)
    BY <1>0, <2>1, <2>2, ProbedKept
  <2> QED BY <2>1, <2>2, <2>3, HostStep
<1>5. ASSUME NEW r \in Receivers, With(r) PROVE Step
  <2> DEFINE c == [ctx EXCEPT !.delegates = Append(@, r)]
  <2>1. c \in Context /\ Undo(Act("with", FALSE, 0), c) = ctx /\ c.probe = ctx.probe
    BY <1>0, WithUndone
  <2> HIDE DEF c
  <2>2. /\ running /\ ctx' = c /\ acts' = Append(acts, Act("with", FALSE, 0))
        /\ UNCHANGED <<running, armed, probed, frames, pending, fault>>
    BY <1>5, CodeRuns DEF With, c
  <2>3. probed' \in BOOLEAN /\ (c.probe = None => probed' = FALSE)
    BY <1>0, <2>1, <2>2, ProbedKept
  <2> QED BY <2>1, <2>2, <2>3, HostStep
<1>6. ASSUME NEW cats \in CategoryLists, Use(cats) PROVE Step
  <2> DEFINE c == [ctx EXCEPT !.categories = @ \o cats]
             n == Len(cats)
  <2>1. c \in Context /\ Undo(Act("use", FALSE, n), c) = ctx /\ c.probe = ctx.probe
    BY <1>0, CategoryListsTyped, UseUndone
  <2>2. n \in Nat
    BY CategoryListsTyped
  <2>3. /\ running /\ ctx' = c /\ acts' = Append(acts, Act("use", FALSE, n))
        /\ UNCHANGED <<running, armed, probed, frames, pending, fault>>
    BY <1>6, CodeRuns DEF Use
  <2> HIDE DEF c, n
  <2>4. probed' \in BOOLEAN /\ (c.probe = None => probed' = FALSE)
    BY <1>0, <2>1, <2>3, ProbedKept
  <2> QED BY <2>1, <2>2, <2>3, <2>4, HostStep
<1> QED BY <1>1, <1>2, <1>3, <1>4, <1>5, <1>6

\* A return leaves the innermost activation; only a probe's changes the probe.
LEMMA ReturnSteps ==
    ASSUME IInv, LeaveClosure \/ LeaveSub \/ LeaveHost \/ LeaveProbe
    PROVE  Step
<1>0. TypeOK /\ ctx \in Context /\ acts # <<>> /\ running /\ UNCHANGED <<running, armed, fault>>
      /\ ctx' = Undo(Inner, ctx) /\ acts' = Front(acts)
  <2>1. acts # <<>> /\ Left
    BY DEF LeaveClosure, LeaveSub, LeaveHost, LeaveProbe
  <2> QED BY <2>1, InnerFacts DEF IInv, TypeOK, Left
<1>1. /\ Inner.base \in Nat /\ Own(Inner) \in {0, 1} /\ frames \in Nat
      /\ frames >= Inner.base + Own(Inner) /\ Inner \in Activation
      /\ Undo(Inner, ctx) = Inner.entry
      /\ Inner.entry.probe = None => Inner.probed = FALSE
  BY <1>0, InnerFacts
<1>2. frames' = Inner.base \/ frames' = frames
  BY DEF LeaveClosure, LeaveSub, LeaveHost, LeaveProbe, Popped
<1>3. frames' \in Nat /\ frames' >= Inner.base
  BY <1>1, <1>2
<1>4. pending' \in Raised \cup {None}
  BY <1>0 DEF LeaveClosure, LeaveSub, LeaveHost, LeaveProbe, Downgraded, TypeOK, Raised
<1>5. probed' \in BOOLEAN /\ (ctx'.probe = None => probed' = FALSE)
  <2>1. CASE Inner.kind = "probe"
    <3>1. probed' = Inner.probed
      BY <2>1 DEF LeaveClosure, LeaveSub, LeaveHost, LeaveProbe
    <3> QED BY <1>0, <1>1, <3>1 DEF Activation
  <2>2. CASE Inner.kind # "probe"
    <3>1. probed' = probed
      BY <2>2 DEF LeaveClosure, LeaveSub, LeaveHost, LeaveProbe
    <3>2. Inner.kind \in {"closure", "sub", "with", "use", "sum"}
      BY <2>2, <1>1 DEF Activation, Kinds
    <3>3. Undo(Inner, ctx).probe = ctx.probe
      BY <1>0, <3>2 DEF Undo, Context
    <3> QED BY <1>0, <3>1, <3>3, ProbedKept DEF TypeOK
  <2> QED BY <2>1, <2>2
<1>6. Scalars'
  BY <1>0, <1>4, <1>5 DEF Scalars, TypeOK
<1>7. Leaves
  <2>1. running'
    BY <1>0 DEF TypeOK
  <2> QED BY <1>0, <1>3, <1>5, <2>1, Zenon DEF Leaves
<1> QED BY <1>6, <1>7, Zenon DEF Step

\* Every step enters, leaves or stays.
LEMMA StepKinds ==
    ASSUME IInv, [Next]_vars
    PROVE  Step
<1>1. CASE UNCHANGED vars
  <2>1. Scalars' /\ frames' \in Nat
    BY <1>1 DEF IInv, TypeOK, Scalars, vars
  <2>2. ctx' = ctx /\ acts' = acts /\ (ctx.probe = None => probed' = FALSE)
    BY <1>1, ProbedKept DEF vars
  <2>3. ~running' => acts = <<>>
    BY <1>1 DEF vars, IInv, Idle, TypeOK
  <2>4. acts # <<>> => frames' >= Inner.base + Own(Inner)
    BY <1>1, InnerFacts DEF vars
  <2>5. Stays
    BY <2>1, <2>2, <2>3, <2>4, Zenon DEF Stays
  <2> QED BY <2>1, <2>5, Zenon DEF Step
<1>2. CASE Next
  BY <1>2, CodeSteps, CallSteps, ReturnSteps, Zenon DEF Next
<1> QED BY <1>1, <1>2

-----------------------------------------------------------------------------
(* The invariant.                                                            *)

\* What an entry and a return do to the chain of contexts.
LEMMA EnterRestores ==
    ASSUME IInv, NEW a, NEW c, Enters(a, c)
    PROVE  Restores'
<1>0. acts \in Seq(Activation) /\ a \in Activation /\ ctx' = c /\ acts' = Append(acts, a)
      /\ a.entry = ctx /\ Undo(a, c) = ctx
  BY DEF IInv, TypeOK, Enters
<1> DEFINE n == Len(acts)
           s == Append(acts, a)
<1>1. /\ n \in Nat /\ Len(s) = n + 1 /\ s[n + 1] = a /\ Last(s) = a /\ s # <<>>
      /\ \A i \in 1..n : s[i] = acts[i]
  BY <1>0, AppendLast
<1> HIDE DEF s
<1>2. acts' = s
  BY <1>0 DEF s
<1>3. Undo(Last(s), c) = Last(s).entry
  BY <1>0, <1>1
<1>4. s[1].entry = Clean
  <2>1. CASE acts = <<>>
    <3>1. n = 0
      BY <2>1
    <3> QED BY <1>0, <1>1, <2>1, <3>1 DEF IInv, Restores
  <2>2. CASE acts # <<>>
    <3>1. 1 \in 1..n
      BY <1>0, <2>2, FrontLast
    <3> QED BY <1>1, <2>2, <3>1 DEF IInv, Restores
  <2> QED BY <2>1, <2>2
<1>5. ASSUME NEW i \in 1..n PROVE Undo(s[i], s[i + 1].entry) = s[i].entry
  <2>1. CASE i = n
    <3>1. acts # <<>>
      BY <2>1
    <3>2. Last(acts) = acts[n] /\ Undo(Last(acts), ctx) = Last(acts).entry
      BY <1>0, <3>1, FrontLast DEF IInv, Restores
    <3> QED BY <1>0, <1>1, <2>1, <3>2
  <2>2. CASE i # n
    <3>1. i \in 1..n - 1 /\ i + 1 \in 1..n
      BY <1>1, <2>2
    <3>2. Undo(acts[i], acts[i + 1].entry) = acts[i].entry
      BY <3>1 DEF IInv, Restores
    <3> QED BY <1>1, <3>1, <3>2
  <2> QED BY <2>1, <2>2
<1>6. Len(s) - 1 = n
  BY <1>1
<1> QED BY <1>0, <1>1, <1>2, <1>3, <1>4, <1>5, <1>6 DEF Restores, Undo

\* A return hands the caller's context on, and the caller can still undo its own.
LEMMA LeaveRestores ==
    ASSUME IInv, Leaves
    PROVE  Restores' /\ ctx' = Inner.entry
<1>0. acts \in Seq(Activation) /\ acts # <<>> /\ ctx' = Inner.entry /\ acts' = Front(acts)
  BY InnerFacts DEF IInv, TypeOK, Leaves
<1> DEFINE n == Len(acts)
           s == Front(acts)
<1>1. /\ n \in Nat \ {0} /\ Len(s) = n - 1 /\ s \in Seq(Activation) /\ Inner = acts[n]
      /\ \A i \in 1..n - 1 : s[i] = acts[i]
  BY <1>0, FrontLast DEF Inner
<1>2. acts' = s
  BY <1>0
<1> HIDE DEF s
<1>3. ASSUME s = <<>> PROVE ctx' = Clean
  <2>1. n = 1
    BY <1>1, <1>3
  <2> QED BY <1>0, <1>1, <2>1 DEF IInv, Restores
<1>4. ASSUME s # <<>>
      PROVE  Undo(Last(s), ctx') = Last(s).entry /\ s[1].entry = Clean
  <2>1. Last(s) = s[n - 1] /\ n - 1 \in 1..n - 1 /\ 1 \in 1..n - 1
    <3>1. Last(s) = s[Len(s)] /\ Len(s) \in Nat \ {0}
      BY <1>1, <1>4, FrontLast
    <3> HIDE DEF n
    <3> QED BY <1>1, <3>1
  <2>2. Undo(acts[n - 1], acts[n - 1 + 1].entry) = acts[n - 1].entry
    BY <2>1 DEF IInv, Restores
  <2>3. n - 1 + 1 = n
    BY <1>1
  <2>4. acts[1].entry = Clean
    BY <1>0 DEF IInv, Restores
  <2> QED BY <1>0, <1>1, <2>1, <2>2, <2>3, <2>4
<1>5. ASSUME NEW i \in 1..Len(s) - 1 PROVE Undo(s[i], s[i + 1].entry) = s[i].entry
  <2>1. i \in 1..n - 1 /\ i + 1 \in 1..n - 1
    BY <1>1
  <2>2. Undo(acts[i], acts[i + 1].entry) = acts[i].entry
    BY <2>1 DEF IInv, Restores
  <2> QED BY <1>1, <2>1, <2>2
<1> QED BY <1>0, <1>2, <1>3, <1>4, <1>5 DEF Restores, Undo

\* The other parts of the invariant when an activation is entered.
LEMMA EnterKeeps ==
    ASSUME IInv, NEW a, NEW c, Enters(a, c), Scalars'
    PROVE  IInv'
<1>0. /\ acts \in Seq(Activation) /\ a \in Activation /\ c \in Context
      /\ ctx' = c /\ acts' = Append(acts, a) /\ running'
      /\ a.entry = ctx /\ a.base = frames /\ a.probed = probed /\ frames' = frames + Own(a)
      /\ frames \in Nat /\ Own(a) \in {0, 1} /\ (Own(a) = 1 => frames < MaxDepth)
      /\ c.probe = None => probed' = FALSE
  BY DEF IInv, TypeOK, Enters, Own
<1> DEFINE n == Len(acts)
           s == Append(acts, a)
<1>1. /\ n \in Nat /\ Len(s) = n + 1 /\ s[n + 1] = a /\ s \in Seq(Activation)
      /\ \A i \in 1..n : s[i] = acts[i]
  BY <1>0, AppendLast
<1> HIDE DEF s
<1>2. acts' = s
  BY <1>0 DEF s
<1>b. \A i \in 1..n : acts[i].base \in Nat /\ Own(acts[i]) \in {0, 1}
  <2>1. \A i \in 1..n : acts[i] \in Activation
    BY <1>0, ElementOfSeq
  <2> QED BY <2>1 DEF Activation, Own
<1> HIDE DEF n
<1>3. TypeOK'
  <2>1. frames' \in Nat
    BY <1>0
  <2> QED BY <1>0, <1>1, <1>2, <2>1 DEF Scalars, TypeOK
<1>4. Restores'
  BY EnterRestores
<1>5. ProbedOnlyUnderProbe'
  <2>1. ASSUME NEW i \in 1..n + 1, s[i].entry.probe = None PROVE s[i].probed = FALSE
    <3>1. CASE i = n + 1
      BY <1>0, <1>1, <2>1, <3>1 DEF IInv, ProbedOnlyUnderProbe
    <3>2. CASE i \in 1..n
      BY <1>1, <2>1, <3>2 DEF IInv, ProbedOnlyUnderProbe, n
    <3>3. i = n + 1 \/ i \in 1..n
      BY <1>1
    <3> QED BY <3>1, <3>2, <3>3, Zenon
  <2> QED BY <1>0, <1>1, <1>2, <2>1 DEF ProbedOnlyUnderProbe
<1>6. FramesNested'
  <2>1. \A i \in 1..n : frames >= acts[i].base + Own(acts[i])
    BY DEF IInv, FramesNested, n
  <2>2. \A i, j \in 1..n : i < j => acts[j].base >= acts[i].base + Own(acts[i])
    BY DEF IInv, FramesNested, n
  <2>3. ASSUME NEW i \in 1..n + 1 PROVE frames' >= s[i].base + Own(s[i])
    <3>1. CASE i = n + 1
      <4>1. s[i] = a
        BY <1>1, <3>1
      <4> QED BY <1>0, <4>1
    <3>2. CASE i \in 1..n
      <4>1. s[i] = acts[i] /\ frames >= acts[i].base + Own(acts[i])
        BY <1>1, <2>1, <3>2
      <4>2. acts[i].base \in Nat /\ Own(acts[i]) \in {0, 1}
        BY <1>b, <3>2
      <4>3. frames' >= frames
        BY <1>0
      <4> QED BY <1>0, <4>1, <4>2, <4>3
    <3> QED BY <1>1, <3>1, <3>2
  <2>4. ASSUME NEW i \in 1..n + 1, NEW j \in 1..n + 1, i < j
        PROVE  s[j].base >= s[i].base + Own(s[i])
    <3>1. i \in 1..n /\ s[i] = acts[i]
      BY <1>1, <2>4
    <3>2. CASE j = n + 1
      BY <1>0, <1>1, <2>1, <3>1, <3>2
    <3>3. CASE j \in 1..n
      BY <1>1, <2>2, <2>4, <3>1, <3>3
    <3> QED BY <1>1, <3>2, <3>3
  <2> QED BY <1>1, <1>2, <2>3, <2>4 DEF FramesNested, Own
<1>7. BelowLimit'
  <2>1. ASSUME NEW i \in 1..n + 1, Own(s[i]) = 1 PROVE s[i].base < MaxDepth
    <3>1. CASE i = n + 1
      BY <1>0, <1>1, <2>1, <3>1
    <3>2. CASE i \in 1..n
      BY <1>1, <2>1, <3>2 DEF IInv, BelowLimit, n
    <3> QED BY <1>1, <3>1, <3>2
  <2> QED BY <1>1, <1>2, <2>1 DEF BelowLimit, Own
<1>8. Idle'
  BY <1>0 DEF Idle
<1> QED BY <1>3, <1>4, <1>5, <1>6, <1>7, <1>8 DEF IInv

\* The same when it is left.
LEMMA LeaveKeeps ==
    ASSUME IInv, Leaves, Scalars'
    PROVE  IInv'
<1>0. /\ acts \in Seq(Activation) /\ acts # <<>> /\ acts' = Front(acts) /\ running'
      /\ frames' \in Nat /\ frames' >= Inner.base
      /\ ctx'.probe = None => probed' = FALSE
  BY DEF IInv, TypeOK, Leaves
<1> DEFINE n == Len(acts)
           s == Front(acts)
<1>1. /\ n \in Nat \ {0} /\ Len(s) = n - 1 /\ s \in Seq(Activation) /\ Inner = acts[n]
      /\ \A i \in 1..n - 1 : s[i] = acts[i]
  BY <1>0, FrontLast DEF Inner
<1>2. acts' = s
  BY <1>0
<1> HIDE DEF s
<1>b. \A i \in 1..n : acts[i].base \in Nat /\ Own(acts[i]) \in {0, 1}
  <2>1. \A i \in 1..n : acts[i] \in Activation
    BY <1>0, ElementOfSeq
  <2> QED BY <2>1 DEF Activation, Own
<1> HIDE DEF n
<1>3. TypeOK'
  <2>1. ctx' \in Context
    BY <1>0, LeaveRestores, InnerFacts
  <2> QED BY <1>0, <1>1, <1>2, <2>1 DEF Scalars, TypeOK
<1>4. Restores'
  BY LeaveRestores
<1>5. ProbedOnlyUnderProbe'
  <2>1. ASSUME NEW i \in 1..n - 1, s[i].entry.probe = None PROVE s[i].probed = FALSE
    <3>1. i \in 1..n
      BY <1>1
    <3> QED BY <1>1, <2>1, <3>1 DEF IInv, ProbedOnlyUnderProbe, n
  <2> QED BY <1>0, <1>1, <1>2, <2>1 DEF ProbedOnlyUnderProbe
<1>6. FramesNested'
  <2>1. \A i, j \in 1..n : i < j => acts[j].base >= acts[i].base + Own(acts[i])
    BY DEF IInv, FramesNested, n
  <2>2. ASSUME NEW i \in 1..n - 1 PROVE frames' >= s[i].base + Own(s[i])
    <3>1. i \in 1..n /\ n \in 1..n /\ i < n
      BY <1>1
    <3>2. acts[n].base >= acts[i].base + Own(acts[i])
      BY <2>1, <3>1
    <3>3. acts[n].base \in Nat /\ acts[i].base \in Nat /\ Own(acts[i]) \in {0, 1}
      BY <1>b, <3>1
    <3>4. frames' \in Nat /\ frames' >= acts[n].base
      BY <1>0, <1>1
    <3>5. s[i] = acts[i]
      BY <1>1
    <3> QED BY <3>2, <3>3, <3>4, <3>5
  <2>3. ASSUME NEW i \in 1..n - 1, NEW j \in 1..n - 1, i < j
        PROVE  s[j].base >= s[i].base + Own(s[i])
    <3>1. i \in 1..n /\ j \in 1..n
      BY <1>1
    <3> QED BY <1>1, <2>1, <2>3, <3>1
  <2> QED BY <1>1, <1>2, <2>2, <2>3 DEF FramesNested, Own
<1>7. BelowLimit'
  <2>1. ASSUME NEW i \in 1..n - 1, Own(s[i]) = 1 PROVE s[i].base < MaxDepth
    <3>1. i \in 1..n
      BY <1>1
    <3> QED BY <1>1, <2>1, <3>1 DEF IInv, BelowLimit, n
  <2> QED BY <1>1, <1>2, <2>1 DEF BelowLimit, Own
<1>8. Idle'
  BY <1>0 DEF Idle
<1> QED BY <1>3, <1>4, <1>5, <1>6, <1>7, <1>8 DEF IInv

\* The same when the innermost activation goes on.
LEMMA StayKeeps ==
    ASSUME IInv, Stays, Scalars'
    PROVE  IInv'
<1>0. /\ ctx' = ctx /\ acts' = acts /\ frames' \in Nat
      /\ acts # <<>> => frames' >= Inner.base + Own(Inner)
      /\ ctx.probe = None => probed' = FALSE
      /\ ~running' => acts = <<>>
  BY Zenon DEF Stays
<1>1. acts \in Seq(Activation) /\ Len(acts) \in Nat
      /\ \A i \in 1..Len(acts) : acts[i].base \in Nat /\ Own(acts[i]) \in {0, 1}
  <2>1. acts \in Seq(Activation) /\ \A i \in 1..Len(acts) : acts[i] \in Activation
    BY ElementOfSeq DEF IInv, TypeOK
  <2> QED BY <2>1 DEF Activation, Own
<1>3. TypeOK'
  BY <1>0 DEF Scalars, TypeOK, IInv
<1>4. Restores' /\ BelowLimit'
  BY <1>0 DEF IInv, Restores, BelowLimit, Undo, Own
<1>5. ProbedOnlyUnderProbe'
  BY <1>0 DEF IInv, ProbedOnlyUnderProbe
<1>6. FramesNested'
  <2>1. \A i, j \in 1..Len(acts) : i < j => acts[j].base >= acts[i].base + Own(acts[i])
    BY DEF IInv, FramesNested
  <2>2. ASSUME NEW i \in 1..Len(acts) PROVE frames' >= acts[i].base + Own(acts[i])
    <3>1. acts # <<>>
      BY <1>1
    <3>2. Inner = acts[Len(acts)] /\ frames' >= Inner.base + Own(Inner)
      BY <1>0, <3>1, InnerFacts
    <3>3. CASE i = Len(acts)
      BY <3>2, <3>3
    <3>4. CASE i # Len(acts)
      <4>1. i < Len(acts) /\ Len(acts) \in 1..Len(acts)
        BY <1>1, <3>4
      <4>2. acts[Len(acts)].base >= acts[i].base + Own(acts[i])
        BY <2>1, <4>1
      <4> QED BY <1>0, <1>1, <3>2, <4>1, <4>2
    <3> QED BY <3>3, <3>4
  <2> QED BY <1>0, <2>1, <2>2 DEF FramesNested, Own
<1>7. Idle'
  BY <1>0 DEF Idle
<1> QED BY <1>3, <1>4, <1>5, <1>6, <1>7 DEF IInv

\* A thread starts with clean cells and nothing running.
LEMMA InitInvariant == Init => IInv
<1> SUFFICES ASSUME Init PROVE IInv
  OBVIOUS
<1>1. /\ acts = <<>> /\ Len(acts) = 0 /\ acts \in Seq(Activation) /\ ctx = Clean
      /\ running = FALSE /\ armed = FALSE /\ probed = FALSE /\ fault = FALSE
      /\ frames = 0 /\ pending = None
  BY DEF Init
<1>2. Clean \in Context
  BY DEF Clean, Context
<1>3. TypeOK
  BY <1>1, <1>2 DEF TypeOK
<1>4. Restores /\ ProbedOnlyUnderProbe /\ FramesNested /\ BelowLimit /\ Idle
  BY <1>1 DEF Restores, ProbedOnlyUnderProbe, FramesNested, BelowLimit, Idle
<1> QED BY <1>3, <1>4 DEF IInv

\* No step of any call, return, exception or fault breaks the invariant.
LEMMA NextInvariant == IInv /\ [Next]_vars => IInv'
<1> SUFFICES ASSUME IInv, [Next]_vars PROVE IInv'
  OBVIOUS
<1>1. Scalars' /\ ((\E a, c : Enters(a, c)) \/ Leaves \/ Stays)
  BY StepKinds, Zenon DEF Step
<1> QED BY <1>1, EnterKeeps, LeaveKeeps, StayKeeps

\* Throughout every run the chain of contexts can be undone, frames nest and
\* nested runs are below the limit.
THEOREM Invariant == Spec => []IInv
<1>1. Init => IInv
  BY InitInvariant
<1>2. IInv /\ [Next]_vars => IInv'
  BY NextInvariant
<1> QED BY <1>1, <1>2, PTL DEF Spec

\* The cells, the activations and the exception in flight keep their types.
THEOREM TypeCorrect == Spec => []TypeOK
<1>1. IInv => TypeOK
  BY DEF IInv
<1> QED BY <1>1, Invariant, PTL

\* When no host call is active the cells are as in a new thread, so reset_heap
\* can leave them alone.
THEOREM ResidueFree == Spec => []NoResidue
<1>1. IInv => NoResidue
  <2> SUFFICES ASSUME IInv, acts = <<>> PROVE ctx = Clean /\ probed = FALSE
    BY DEF NoResidue
  <2>1. ctx = Clean
    BY DEF IInv, Restores
  <2> QED BY <2>1 DEF IInv, ProbedOnlyUnderProbe, Clean
<1> QED BY <1>1, Invariant, PTL

\* A nested run's frame is on the machine's stack, above its caller's, for as
\* long as it runs.
THEOREM FramesStayNested == Spec => []FramesNested
<1>1. IInv => FramesNested
  BY DEF IInv
<1> QED BY <1>1, Invariant, PTL

\* MAX_CALL_DEPTH bounds the nested VM::run calls on the Rust stack: each one
\* began at a different frame count below the limit.
THEOREM DepthLimited == Spec => []RustStackBounded
<1>1. IInv => RustStackBounded
  <2> SUFFICES ASSUME IInv PROVE RustStackBounded
    OBVIOUS
  <2> DEFINE base == [i \in Nested |-> acts[i].base]
             S == 0..MaxDepth - 1
  <2>1. acts \in Seq(Activation) /\ Len(acts) \in Nat /\ MaxDepth \in Nat
    BY LenProperties, DepthAssumption DEF IInv, TypeOK
  <2>2. ASSUME NEW i \in Nested
        PROVE  i \in 1..Len(acts) /\ Own(acts[i]) = 1 /\ acts[i].base \in S
    <3>1. i \in 1..Len(acts) /\ Own(acts[i]) = 1
      BY DEF Nested, Own
    <3>2. acts[i].base \in Nat
      <4>1. acts[i] \in Activation
        BY <2>1, <3>1, ElementOfSeq
      <4> QED BY <4>1 DEF Activation
    <3>3. acts[i].base < MaxDepth
      BY <3>1 DEF IInv, BelowLimit
    <3> QED BY <2>1, <3>1, <3>2, <3>3
  <2>3. base \in [Nested -> S]
    BY <2>2
  <2>4. ASSUME NEW i \in Nested, NEW j \in Nested, base[i] = base[j] PROVE i = j
    <3>1. /\ i \in 1..Len(acts) /\ Own(acts[i]) = 1 /\ acts[i].base \in Nat
          /\ j \in 1..Len(acts) /\ Own(acts[j]) = 1 /\ acts[j].base \in Nat
          /\ acts[i].base = acts[j].base
      BY <2>1, <2>2, <2>4
    <3>2. ~(i < j)
      BY <3>1 DEF IInv, FramesNested
    <3>3. ~(j < i)
      BY <3>1 DEF IInv, FramesNested
    <3> QED BY <2>1, <3>1, <3>2, <3>3
  <2>5. base \in Injection(Nested, S)
    BY <2>3, <2>4 DEF Injection, IsInjective
  <2>6. IsFiniteSet(S) /\ Cardinality(S) = MaxDepth
    <3>1. 0 \in Int /\ MaxDepth - 1 \in Int
      BY <2>1
    <3>2. IsFiniteSet(0..MaxDepth - 1) /\ Cardinality(0..MaxDepth - 1)
            = IF 0 > MaxDepth - 1 THEN 0 ELSE MaxDepth - 1 - 0 + 1
      BY <3>1, FS_Interval
    <3> QED BY <2>1, <3>2
  <2>7. Cardinality(Nested) <= Cardinality(S)
    BY <2>5, <2>6, FS_Injection
  <2> QED BY <2>6, <2>7 DEF RustStackBounded
<1> QED BY <1>1, Invariant, PTL

-----------------------------------------------------------------------------
(* Dynamic scope.                                                            *)

Entries(s) == [i \in 1..Len(s) |-> s[i].entry]

\* An entry hands the running context to the callers, a return takes the last
\* caller's back, and every other step leaves both alone.
LEMMA StepScoped ==
    ASSUME IInv, [Next]_vars
    PROVE  [Scope!Next]_<<ctx, Entries(acts)>>
<1>0. acts \in Seq(Activation) /\ Len(acts) \in Nat /\ Entries(acts) \in Seq(Context)
  <2>1. acts \in Seq(Activation) /\ Len(acts) \in Nat
        /\ \A i \in 1..Len(acts) : acts[i] \in Activation
    BY LenProperties, ElementOfSeq DEF IInv, TypeOK
  <2>2. \A i \in 1..Len(acts) : acts[i].entry \in Context
    BY <2>1 DEF Activation
  <2> QED BY <2>1, <2>2 DEF Entries
<1>1. Scalars' /\ ((\E a, c : Enters(a, c)) \/ Leaves \/ Stays)
  BY StepKinds, Zenon DEF Step
<1>2. ASSUME NEW a, NEW c, Enters(a, c) PROVE Scope!Call
  <2>1. /\ a \in Activation /\ c \in Context /\ a.entry = ctx
        /\ ctx' = c /\ acts' = Append(acts, a)
    BY <1>2 DEF Enters
  <2>2. ctx \in Context
    BY DEF IInv, TypeOK
  <2>3. /\ Len(Append(acts, a)) = Len(acts) + 1 /\ Append(acts, a)[Len(acts) + 1] = a
        /\ \A i \in 1..Len(acts) : Append(acts, a)[i] = acts[i]
    BY <1>0, <2>1, AppendLast
  <2>4. Entries(Append(acts, a)) = Append(Entries(acts), ctx)
    BY <1>0, <2>1, <2>2, <2>3 DEF Entries
  <2> QED BY <2>1, <2>4 DEF Scope!Call, Entries
<1>3. CASE Leaves
  <2>1. acts # <<>> /\ acts' = Front(acts) /\ ctx' = Inner.entry
    BY <1>3, LeaveRestores DEF Leaves
  <2>2. /\ Len(acts) \in Nat \ {0} /\ Len(Front(acts)) = Len(acts) - 1
        /\ Inner = acts[Len(acts)] /\ \A i \in 1..Len(acts) - 1 : Front(acts)[i] = acts[i]
    BY <1>0, <2>1, FrontLast DEF Inner
  <2>3. Entries(acts) # <<>> /\ Len(Entries(acts)) = Len(acts)
    BY <1>0, <2>2 DEF Entries
  <2>4. /\ Last(Entries(acts)) = Entries(acts)[Len(acts)]
        /\ Len(Front(Entries(acts))) = Len(acts) - 1 /\ Front(Entries(acts)) \in Seq(Context)
        /\ \A i \in 1..Len(acts) - 1 : Front(Entries(acts))[i] = Entries(acts)[i]
    BY <1>0, <2>3, FrontLast
  <2>5. Last(Entries(acts)) = ctx'
    BY <2>1, <2>2, <2>4 DEF Entries
  <2>6. Entries(Front(acts)) = Front(Entries(acts))
    <3>1. \A i \in 1..Len(acts) - 1 :
            i \in 1..Len(acts) /\ Front(acts)[i].entry \in Context
      <4> SUFFICES ASSUME NEW i \in 1..Len(acts) - 1
                   PROVE  i \in 1..Len(acts) /\ acts[i].entry \in Context
        BY <2>2
      <4>1. i \in 1..Len(acts)
        BY <2>2
      <4>2. acts[i] \in Activation
        BY <1>0, <4>1, ElementOfSeq
      <4> QED BY <4>1, <4>2 DEF Activation
    <3>2. /\ Entries(Front(acts)) \in Seq(Context)
          /\ Len(Entries(Front(acts))) = Len(acts) - 1
          /\ \A i \in 1..Len(acts) - 1 : Entries(Front(acts))[i] = acts[i].entry
      BY <2>2, <3>1 DEF Entries
    <3>3. \A i \in 1..Len(acts) - 1 : Entries(acts)[i] = acts[i].entry
      BY <2>2, <3>1 DEF Entries
    <3> QED BY <2>4, <3>2, <3>3, SeqEqual
  <2>7. Entries(acts') = Front(Entries(acts))
    BY <2>1, <2>6
  <2>8. /\ Scope!Last(Entries(acts)) = Last(Entries(acts))
        /\ Scope!Front(Entries(acts)) = Front(Entries(acts))
    BY DEF Scope!Last, Scope!Front, Last, Front
  <2>9. Scope!Return
    BY <2>3, <2>5, <2>7, <2>8, Zenon DEF Scope!Return, Entries
  <2> QED BY <2>9 DEF Scope!Next
<1>4. CASE Stays
  BY <1>4, Zenon DEF Stays, Entries
<1> QED BY <1>1, <1>2, <1>3, <1>4 DEF Scope!Next, Entries

\* The thread-locals give dynamic scope: every run of the host is a run of
\* DynamicScope, under the map that takes the cells to the environment and
\* the contexts activations were entered in to the callers.
THEOREM ScopeRefines == Spec => ScopesRestored
<1>1. Init => Scope!Init
  <2> SUFFICES ASSUME Init PROVE ctx = Clean /\ Entries(acts) = <<>>
    BY DEF Scope!Init, Entries
  <2> QED BY DEF Init, Entries
<1>2. IInv /\ [Next]_vars => [Scope!Next]_<<ctx, Entries(acts)>>
  BY StepScoped
<1>3. Entries(acts) = [i \in 1..Len(acts) |-> acts[i].entry]
  BY DEF Entries
<1> QED BY <1>1, <1>2, <1>3, Invariant, PTL DEF Spec, ScopesRestored, Scope!Spec, Entries

=============================================================================
