-------------------------- MODULE IterationProofs --------------------------
(***************************************************************************)
(* The methods that run a closure, for any receivers, closures and bounds: *)
(* a raise ends the walk, what a closure put into its map stays there, and *)
(* a number loop runs for the values a counting loop would.                *)
(***************************************************************************)
EXTENDS WalkLaws, CommonLemmas, FiniteSetTheorems

Walks == ListWalks \cup MapWalks \cup NumberWalks

\* A sequence keeps its elements when one is appended.
LEMMA Longer ==
    ASSUME NEW s, IsSequence(s), NEW x
    PROVE  /\ Len(s) \in Nat /\ DOMAIN s = 1 .. Len(s)
           /\ IsSequence(Append(s, x)) /\ Len(Append(s, x)) = Len(s) + 1
           /\ DOMAIN Append(s, x) = 1 .. Len(s) + 1
           /\ \A i \in 1 .. Len(s) : Append(s, x)[i] = s[i]
           /\ Append(s, x)[Len(s) + 1] = x
<1> DEFINE S == {s[i] : i \in DOMAIN s} \cup {x}
           t == Append(s, x)
<1>1. s \in Seq(S) /\ x \in S
  <2>1. s \in Seq({s[i] : i \in DOMAIN s})
    BY DEF IsSequence
  <2>2. Len(s) \in Nat /\ DOMAIN s = 1 .. Len(s)
    BY <2>1, LenProperties
  <2> QED BY <2>1, <2>2, SeqDef
<1> HIDE DEF S
<1>2. /\ Len(s) \in Nat /\ DOMAIN s = 1 .. Len(s)
      /\ t \in Seq(S) /\ Len(t) = Len(s) + 1 /\ DOMAIN t = 1 .. Len(s) + 1
      /\ \A i \in 1 .. Len(s) : t[i] = s[i]
      /\ t[Len(s) + 1] = x
  BY <1>1, AppendProperties, LenProperties
<1>3. t \in Seq({t[i] : i \in DOMAIN t})
  <2> HIDE DEF t
  <2>1. t = [i \in 1 .. Len(t) |-> t[i]]
    BY <1>2, LenProperties
  <2> QED BY <1>2, <2>1, SeqDef
<1> QED BY <1>2, <1>3 DEF IsSequence

\* An empty sequence is one.
LEMMA EmptyIs == IsSequence(<<>>) /\ Len(<<>>) = 0 /\ DOMAIN <<>> = {}
BY DEF IsSequence

-----------------------------------------------------------------------------
\* What the walk has of the call that began it.
Fixed == {"kind", "method", "clo", "plain", "from", "lo", "hi", "to", "by", "fraction", "key", "value"}
Began(w) ==
    /\ DOMAIN walk = WalkFields /\ walk.copied = w.items /\ walk.items \in Snapshots(w)
    /\ \A f \in Fixed : walk[f] = w[f]

Refused == pending = HostRaised /\ closureCalls = <<>> /\ answer = Null
\* A walk that does not order elements ended with its last call, or no call
\* of it raised.
Raised == pending = Asked /\ Asked # 0 /\ answer = Null /\ \A i \in DOMAIN closureCalls : closureCalls[i].raises => i = Asked
Unraised == pending = 0 /\ \A i \in DOMAIN closureCalls : ~closureCalls[i].raises

WalkInv ==
    /\ IsSequence(closureCalls)
    /\ walk = NoWalk => closureCalls = <<>> /\ pending = 0 /\ answer = Unanswered
    /\ walk # NoWalk => Refused \/ \E w \in Walks : Began(w)
    /\ (walk # NoWalk /\ walk.method \notin Orderings) => Refused \/ Raised \/ Unraised

\* The walks there are have the fields of one.
LEMMA WalksAre ==
    ASSUME NEW w \in Walks
    PROVE  DOMAIN w = WalkFields /\ IsSequence(w.items) /\ w # NoWalk
<1>1. DOMAIN w = WalkFields /\ IsSequence(w.items)
  BY WalksAssumption DEF Walks
<1>2. "items" \in DOMAIN w /\ "items" \notin DOMAIN NoWalk
  BY <1>1 DEF WalkFields, NoWalk
<1> QED BY <1>1, <1>2

\* A method begins over its snapshot, refuses, or answers without a closure.
LEMMA CallBegins ==
    ASSUME WalkInv, NEW w \in Walks, StartWalk(w)
    PROVE  /\ closureCalls' = <<>> /\ receiver' = w.items
           /\ \/ Refused' /\ walk' # NoWalk
              \/ /\ walk' # NoWalk /\ pending' = 0
                 /\ Began(w)'
                 /\ answer' = Unanswered \/ w.plain
<1>1. walk = NoWalk /\ pending = 0 /\ answer = Unanswered /\ closureCalls' = <<>> /\ receiver' = w.items
  BY DEF WalkInv, StartWalk
<1>2. DOMAIN w = WalkFields /\ w # NoWalk
  BY WalksAre
<1>3. CASE RefusesCall(w)
  BY <1>1, <1>2, <1>3 DEF StartWalk, Refused
<1>4. CASE ~RefusesCall(w)
  <2>1. PICK its \in Snapshots(w) : walk' = [w EXCEPT !.items = its, !.copied = w.items, !.seed = Seed(w)]
    BY <1>4 DEF StartWalk
  <2>2. /\ DOMAIN walk' = WalkFields /\ walk'.items = its /\ walk'.copied = w.items
        /\ \A f \in Fixed : walk'[f] = w[f]
    <3> DEFINE s == Seed(w)
    <3> HIDE DEF s
    <3>1. walk' = [w EXCEPT !.items = its, !.copied = w.items, !.seed = s]
      BY <2>1 DEF s
    <3> QED BY <1>2, <3>1 DEF WalkFields, Fixed
  <2>3. walk' # NoWalk
    <3>1. "items" \in DOMAIN walk' /\ "items" \notin DOMAIN NoWalk
      BY <2>2 DEF WalkFields, NoWalk
    <3> QED BY <3>1
  <2>4. pending' = 0 /\ (answer' = Unanswered \/ w.plain)
    BY <1>1, <1>4 DEF StartWalk
  <2> QED BY <1>1, <2>1, <2>2, <2>3, <2>4 DEF Began
<1> QED BY <1>3, <1>4

\* A call of the closure is the next one.
LEMMA CallsOn ==
    ASSUME WalkInv, NEW v, NEW raises \in BOOLEAN, NEW puts \in BOOLEAN, Calls(v, raises, puts)
    PROVE  /\ walk # NoWalk /\ answer = Unanswered /\ walk' = walk
           /\ ~Refused /\ (walk.method \notin Orderings => Unraised)
           /\ NextArgs # <<>> /\ Asked < MaxAsked
           /\ IsSequence(closureCalls) /\ IsSequence(closureCalls') /\ Asked \in Nat /\ Asked' = Asked + 1
           /\ DOMAIN closureCalls = 1 .. Asked /\ DOMAIN closureCalls' = 1 .. Asked + 1
           /\ \A i \in 1 .. Asked : closureCalls'[i] = closureCalls[i]
           /\ closureCalls'[Asked + 1] = [args |-> NextArgs, says |-> v, raises |-> raises, puts |-> puts]
<1> DEFINE c == [args |-> NextArgs, says |-> v, raises |-> raises, puts |-> puts]
<1>1. /\ walk # NoWalk /\ answer = Unanswered /\ walk' = walk /\ NextArgs # <<>> /\ Len(closureCalls) < MaxAsked
      /\ closureCalls' = Append(closureCalls, c)
  BY DEF Calls, Running
<1>2. IsSequence(closureCalls)
  BY DEF WalkInv
<1>3. answer # Null
  BY <1>1 DEF Unanswered, Null
<1>4. ~Refused /\ (walk.method \notin Orderings => Unraised)
  BY <1>1, <1>3 DEF WalkInv, Refused, Raised
<1> HIDE DEF c
<1>5. /\ Len(closureCalls) \in Nat /\ DOMAIN closureCalls = 1 .. Len(closureCalls) /\ IsSequence(closureCalls')
      /\ Len(closureCalls') = Len(closureCalls) + 1 /\ DOMAIN closureCalls' = 1 .. Len(closureCalls) + 1
      /\ \A i \in 1 .. Len(closureCalls) : closureCalls'[i] = closureCalls[i]
      /\ closureCalls'[Len(closureCalls) + 1] = c
  BY <1>1, <1>2, Longer
<1> QED BY <1>1, <1>2, <1>4, <1>5 DEF Asked, c

\* A step of the walk keeps what it has of its call.
LEMMA BeganStays ==
    ASSUME WalkInv, walk # NoWalk, ~Refused, walk' = walk
    PROVE  walk' # NoWalk /\ \E w \in Walks : Began(w) /\ Began(w)'
BY DEF WalkInv, Began

\* A call of the closure that does not raise.
LEMMA AnsweredKeepsWalkInv ==
    ASSUME WalkInv, NEW v, NEW puts \in BOOLEAN, Calls(v, FALSE, puts), answer' = answer,
           walk.method \notin Orderings => pending' = pending
    PROVE  WalkInv'
<1>1. /\ walk # NoWalk /\ answer = Unanswered /\ walk' = walk /\ ~Refused /\ (walk.method \notin Orderings => Unraised)
      /\ IsSequence(closureCalls') /\ Asked \in Nat /\ DOMAIN closureCalls = 1 .. Asked /\ DOMAIN closureCalls' = 1 .. Asked + 1
      /\ \A i \in 1 .. Asked : closureCalls'[i] = closureCalls[i]
      /\ closureCalls'[Asked + 1].raises = FALSE
  <2> DEFINE no == FALSE
  <2>1. no \in BOOLEAN /\ Calls(v, no, puts)
    OBVIOUS
  <2> HIDE DEF no
  <2>2. closureCalls'[Asked + 1].raises = no
    <3>1. closureCalls'[Asked + 1] = [args |-> NextArgs, says |-> v, raises |-> no, puts |-> puts]
      BY <2>1, CallsOn, Zenon
    <3> QED BY <3>1
  <2> QED BY <2>1, <2>2, CallsOn DEF no
<1>2. walk' # NoWalk /\ \E w \in Walks : Began(w)'
  BY <1>1, BeganStays
<1>3. walk.method \notin Orderings => Unraised'
  <2> SUFFICES ASSUME walk.method \notin Orderings PROVE Unraised'
    OBVIOUS
  <2>1. pending' = 0 /\ \A i \in 1 .. Asked : ~closureCalls[i].raises
    BY <1>1 DEF Unraised
  <2>2. \A i \in 1 .. Asked + 1 : i \in 1 .. Asked \/ i = Asked + 1
    BY <1>1
  <2> QED BY <1>1, <2>1, <2>2 DEF Unraised
<1> QED BY <1>1, <1>2, <1>3 DEF WalkInv

\* Each step keeps the invariant of walks.
LEMMA NextKeepsWalkInv == WalkInv /\ [IterationNext]_walkVars => WalkInv'
<1> SUFFICES ASSUME WalkInv, [IterationNext]_walkVars PROVE WalkInv'
  OBVIOUS
<1>1. ASSUME NEW w \in Walks, StartWalk(w) PROVE WalkInv'
  <2>1. closureCalls' = <<>> /\ walk' # NoWalk
    BY <1>1, CallBegins
  <2>2. IsSequence(closureCalls')
    BY <2>1, EmptyIs
  <2>3. CASE Refused'
    BY <2>1, <2>2, <2>3 DEF WalkInv
  <2>4. CASE pending' = 0 /\ Began(w)'
    <3>1. Unraised'
      BY <2>1, <2>4 DEF Unraised
    <3> QED BY <2>1, <2>2, <2>4, <3>1 DEF WalkInv
  <2> QED BY <1>1, <2>3, <2>4, CallBegins
<1>2. CASE Returns
  <2>1. PICK v \in MayAnswer : Calls(v, FALSE, FALSE) /\ pending' = pending /\ answer' = answer
    BY <1>2 DEF Returns
  <2> QED BY <2>1, AnsweredKeepsWalkInv
<1>3. CASE Puts
  <2>1. PICK v \in MayAnswer : Calls(v, FALSE, TRUE) /\ pending' = pending /\ answer' = answer
    BY <1>3 DEF Puts
  <2> QED BY <2>1, AnsweredKeepsWalkInv
<1>4. CASE Raises
  <2>1. /\ Calls(Null, TRUE, FALSE) /\ pending' = Len(closureCalls) + 1
        /\ walk.method \notin Orderings => answer' = Null
    BY <1>4 DEF Raises, ChecksPending
  <2>2. /\ walk # NoWalk /\ walk' = walk /\ ~Refused /\ (walk.method \notin Orderings => Unraised)
        /\ IsSequence(closureCalls') /\ Asked \in Nat /\ Asked' = Asked + 1 /\ DOMAIN closureCalls = 1 .. Asked /\ DOMAIN closureCalls' = 1 .. Asked + 1
        /\ \A i \in 1 .. Asked : closureCalls'[i] = closureCalls[i]
    BY <2>1, CallsOn
  <2>3. walk' # NoWalk /\ \E w \in Walks : Began(w)'
    BY <2>2, BeganStays
  <2>4. walk.method \notin Orderings => Raised'
    <3> SUFFICES ASSUME walk.method \notin Orderings PROVE Raised'
      OBVIOUS
    <3>1. \A i \in 1 .. Asked : ~closureCalls'[i].raises
      BY <2>2 DEF Unraised
    <3>2. \A i \in 1 .. Asked + 1 : i \in 1 .. Asked \/ i = Asked + 1
      BY <2>2
    <3>3. pending' = Asked' /\ Asked' # 0
      BY <2>1, <2>2 DEF Asked
    <3> QED BY <2>1, <2>2, <3>1, <3>2, <3>3 DEF Raised
  <2> QED BY <2>2, <2>3, <2>4 DEF WalkInv
<1>5. CASE Unwinds
  <2>1. pending # 0 /\ Calls(Null, FALSE, FALSE) /\ pending' = pending /\ answer' = answer
    BY <1>5 DEF Unwinds
  <2> QED BY <2>1, AnsweredKeepsWalkInv
<1>6. CASE Catches
  <2>1. PICK v \in MayAnswer : pending # 0 /\ Calls(v, FALSE, FALSE) /\ answer' = answer
    BY <1>6 DEF Catches
  <2>2. walk.method \in Orderings
    BY <2>1, CallsOn DEF Unraised
  <2> QED BY <2>1, <2>2, AnsweredKeepsWalkInv
<1>7. CASE Ends
  <2>1. walk # NoWalk /\ answer = Unanswered /\ walk' = walk /\ closureCalls' = closureCalls /\ pending' = pending
    BY <1>7 DEF Ends, Running
  <2>2. ~Refused /\ ~Raised
    BY <2>1 DEF Refused, Raised, Unanswered, Null
  <2>3. walk' # NoWalk /\ \E w \in Walks : Began(w)'
    BY <2>1, <2>2, BeganStays
  <2>4. Unraised => Unraised'
    BY <2>1 DEF Unraised
  <2> QED BY <2>1, <2>2, <2>3, <2>4 DEF WalkInv
<1>8. CASE UNCHANGED walkVars
  BY <1>8 DEF walkVars, WalkInv, Refused, Raised, Unraised, Asked, Began
<1> QED BY <1>1, <1>2, <1>3, <1>4, <1>5, <1>6, <1>7, <1>8 DEF IterationNext, Walks

-----------------------------------------------------------------------------
\* A number is wrapped into the longs, and a long stays as it is.
LEMMA WrapIs ==
    ASSUME NEW half \in Nat \ {0}, NEW n \in Int
    PROVE  /\ Wrap(n, half) \in -half .. half - 1
           /\ n \in -half .. half - 1 => Wrap(n, half) = n
<1> DEFINE c == 2 * half
           a == n + half
<1>1. c \in Nat \ {0} /\ a \in Int
  OBVIOUS
<1>2. (a % c) \in 0 .. c - 1
  <2> HIDE DEF a, c
  <2> QED BY <1>1
<1>3. a \in 0 .. c - 1 => (a % c) = a
  <2> SUFFICES ASSUME a \in 0 .. c - 1 PROVE (a % c) = a
    OBVIOUS
  <2> HIDE DEF a, c
  <2> DEFINE zero == 0
  <2>1. zero \in Nat /\ c * zero = 0
    BY <1>1
  <2> HIDE DEF zero
  <2>2. (c * zero + a) % c = a
    BY <1>1, <2>1, RemainderIs
  <2>3. c * zero + a = a
    BY <1>1, <2>1
  <2> QED BY <2>2, <2>3
<1>4. Wrap(n, half) = (a % c) - half
  BY DEF Wrap
<1>5. n \in -half .. half - 1 => a \in 0 .. c - 1
  OBVIOUS
<1> DEFINE m == a % c
<1>6. m \in 0 .. c - 1 /\ Wrap(n, half) = m - half /\ (n \in -half .. half - 1 => m = a)
  BY <1>2, <1>3, <1>4, <1>5
<1> HIDE DEF m
<1> QED BY <1>6

\* The walk of a number loop.
IsNumberWalk ==
    /\ walk.kind = "number" /\ walk.method \in {"times", "upto", "downto", "step"}
    /\ walk.from \in Int /\ walk.to \in Int /\ walk.by \in Int /\ (walk.method = "step" => walk.by # 0)
    /\ IF walk.fraction THEN walk.method = "step" ELSE {walk.from, walk.to} \subseteq -LongHalf .. LongHalf - 1

\* A number loop's walk is one, whatever call of the script's it is.
LEMMA NumberFields ==
    ASSUME WalkInv, walk # NoWalk, ~Refused, walk.kind = "number"
    PROVE  IsNumberWalk /\ walk.method \notin Orderings /\ (\E w \in NumberWalks : Began(w))
<1>1. PICK w \in Walks : Began(w)
  BY DEF WalkInv
<1>2. w.kind = "number" /\ w \in NumberWalks
  BY <1>1, WalksAssumption DEF Began, Fixed, Walks
<1>3. /\ walk.kind = w.kind /\ walk.method = w.method /\ walk.from = w.from /\ walk.to = w.to /\ walk.by = w.by
      /\ walk.fraction = w.fraction
  BY <1>1 DEF Began, Fixed
<1>4. IsNumberWalk
  BY <1>2, <1>3, WalksAssumption DEF IsNumberWalk
<1> QED BY <1>1, <1>2, <1>4 DEF IsNumberWalk, Orderings

Stride == IF walk.method = "times" THEN 1 ELSE IF walk.method = "step" THEN walk.by ELSE IF walk.method = "upto" THEN 1 ELSE -1

\* A number loop goes by its stride, and is once out of its span for good.
LEMMA ValueIs ==
    ASSUME IsNumberWalk, NEW n \in Nat
    PROVE  /\ Value(n) \in Int /\ Value(n + 1) = Value(n) + Stride
           /\ Value(0) = IF walk.method = "times" THEN 0 ELSE walk.from
           /\ InSpan(Value(n + 1)) => InSpan(Value(n))
<1>1. Value(n) \in Int /\ Value(n + 1) = Value(n) + Stride
  <2>1. CASE walk.method = "step"
    <3> DEFINE by == walk.by
    <3>1. by \in Int /\ walk.from \in Int
      BY DEF IsNumberWalk
    <3>2. n * by \in Int /\ (n + 1) * by = n * by + by
      <4> HIDE DEF by
      <4> QED BY <3>1
    <3>3. Value(n) = walk.from + n * by /\ Value(n + 1) = walk.from + (n + 1) * by /\ Stride = by
      BY <2>1 DEF Value, Stride
    <3> DEFINE p == n * by
               q == (n + 1) * by
    <3>4. p \in Int /\ q = p + by /\ Value(n) = walk.from + p /\ Value(n + 1) = walk.from + q /\ Stride = by
      BY <3>2, <3>3
    <3> HIDE DEF p, q, by
    <3> QED BY <3>1, <3>4
  <2>2. CASE walk.method # "step"
    BY <2>2 DEF Value, Stride, IsNumberWalk
  <2> QED BY <2>1, <2>2
<1>2. Value(0) = IF walk.method = "times" THEN 0 ELSE walk.from
  BY DEF Value, IsNumberWalk
<1>3. InSpan(Value(n + 1)) => InSpan(Value(n))
  <2> DEFINE v == Value(n)
             u == Value(n + 1)
             limit == Wrap(walk.from, IntHalf)
  <2>1. v \in Int /\ u = v + Stride /\ limit \in Int /\ walk.to \in Int
    <3>1. limit \in Int
      BY WrapIs, WalksAssumption DEF IsNumberWalk
    <3> QED BY <1>1, <3>1 DEF IsNumberWalk
  <2>2. /\ walk.method = "times" => Stride = 1 /\ (InSpan(u) <=> u < limit) /\ (InSpan(v) <=> v < limit)
        /\ walk.method = "upto" => Stride = 1 /\ (InSpan(u) <=> u <= walk.to) /\ (InSpan(v) <=> v <= walk.to)
        /\ walk.method = "downto" => Stride = -1 /\ (InSpan(u) <=> u >= walk.to) /\ (InSpan(v) <=> v >= walk.to)
        /\ walk.method = "step" => /\ Stride = walk.by
                                   /\ InSpan(u) <=> IF walk.by > 0 THEN u < walk.to ELSE u > walk.to
                                   /\ InSpan(v) <=> IF walk.by > 0 THEN v < walk.to ELSE v > walk.to
    <3> HIDE DEF u, v, limit
    <3> QED BY DEF InSpan, Stride, limit
  <2>3. walk.method \in {"times", "upto", "downto", "step"} /\ walk.by \in Int /\ (walk.method = "step" => walk.by # 0)
    BY DEF IsNumberWalk
  <2> HIDE DEF u, v, limit
  <2>4. InSpan(u) => InSpan(v)
    <3>1. CASE walk.method = "times"
      BY <2>1, <2>2, <3>1
    <3>2. CASE walk.method = "upto"
      BY <2>1, <2>2, <3>2
    <3>3. CASE walk.method = "downto"
      BY <2>1, <2>2, <3>3
    <3>4. CASE walk.method = "step"
      BY <2>1, <2>2, <2>3, <3>4
    <3> QED BY <2>3, <3>1, <3>2, <3>3, <3>4
  <2> QED BY <2>4 DEF u, v
<1> QED BY <1>1, <1>2, <1>3

IsLong(n) == n \in -LongHalf .. LongHalf - 1

\* Where the value is a long, the loop goes by it, if it is in the span.
LEMMA NextIs ==
    ASSUME IsNumberWalk, NEW n \in Nat, walk.fraction \/ IsLong(Value(n))
    PROVE  NextIndex(walk, n) = IF InSpan(Value(n)) THEN <<IntV(Value(n))>> ELSE <<>>
<1> DEFINE v == Value(n)
<1>1. v \in Int
  BY ValueIs
<1>2. CASE walk.fraction
  <2>1. v = FractionAt(walk, n) /\ (InSpan(v) <=> ShortOf(walk, FractionAt(walk, n)))
    BY <1>2 DEF Value, FractionAt, InSpan, ShortOf, IsNumberWalk
  <2> HIDE DEF v
  <2>2. NextIndex(walk, n) = IF ShortOf(walk, FractionAt(walk, n)) THEN <<IntV(FractionAt(walk, n))>> ELSE <<>>
    BY <1>2 DEF NextIndex
  <2>3. NextIndex(walk, n) = IF InSpan(v) THEN <<IntV(v)>> ELSE <<>>
    BY <2>1, <2>2
  <2> QED BY <2>3 DEF v
<1>3. CASE ~walk.fraction
  <2> DEFINE limit == Wrap(walk.from, IntHalf)
  <2>1. limit \in Int /\ LongHalf \in Nat \ {0} /\ walk.to \in Int /\ walk.from \in Int /\ walk.by \in Int /\ IsLong(walk.to)
    <3>1. limit \in Int
      BY WrapIs, WalksAssumption DEF IsNumberWalk
    <3> QED BY <1>3, <3>1, WalksAssumption DEF IsNumberWalk, IsLong
  <2>2. NumberLoop(walk)[1] + n * NumberLoop(walk)[3] = v
    <3>1. CASE walk.method = "step"
      BY <3>1 DEF NumberLoop, Value
    <3>2. CASE walk.method # "step"
      BY <2>1, <3>2 DEF NumberLoop, Value, IsNumberWalk
    <3> QED BY <3>1, <3>2
  <2>3. Index(walk, n) = v
    <3>1. Index(walk, n) = Wrap(v, LongHalf)
      BY <2>2 DEF Index
    <3> HIDE DEF v
    <3>2. Wrap(v, LongHalf) = v
      BY <1>1, <1>3, <2>1, WrapIs DEF IsLong, v
    <3> QED BY <3>1, <3>2
  <2> HIDE DEF v
  <2>4. IsLong(v)
    BY <1>3 DEF v
  <2>5. CASE walk.method = "times"
    <3>1. (Within(walk, v) <=> v < limit) /\ (InSpan(v) <=> v < limit) /\ ~AdmitsNothing(walk)
      <4>1. NumberLoop(walk) = <<0, limit - 1, 1>>
        BY <2>5 DEF NumberLoop
      <4> HIDE DEF limit
      <4>2. Within(walk, v) <=> v < limit
        BY <1>1, <2>1, <4>1 DEF Within
      <4> QED BY <2>5, <4>2 DEF InSpan, AdmitsNothing, limit
    <3> QED BY <1>3, <2>3, <3>1 DEF NextIndex, v
  <2>6. CASE walk.method = "upto"
    <3>1. (Within(walk, v) <=> InSpan(v)) /\ ~AdmitsNothing(walk)
      BY <2>6 DEF Within, NumberLoop, InSpan, AdmitsNothing
    <3> QED BY <1>3, <2>3, <3>1 DEF NextIndex, v
  <2>7. CASE walk.method = "downto"
    <3>1. (Within(walk, v) <=> InSpan(v)) /\ ~AdmitsNothing(walk)
      BY <2>7 DEF Within, NumberLoop, InSpan, AdmitsNothing
    <3> QED BY <1>3, <2>3, <3>1 DEF NextIndex, v
  <2>8. CASE walk.method = "step"
    <3> DEFINE last == StepLimit(walk.to, walk.by)
    <3>1. walk.by # 0 /\ last \in Int /\ last = IF walk.by > 0 THEN walk.to - 1 ELSE walk.to + 1
      BY <2>1, <2>8 DEF StepLimit, SignOf, IsNumberWalk
    <3>2. /\ Within(walk, v) <=> IF walk.by > 0 THEN v <= last ELSE v >= last
          /\ InSpan(v) <=> IF walk.by > 0 THEN v < walk.to ELSE v > walk.to
          /\ AdmitsNothing(walk) <=> last # Wrap(last, LongHalf)
      BY <2>8 DEF Within, NumberLoop, InSpan, AdmitsNothing
    <3>3. IsLong(last) => last = Wrap(last, LongHalf)
      <4> HIDE DEF last
      <4> QED BY <2>1, <3>1, WrapIs DEF IsLong
    <3> HIDE DEF last
    <3>4. Within(walk, v) <=> InSpan(v)
      BY <1>1, <2>1, <3>1, <3>2
    <3>5. AdmitsNothing(walk) => ~InSpan(v)
      BY <1>1, <2>1, <2>4, <3>1, <3>2, <3>3 DEF IsLong
    <3> QED BY <1>3, <2>3, <3>4, <3>5 DEF NextIndex, v
  <2> QED BY <2>5, <2>6, <2>7, <2>8 DEF IsNumberWalk
<1> QED BY <1>2, <1>3

\* A number loop goes on with the next number.
LEMMA NumberArgs ==
    ASSUME WalkInv, walk # NoWalk, ~Refused, walk.kind = "number"
    PROVE  NextArgs = NextIndex(walk, Asked)
<1>1. walk.method \in {"times", "upto", "downto", "step"}
  BY NumberFields DEF IsNumberWalk
<1>2. walk.method \notin Orderings /\ walk.method # "partitionPoint" /\ walk.method \notin Computers
  BY <1>1 DEF Orderings, Computers
<1> DEFINE next == NextIndex(walk, Len(closureCalls))
<1>3. NextArgs = next
  <2> HIDE DEF next
  <2> QED BY <1>2, Zenon DEF NextArgs, next
<1> QED BY <1>3 DEF Asked

\* The calls of a number loop were the next ones, and its end had none.
NumberInv ==
    (walk # NoWalk /\ walk.kind = "number" /\ ~Refused) =>
        /\ Asked <= MaxAsked
        /\ \A i \in DOMAIN closureCalls : closureCalls[i].args = NextIndex(walk, i - 1) /\ closureCalls[i].args # <<>>
        /\ (Finished /\ pending = 0) => NextIndex(walk, Asked) = <<>>

\* A call of a number loop's closure keeps this.
LEMMA CallKeepsNumberInv ==
    ASSUME WalkInv, NumberInv, NEW v, NEW raises \in BOOLEAN, NEW puts \in BOOLEAN, Calls(v, raises, puts),
           answer' = answer \/ pending' # 0
    PROVE  NumberInv'
<1> SUFFICES ASSUME walk'.kind = "number" PROVE NumberInv'
  BY DEF NumberInv
<1>1. /\ walk # NoWalk /\ answer = Unanswered /\ walk' = walk /\ ~Refused /\ NextArgs # <<>> /\ Asked < MaxAsked
      /\ Asked \in Nat /\ Asked' = Asked + 1 /\ DOMAIN closureCalls = 1 .. Asked /\ DOMAIN closureCalls' = 1 .. Asked + 1
      /\ \A i \in 1 .. Asked : closureCalls'[i] = closureCalls[i]
      /\ closureCalls'[Asked + 1] = [args |-> NextArgs, says |-> v, raises |-> raises, puts |-> puts]
  BY CallsOn
<1>2. NextArgs = NextIndex(walk, Asked) /\ closureCalls'[Asked + 1].args = NextArgs
  <2>1. NextArgs = NextIndex(walk, Asked)
    BY <1>1, NumberArgs
  <2> DEFINE args == NextArgs
  <2>2. closureCalls'[Asked + 1] = [args |-> args, says |-> v, raises |-> raises, puts |-> puts]
    BY <1>1
  <2> HIDE DEF args
  <2>3. closureCalls'[Asked + 1].args = args
    BY <2>2
  <2> QED BY <2>1, <2>3 DEF args
<1>3. \A i \in 1 .. Asked : closureCalls[i].args = NextIndex(walk, i - 1) /\ closureCalls[i].args # <<>>
  BY <1>1 DEF NumberInv
<1>4. \A i \in 1 .. Asked + 1 : i \in 1 .. Asked \/ (i = Asked + 1 /\ i - 1 = Asked)
  BY <1>1
<1>5. \A i \in 1 .. Asked + 1 : closureCalls'[i].args = NextIndex(walk, i - 1) /\ closureCalls'[i].args # <<>>
  BY <1>1, <1>2, <1>3, <1>4
<1>6. ~(Finished' /\ pending' = 0)
  BY <1>1 DEF Finished
<1>7. Asked' <= MaxAsked
  BY <1>1, WalksAssumption
<1>8. \A i \in DOMAIN closureCalls' : closureCalls'[i].args = NextIndex(walk', i - 1) /\ closureCalls'[i].args # <<>>
  BY <1>1, <1>5
<1> QED BY <1>6, <1>7, <1>8 DEF NumberInv

\* Each step keeps the invariant of number loops.
LEMMA NextKeepsNumberInv == WalkInv /\ NumberInv /\ [IterationNext]_walkVars => NumberInv'
<1> SUFFICES ASSUME WalkInv, NumberInv, [IterationNext]_walkVars PROVE NumberInv'
  OBVIOUS
<1>1. ASSUME NEW w \in Walks, StartWalk(w) PROVE NumberInv'
  <2> SUFFICES ASSUME walk'.kind = "number", ~Refused' PROVE NumberInv'
    BY DEF NumberInv
  <2>1. closureCalls' = <<>> /\ Began(w)' /\ (answer' = Unanswered \/ w.plain)
    BY <1>1, CallBegins
  <2>2. w.kind = "number"
    BY <2>1 DEF Began, Fixed
  <2>3. ~w.plain
    BY <2>2, WalksAssumption DEF Walks
  <2>4. Asked' = 0 /\ DOMAIN closureCalls' = {}
    BY <2>1, EmptyIs DEF Asked
  <2> QED BY <2>1, <2>3, <2>4, WalksAssumption DEF NumberInv, Finished
<1>2. CASE Returns
  BY <1>2, CallKeepsNumberInv DEF Returns
<1>3. CASE Puts
  BY <1>3, CallKeepsNumberInv DEF Puts
<1>4. CASE Raises
  <2>1. Calls(Null, TRUE, FALSE) /\ pending' = Asked + 1
    BY <1>4 DEF Raises, Asked
  <2> DEFINE yes == TRUE
             no == FALSE
  <2>2. pending' # 0
    <3>1. yes \in BOOLEAN /\ no \in BOOLEAN /\ Calls(Null, yes, no)
      BY <2>1
    <3> HIDE DEF yes, no
    <3>2. Asked \in Nat
      BY <3>1, CallsOn
    <3> QED BY <2>1, <3>2
  <2> QED BY <2>1, <2>2, CallKeepsNumberInv
<1>5. CASE Unwinds
  BY <1>5, CallKeepsNumberInv DEF Unwinds
<1>6. CASE Catches
  BY <1>6, CallKeepsNumberInv DEF Catches
<1>7. CASE Ends
  <2> SUFFICES ASSUME walk'.kind = "number" PROVE NumberInv'
    BY DEF NumberInv
  <2>1. walk # NoWalk /\ answer = Unanswered /\ walk' = walk /\ closureCalls' = closureCalls /\ NextArgs = <<>>
    BY <1>7 DEF Ends, Running
  <2>2. ~Refused
    BY <2>1 DEF Refused, Unanswered, Null
  <2>3. NextArgs = NextIndex(walk, Asked)
    BY <2>1, <2>2, NumberArgs
  <2>4. Asked' = Asked
    BY <2>1 DEF Asked
  <2> QED BY <2>1, <2>2, <2>3, <2>4 DEF NumberInv
<1>8. CASE UNCHANGED walkVars
  BY <1>8 DEF walkVars, NumberInv, Refused, Finished, Asked
<1> QED BY <1>1, <1>2, <1>3, <1>4, <1>5, <1>6, <1>7, <1>8 DEF IterationNext, Walks

Counted == {n \in 0 .. MaxAsked : InSpan(Value(n))}
WrapsPast == \E n \in Counted : Value(n + 1) # Wrap(Value(n + 1), LongHalf)

\* As long as no counted value has one past the longs after it, the calls were
\* made for counted values that are longs.
LEMMA CallsCount ==
    ASSUME WalkInv, NumberInv, walk # NoWalk, walk.kind = "number", ~Refused, ~WrapsPast
    PROVE  /\ IsNumberWalk /\ Asked \in 0 .. MaxAsked /\ DOMAIN closureCalls = 1 .. Asked
           /\ \A k \in 0 .. Asked - 1 : k \in Counted /\ closureCalls[k + 1].args = <<IntV(Value(k))>>
           /\ walk.fraction \/ IsLong(Value(Asked))
<1>1. /\ IsNumberWalk /\ Asked \in Nat /\ Asked <= MaxAsked /\ MaxAsked \in Nat /\ DOMAIN closureCalls = 1 .. Asked
      /\ LongHalf \in Nat \ {0}
      /\ \A i \in 1 .. Asked : closureCalls[i].args = NextIndex(walk, i - 1) /\ closureCalls[i].args # <<>>
  <2>1. IsSequence(closureCalls)
    BY DEF WalkInv
  <2> QED BY <2>1, Longer, NumberFields, WalksAssumption DEF NumberInv, Asked
<1> DEFINE Long(n) == walk.fraction \/ IsLong(Value(n))
<1>2. Long(0)
  <2>1. CASE walk.method = "times"
    <3>1. Value(0) = 0
      BY <2>1 DEF Value
    <3> QED BY <1>1, <3>1 DEF IsLong
  <2>2. CASE walk.method # "times"
    <3>1. Value(0) = walk.from
      BY <1>1, <2>2 DEF Value, IsNumberWalk
    <3> QED BY <1>1, <3>1 DEF IsNumberWalk, IsLong
  <2> QED BY <2>1, <2>2
<1>3. ASSUME NEW k \in Counted PROVE Long(k + 1)
  <2>1. k \in Nat /\ Value(k + 1) = Wrap(Value(k + 1), LongHalf)
    BY <1>1 DEF WrapsPast, Counted
  <2>2. Value(k + 1) \in Int
    <3> DEFINE m == k + 1
    <3>1. m \in Nat
      BY <2>1
    <3> HIDE DEF m
    <3>2. Value(m) \in Int
      BY <1>1, <3>1, ValueIs
    <3> QED BY <3>2 DEF m
  <2> DEFINE u == Value(k + 1)
  <2> HIDE DEF u
  <2>3. u \in Int /\ u = Wrap(u, LongHalf)
    BY <2>1, <2>2 DEF u
  <2>4. IsLong(u)
    BY <1>1, <2>3, WrapIs DEF IsLong
  <2> QED BY <2>4 DEF u
<1>4. ASSUME NEW k \in 0 .. Asked - 1, Long(k)
      PROVE  k \in Counted /\ closureCalls[k + 1].args = <<IntV(Value(k))>>
  <2>1. k \in Nat /\ k \in 0 .. MaxAsked /\ k + 1 \in 1 .. Asked /\ (k + 1) - 1 = k
    BY <1>1
  <2>2. closureCalls[k + 1].args = NextIndex(walk, k) /\ closureCalls[k + 1].args # <<>>
    BY <1>1, <2>1
  <2>3. NextIndex(walk, k) = IF InSpan(Value(k)) THEN <<IntV(Value(k))>> ELSE <<>>
    BY <1>1, <1>4, <2>1, NextIs
  <2> QED BY <2>1, <2>2, <2>3 DEF Counted
<1>5. \A k \in 0 .. Asked : Long(k)
  <2> DEFINE T == {k \in 0 .. Asked : Long(k)}
  <2>1. 0 \in T
    BY <1>1, <1>2
  <2>2. ASSUME NEW k \in 1 .. Asked, k - 1 \in T PROVE k \in T
    <3>1. k - 1 \in 0 .. Asked - 1 /\ Long(k - 1) /\ (k - 1) + 1 = k /\ k \in 0 .. Asked
      BY <1>1, <2>2
    <3>2. k - 1 \in Counted
      <4> HIDE DEF Long
      <4> QED BY <1>4, <3>1
    <3>3. Long((k - 1) + 1)
      <4> HIDE DEF Long
      <4> QED BY <1>3, <3>2
    <3> QED BY <3>1, <3>3
  <2> HIDE DEF T
  <2>3. 0 .. Asked \subseteq T
    BY <1>1, <2>1, <2>2, IntervalInduction
  <2> QED BY <2>3 DEF T
<1>6. \A k \in 0 .. Asked - 1 : Long(k)
  BY <1>1, <1>5
<1>7. Asked \in 0 .. Asked
  BY <1>1
<1>8. Long(Asked)
  BY <1>5, <1>7
<1> QED BY <1>1, <1>4, <1>6, <1>8

\* A number loop that is through has counted all there was to count.
LEMMA CountedAll ==
    ASSUME WalkInv, NumberInv, Finished, pending = 0, walk.kind = "number", ~WrapsPast
    PROVE  Asked = Cardinality(Counted)
<1>1. /\ walk # NoWalk /\ ~Refused /\ NextIndex(walk, Asked) = <<>>
  BY DEF NumberInv, Finished, Refused, HostRaised
<1>2. /\ IsNumberWalk /\ Asked \in Nat /\ Asked <= MaxAsked /\ MaxAsked \in Nat
      /\ \A k \in 0 .. Asked - 1 : k \in Counted
      /\ walk.fraction \/ IsLong(Value(Asked))
  BY <1>1, CallsCount, WalksAssumption
<1>3. ~InSpan(Value(Asked))
  BY <1>1, <1>2, NextIs
<1>4. \A n \in Asked .. MaxAsked : ~InSpan(Value(n))
  <2> DEFINE T == {k \in 0 .. MaxAsked - Asked : ~InSpan(Value(Asked + k))}
             last == MaxAsked - Asked
  <2>1. last \in Nat
    BY <1>2
  <2>2. 0 \in T
    BY <1>2, <1>3
  <2>3. ASSUME NEW k \in 1 .. last, k - 1 \in T PROVE k \in T
    <3> DEFINE n == Asked + (k - 1)
    <3>1. n \in Nat /\ n + 1 = Asked + k /\ ~InSpan(Value(n)) /\ k \in 0 .. MaxAsked - Asked
      BY <1>2, <2>3
    <3>2. ~InSpan(Value(n + 1))
      <4> HIDE DEF n
      <4> QED BY <1>2, <3>1, ValueIs
    <3>3. ~InSpan(Value(Asked + k))
      <4> HIDE DEF n
      <4> QED BY <3>1, <3>2
    <3> QED BY <3>1, <3>3
  <2> HIDE DEF T
  <2>4. 0 .. last \subseteq T
    BY <2>1, <2>2, <2>3, IntervalInduction
  <2>5. ASSUME NEW n \in Asked .. MaxAsked PROVE ~InSpan(Value(n))
    <3>1. n - Asked \in 0 .. last /\ Asked + (n - Asked) = n
      BY <1>2, <2>5
    <3>2. n - Asked \in T
      BY <2>4, <3>1
    <3>3. ~InSpan(Value(Asked + (n - Asked)))
      BY <3>2 DEF T
    <3> QED BY <3>1, <3>3
  <2> QED BY <2>5
<1>5. Counted = 0 .. Asked - 1
  <2>1. ASSUME NEW n \in 0 .. MaxAsked PROVE n \in 0 .. Asked - 1 \/ n \in Asked .. MaxAsked
    BY <1>2
  <2>2. \A n \in Counted : n \in 0 .. MaxAsked /\ InSpan(Value(n))
    BY DEF Counted
  <2> QED BY <1>2, <1>4, <2>1, <2>2
<1>6. Asked - 1 \in Int /\ (IF 0 > Asked - 1 THEN 0 ELSE (Asked - 1) - 0 + 1) = Asked
  BY <1>2
<1> QED BY <1>5, <1>6, FS_Interval

\* Number loops count as written.
LEMMA NumbersCount == WalkInv /\ NumberInv => CountsAsWritten
<1> SUFFICES ASSUME WalkInv, NumberInv, IsCounting PROVE CountsAsWritten
  BY DEF CountsAsWritten
<1>1. walk # NoWalk /\ walk.kind = "number" /\ ~Refused
  BY DEF IsCounting, NoWalk, Refused
<1>2. ASSUME ~WrapsPast, NEW i \in DOMAIN closureCalls
      PROVE  i - 1 \in Counted /\ closureCalls[i].args = <<IntV(Value(i - 1))>>
  <2>1. /\ Asked \in 0 .. MaxAsked /\ DOMAIN closureCalls = 1 .. Asked
        /\ \A k \in 0 .. Asked - 1 : k \in Counted /\ closureCalls[k + 1].args = <<IntV(Value(k))>>
    BY <1>1, <1>2, CallsCount
  <2>2. i - 1 \in 0 .. Asked - 1 /\ (i - 1) + 1 = i
    BY <1>2, <2>1
  <2> QED BY <2>1, <2>2
<1>3. (Finished /\ pending = 0 /\ ~WrapsPast) => Asked = Cardinality(Counted)
  BY <1>1, CountedAll
<1> QED BY <1>2, <1>3 DEF CountsAsWritten, Counted, WrapsPast

-----------------------------------------------------------------------------
\* A function on an interval from one is a sequence.
LEMMA OnAnInterval ==
    ASSUME NEW n \in Nat, NEW f, DOMAIN f = 1 .. n, f = [i \in 1 .. n |-> f[i]]
    PROVE  IsSequence(f) /\ Len(f) = n
<1> DEFINE S == {f[i] : i \in DOMAIN f}
<1>1. \A i \in 1 .. n : f[i] \in S
  OBVIOUS
<1> HIDE DEF S
<1>2. f \in Seq(S)
  BY <1>1, SeqDef
<1>3. Len(f) \in Nat /\ DOMAIN f = 1 .. Len(f)
  BY <1>2, LenProperties
<1>4. Len(f) = n
  BY <1>3
<1> QED BY <1>2, <1>4 DEF IsSequence, S

\* Sequences are equal that have the same elements at the same positions.
LEMMA SameSequence ==
    ASSUME NEW r, NEW s, IsSequence(r), IsSequence(s), Len(r) = Len(s), \A i \in 1 .. Len(s) : r[i] = s[i]
    PROVE  r = s
<1> DEFINE S == {r[i] : i \in DOMAIN r} \cup {s[i] : i \in DOMAIN s}
<1>1. r \in Seq({r[i] : i \in DOMAIN r}) /\ s \in Seq({s[i] : i \in DOMAIN s})
  BY DEF IsSequence
<1>2. r = [i \in 1 .. Len(r) |-> r[i]] /\ s = [i \in 1 .. Len(s) |-> s[i]]
  BY <1>1, LenProperties, SeqDef
<1> QED BY <1>2

\* Two sequences joined.
LEMMA Joined ==
    ASSUME NEW r, NEW s, IsSequence(r), IsSequence(s)
    PROVE  /\ IsSequence(r \o s) /\ Len(r \o s) = Len(r) + Len(s)
           /\ \A i \in 1 .. Len(r) : (r \o s)[i] = r[i]
           /\ \A i \in 1 .. Len(s) : (r \o s)[Len(r) + i] = s[i]
<1> DEFINE S == {r[i] : i \in DOMAIN r} \cup {s[i] : i \in DOMAIN s}
           t == r \o s
<1>1. Len(r) \in Nat /\ DOMAIN r = 1 .. Len(r) /\ Len(s) \in Nat /\ DOMAIN s = 1 .. Len(s)
  BY Longer
<1>2. r \in Seq(S) /\ s \in Seq(S)
  <2>1. r \in Seq({r[i] : i \in DOMAIN r}) /\ s \in Seq({s[i] : i \in DOMAIN s})
    BY DEF IsSequence
  <2> QED BY <1>1, <2>1, SeqDef
<1> HIDE DEF S
<1>3. /\ t \in Seq(S) /\ Len(t) = Len(r) + Len(s)
      /\ \A i \in 1 .. Len(r) + Len(s) : t[i] = IF i <= Len(r) THEN r[i] ELSE s[i - Len(r)]
  BY <1>2, ConcatProperties
<1>4. DOMAIN t = 1 .. Len(t) /\ t = [i \in 1 .. Len(t) |-> t[i]] /\ Len(t) \in Nat
  BY <1>3, LenProperties, SeqDef
<1>5. IsSequence(t)
  <2> HIDE DEF t
  <2> QED BY <1>4, OnAnInterval
<1>6. \A i \in 1 .. Len(r) : t[i] = r[i]
  BY <1>1, <1>3
<1>7. ASSUME NEW i \in 1 .. Len(s) PROVE t[Len(r) + i] = s[i]
  <2>1. Len(r) + i \in 1 .. Len(r) + Len(s) /\ ~(Len(r) + i <= Len(r)) /\ (Len(r) + i) - Len(r) = i
    BY <1>1
  <2> HIDE DEF t
  <2> QED BY <1>3, <2>1
<1> QED BY <1>3, <1>5, <1>6, <1>7

-----------------------------------------------------------------------------
\* The walk of a map's method.
Writers == Removers \cup Computers \cup {"replaceAll"}
IsMapWalk ==
    /\ walk.kind = "map" /\ IsSequence(walk.copied) /\ walk.key # Extra[2]
    /\ walk.method \in Writers => walk.items = walk.copied
    /\ \A i \in DOMAIN walk.copied : walk.copied[i] = EntryV(walk.copied[i][2], walk.copied[i][3]) /\ walk.copied[i][2] # Extra[2]
    /\ \A i, j \in DOMAIN walk.copied : walk.copied[i][2] = walk.copied[j][2] => i = j

\* A map's walk goes over entries of different keys, none of them the closure's.
LEMMA MapFields ==
    ASSUME WalkInv, walk # NoWalk, ~Refused, walk.kind = "map"
    PROVE  IsMapWalk
<1>1. PICK w \in Walks : Began(w)
  BY DEF WalkInv
<1>2. w.kind = "map" /\ w \in MapWalks
  BY <1>1, WalksAssumption DEF Began, Fixed, Walks
<1>3. walk.kind = w.kind /\ walk.method = w.method /\ walk.key = w.key /\ walk.copied = w.items
  BY <1>1 DEF Began, Fixed
<1>4. walk.method \in Writers => walk.items = walk.copied
  <2> SUFFICES ASSUME walk.method \in Writers PROVE walk.items = walk.copied
    OBVIOUS
  <2>1. w.method \notin {"reverseEach", "eachPermutation", "permutations", "findIndexValues", "inject"}
    BY <1>3 DEF Writers, Removers, Computers
  <2>2. Snapshots(w) = {w.items}
    BY <2>1, Zenon DEF Snapshots
  <2> QED BY <1>1, <1>3, <2>2 DEF Began
<1>5. IsSequence(walk.copied)
  BY <1>2, <1>3, WalksAssumption
<1>6. /\ walk.key # Extra[2]
      /\ \A i \in DOMAIN walk.copied : walk.copied[i] = EntryV(walk.copied[i][2], walk.copied[i][3]) /\ walk.copied[i][2] # Extra[2]
      /\ \A i, j \in DOMAIN walk.copied : walk.copied[i][2] = walk.copied[j][2] => i = j
  BY <1>2, <1>3, WalksAssumption
<1> QED BY <1>2, <1>3, <1>4, <1>5, <1>6 DEF IsMapWalk

\* What is left of a map by the calls, position by position.
PutOne == \E i \in DOMAIN closureCalls : closureCalls[i].puts
WroteAt(i) ==
    IF walk.method = "replaceAll" /\ i \in DOMAIN closureCalls /\ ~closureCalls[i].raises
    THEN EntryV(walk.copied[i][2], closureCalls[i].says) ELSE walk.copied[i]
LeftIn(r) ==
    /\ IsSequence(r) /\ Len(r) = Len(walk.copied) + (IF PutOne THEN 1 ELSE 0)
    /\ \A i \in DOMAIN walk.copied : r[i] = WroteAt(i)
    /\ PutOne => r[Len(walk.copied) + 1] = Extra
CallsByKey ==
    walk.method = "replaceAll" =>
        \A i \in DOMAIN closureCalls : i \in DOMAIN walk.copied /\ closureCalls[i].args[1] = walk.copied[i][2]

\* Writing the calls' entries one by one leaves them in these positions.
LEMMA LeftIs == IsMapWalk /\ CallsByKey => LeftIn(LeftByCalls)
<1> SUFFICES ASSUME IsMapWalk, CallsByKey PROVE LeftIn(LeftByCalls)
  OBVIOUS
<1> DEFINE put == IF PutOne THEN <<Extra>> ELSE <<>>
           n == Len(walk.copied)
           f == [i \in 1 .. n |-> WroteAt(i)]
<1>1. n \in Nat /\ DOMAIN walk.copied = 1 .. n
  BY Longer DEF IsMapWalk
<1>2. ASSUME NEW i \in 1 .. n
      PROVE  (IF walk.method = "replaceAll" /\ \E j \in DOMAIN closureCalls : ~closureCalls[j].raises /\ closureCalls[j].args[1] = walk.copied[i][2]
              THEN EntryV(walk.copied[i][2], closureCalls[CHOOSE j \in DOMAIN closureCalls : closureCalls[j].args[1] = walk.copied[i][2]].says)
              ELSE walk.copied[i]) = WroteAt(i)
  <2>1. CASE walk.method = "replaceAll"
    <3>1. \A j \in DOMAIN closureCalls : closureCalls[j].args[1] = walk.copied[i][2] <=> j = i
      BY <1>1, <1>2, <2>1 DEF IsMapWalk, CallsByKey
    <3>2. CASE i \in DOMAIN closureCalls
      <4>1. (CHOOSE j \in DOMAIN closureCalls : closureCalls[j].args[1] = walk.copied[i][2]) = i
        BY <3>1, <3>2
      <4>2. (\E j \in DOMAIN closureCalls : ~closureCalls[j].raises /\ closureCalls[j].args[1] = walk.copied[i][2]) <=> ~closureCalls[i].raises
        BY <3>1, <3>2
      <4> QED BY <2>1, <3>2, <4>1, <4>2, Zenon DEF WroteAt
    <3>3. CASE i \notin DOMAIN closureCalls
      <4>1. ~\E j \in DOMAIN closureCalls : ~closureCalls[j].raises /\ closureCalls[j].args[1] = walk.copied[i][2]
        BY <3>1, <3>3
      <4> QED BY <2>1, <3>3, <4>1, Zenon DEF WroteAt
    <3> QED BY <3>2, <3>3
  <2>2. CASE walk.method # "replaceAll"
    BY <2>2 DEF WroteAt
  <2> QED BY <2>1, <2>2
<1>3. LeftByCalls = f \o put
  <2>1. LeftByCalls = [i \in DOMAIN walk.copied |->
             IF walk.method = "replaceAll" /\ \E j \in DOMAIN closureCalls : ~closureCalls[j].raises /\ closureCalls[j].args[1] = walk.copied[i][2]
             THEN EntryV(walk.copied[i][2], closureCalls[CHOOSE j \in DOMAIN closureCalls : closureCalls[j].args[1] = walk.copied[i][2]].says)
             ELSE walk.copied[i]] \o put
    BY DEF LeftByCalls, PutOne
  <2>2. f = [i \in DOMAIN walk.copied |->
             IF walk.method = "replaceAll" /\ \E j \in DOMAIN closureCalls : ~closureCalls[j].raises /\ closureCalls[j].args[1] = walk.copied[i][2]
             THEN EntryV(walk.copied[i][2], closureCalls[CHOOSE j \in DOMAIN closureCalls : closureCalls[j].args[1] = walk.copied[i][2]].says)
             ELSE walk.copied[i]]
    BY <1>1, <1>2
  <2> HIDE DEF f, put
  <2> QED BY <2>1, <2>2
<1>4. IsSequence(f) /\ Len(f) = n
  <2>1. f = [i \in 1 .. n |-> f[i]] /\ DOMAIN f = 1 .. n
    OBVIOUS
  <2> HIDE DEF f, n
  <2> QED BY <1>1, <2>1, OnAnInterval
<1>5. IsSequence(put) /\ Len(put) = (IF PutOne THEN 1 ELSE 0) /\ (PutOne => put[1] = Extra)
  <2>1. IsSequence(<<Extra>>) /\ Len(<<Extra>>) = 1 /\ <<Extra>>[1] = Extra
    <3> DEFINE x == Extra
    <3> HIDE DEF x
    <3>1. <<x>> = [i \in 1 .. 1 |-> <<x>>[i]] /\ DOMAIN <<x>> = 1 .. 1 /\ <<x>>[1] = x /\ Len(<<x>>) = 1
      OBVIOUS
    <3>2. IsSequence(<<x>>)
      <4> DEFINE s == <<x>>
      <4> HIDE DEF s
      <4>1. s = [i \in 1 .. 1 |-> s[i]] /\ DOMAIN s = 1 .. 1
        BY <3>1 DEF s
      <4> QED BY <4>1, OnAnInterval DEF s
    <3> QED BY <3>1, <3>2 DEF x
  <2> QED BY <2>1, EmptyIs
<1>6. \A i \in 1 .. n : f[i] = WroteAt(i)
  OBVIOUS
<1> DEFINE left == LeftByCalls
<1>7. /\ IsSequence(left) /\ Len(left) = n + (IF PutOne THEN 1 ELSE 0)
      /\ \A i \in 1 .. n : left[i] = f[i]
      /\ \A i \in 1 .. Len(put) : left[n + i] = put[i]
  <2> HIDE DEF f, put, n
  <2> QED BY <1>3, <1>4, <1>5, Joined
<1>8. PutOne => left[n + 1] = Extra
  <2> HIDE DEF f, n, put, left
  <2> QED BY <1>1, <1>5, <1>7
<1> HIDE DEF f, put, left
<1>9. \A i \in DOMAIN walk.copied : left[i] = WroteAt(i)
  BY <1>1, <1>6, <1>7
<1>10. LeftIn(left)
  BY <1>7, <1>8, <1>9 DEF LeftIn
<1> QED BY <1>10 DEF left

\* There is one such map.
LEMMA OneLeft ==
    ASSUME IsMapWalk, NEW r, NEW s, LeftIn(r), LeftIn(s)
    PROVE  r = s
<1> DEFINE n == Len(walk.copied)
<1>1. n \in Nat /\ DOMAIN walk.copied = 1 .. n
  BY Longer DEF IsMapWalk
<1>2. IsSequence(r) /\ IsSequence(s) /\ \A i \in 1 .. n : r[i] = s[i]
  BY <1>1 DEF LeftIn
<1>3. CASE PutOne
  <2>1. Len(r) = n + 1 /\ Len(s) = n + 1 /\ r[n + 1] = s[n + 1]
    BY <1>3 DEF LeftIn
  <2> HIDE DEF n
  <2>2. \A i \in 1 .. Len(s) : i \in 1 .. n \/ i = n + 1
    BY <1>1, <2>1
  <2> QED BY <1>2, <2>1, <2>2, SameSequence
<1>4. CASE ~PutOne
  <2>1. Len(r) = n /\ Len(s) = n
    BY <1>1, <1>4 DEF LeftIn
  <2> QED BY <1>2, <2>1, SameSequence
<1> QED BY <1>3, <1>4

\* The one entry of a key, and a map that differs in one entry.
OnlyAt(r, i, k) == i \in 1 .. Len(r) /\ \A j \in 1 .. Len(r) : r[j][2] = k <=> j = i
ChangedAt(s, r, i, x) == IsSequence(s) /\ Len(s) = Len(r) /\ \A j \in 1 .. Len(r) : s[j] = IF j = i THEN x ELSE r[j]

\* Writing a key that one entry of a map has changes that entry.
LEMMA PutAt ==
    ASSUME NEW r, NEW i, NEW k, NEW v, IsSequence(r), OnlyAt(r, i, k)
    PROVE  ChangedAt(Put(r, k, v), r, i, EntryV(k, v))
<1> DEFINE s == Put(r, k, v)
           n == Len(r)
<1>1. n \in Nat /\ DOMAIN r = 1 .. n
  BY Longer
<1>2. InMap(r, k) /\ \A j \in 1 .. n : r[j][2] = k <=> j = i
  BY <1>1 DEF InMap, OnlyAt
<1>3. s = [j \in DOMAIN r |-> IF r[j][2] = k THEN EntryV(k, v) ELSE r[j]]
  BY <1>2 DEF Put
<1>4. s = [j \in 1 .. n |-> s[j]] /\ DOMAIN s = 1 .. n /\ \A j \in 1 .. n : s[j] = IF j = i THEN EntryV(k, v) ELSE r[j]
  <2> HIDE DEF s, n
  <2> QED BY <1>1, <1>2, <1>3 DEF n
<1>5. IsSequence(s) /\ Len(s) = n
  <2> HIDE DEF s, n
  <2> QED BY <1>1, <1>4, OnAnInterval
<1> QED BY <1>4, <1>5 DEF ChangedAt

\* replaceAll goes on with the next key of its copy.
LEMMA NextKey ==
    ASSUME IsMapWalk, Asked \in Nat, walk.method = "replaceAll", NextArgs # <<>>
    PROVE  Asked + 1 \in DOMAIN walk.copied /\ NextArgs[1] = walk.copied[Asked + 1][2]
<1> DEFINE n == Len(closureCalls)
           el == ElementArgs(walk, n + 1, Said)
<1>1. walk.kind = "map" /\ walk.items = walk.copied /\ IsSequence(walk.copied)
  BY DEF IsMapWalk, Writers
<1>2. walk.kind # "number" /\ walk.method \notin Orderings /\ walk.method # "partitionPoint" /\ walk.method \notin Computers
  BY <1>1 DEF Orderings, Computers
<1>3. NextArgs = IF n < Len(walk.items) /\ (n > 0 => ~EndsAt(walk.method, closureCalls[n].says)) THEN el ELSE <<>>
  <2> HIDE DEF el
  <2> QED BY <1>2, Zenon DEF NextArgs, el
<1>4. n < Len(walk.items) /\ NextArgs = el
  <2> HIDE DEF el
  <2> QED BY <1>3
<1>5. el = <<walk.items[n + 1][2], walk.items[n + 1][3]>>
  <2>1. walk.method \notin {"eachWithIndex", "inject", "groupBy", "sum"}
    OBVIOUS
  <2> QED BY <2>1, Zenon DEF ElementArgs
<1>6. n + 1 \in DOMAIN walk.copied
  <2>1. Len(walk.copied) \in Nat /\ DOMAIN walk.copied = 1 .. Len(walk.copied) /\ n \in Nat
    BY <1>1, Longer DEF Asked
  <2> QED BY <1>1, <1>4, <2>1
<1> DEFINE k == walk.items[n + 1][2]
           x == walk.items[n + 1][3]
<1>7. NextArgs[1] = k
  <2>1. NextArgs = <<k, x>>
    BY <1>4, <1>5
  <2> HIDE DEF k, x
  <2> QED BY <2>1
<1> QED BY <1>1, <1>6, <1>7 DEF Asked

\* What a call leaves of a map: its element may have been written anew, and the
\* closure may have put one more.
LEMMA CallKeepsLeft ==
    ASSUME WalkInv, IsMapWalk, CallsByKey, LeftIn(receiver),
           NEW v, NEW raises \in BOOLEAN, NEW puts \in BOOLEAN, Calls(v, raises, puts),
           NEW q, q = IF puts THEN Append(receiver, Extra) ELSE receiver,
           puts => ~raises /\ ~InMap(receiver, Extra[2]),
           receiver' = IF raises THEN receiver ELSE Written(q, v)
    PROVE  CallsByKey' /\ LeftIn(receiver)'
<1> DEFINE n == Len(walk.copied)
<1>1. /\ walk' = walk /\ NextArgs # <<>> /\ Asked \in Nat /\ DOMAIN closureCalls = 1 .. Asked /\ DOMAIN closureCalls' = 1 .. Asked + 1
      /\ \A i \in 1 .. Asked : closureCalls'[i] = closureCalls[i]
      /\ closureCalls'[Asked + 1] = [args |-> NextArgs, says |-> v, raises |-> raises, puts |-> puts]
  BY CallsOn
<1>2. n \in Nat /\ DOMAIN walk.copied = 1 .. n
  BY Longer DEF IsMapWalk
<1> DEFINE args == NextArgs
<1>3. closureCalls'[Asked + 1].args = args /\ closureCalls'[Asked + 1].says = v /\ closureCalls'[Asked + 1].raises = raises /\ closureCalls'[Asked + 1].puts = puts
  <2>1. closureCalls'[Asked + 1] = [args |-> args, says |-> v, raises |-> raises, puts |-> puts]
    BY <1>1
  <2> HIDE DEF args
  <2> QED BY <2>1
<1>4. \A i \in 1 .. Asked + 1 : i \in 1 .. Asked \/ i = Asked + 1
  BY <1>1
<1>5. CallsByKey'
  <2> SUFFICES ASSUME walk.method = "replaceAll", NEW i \in 1 .. Asked + 1
               PROVE  i \in DOMAIN walk.copied /\ closureCalls'[i].args[1] = walk.copied[i][2]
    BY <1>1 DEF CallsByKey
  <2>1. CASE i \in 1 .. Asked
    BY <1>1, <2>1 DEF CallsByKey
  <2>2. CASE i = Asked + 1
    BY <1>1, <1>3, <2>2, NextKey
  <2> QED BY <1>4, <2>1, <2>2
<1>6. PutOne' <=> PutOne \/ puts
  <2>1. PutOne' <=> \E i \in 1 .. Asked + 1 : closureCalls'[i].puts
    BY <1>1 DEF PutOne
  <2>2. PutOne <=> \E i \in 1 .. Asked : closureCalls'[i].puts
    BY <1>1 DEF PutOne
  <2>3. (\E i \in 1 .. Asked + 1 : closureCalls'[i].puts) <=> (\E i \in 1 .. Asked : closureCalls'[i].puts) \/ closureCalls'[Asked + 1].puts
    BY <1>1, <1>4
  <2> QED BY <1>3, <2>1, <2>2, <2>3
<1>7. puts => ~PutOne
  <2> SUFFICES ASSUME PutOne PROVE InMap(receiver, Extra[2])
    OBVIOUS
  <2>1. receiver[n + 1] = Extra /\ Len(receiver) = n + 1 /\ IsSequence(receiver)
    BY DEF LeftIn
  <2>2. n + 1 \in DOMAIN receiver
    <3> HIDE DEF n
    <3> QED BY <1>2, <2>1, Longer
  <2> QED BY <2>1, <2>2 DEF InMap
<1>8. /\ IsSequence(q) /\ Len(q) = n + (IF PutOne' THEN 1 ELSE 0)
      /\ \A i \in 1 .. n : q[i] = WroteAt(i)
      /\ PutOne' => q[n + 1] = Extra
  <2>1. /\ IsSequence(receiver) /\ Len(receiver) = n + (IF PutOne THEN 1 ELSE 0)
        /\ \A i \in 1 .. n : receiver[i] = WroteAt(i)
        /\ PutOne => receiver[n + 1] = Extra
    BY <1>2 DEF LeftIn
  <2>2. CASE puts
    <3>1. Len(receiver) = n /\ q = Append(receiver, Extra) /\ PutOne'
      BY <1>2, <1>6, <1>7, <2>1, <2>2
    <3> HIDE DEF n
    <3>2. IsSequence(q) /\ Len(q) = n + 1 /\ (\A i \in 1 .. n : q[i] = receiver[i]) /\ q[n + 1] = Extra
      BY <1>2, <2>1, <3>1, Longer
    <3> QED BY <1>2, <2>1, <3>1, <3>2
  <2>3. CASE ~puts
    BY <1>6, <2>1, <2>3
  <2> QED BY <2>2, <2>3
<1>9. \A i \in 1 .. n : WroteAt(i)' = IF walk.method = "replaceAll" /\ i = Asked + 1 /\ ~raises THEN EntryV(walk.copied[i][2], v) ELSE WroteAt(i)
  <2> SUFFICES ASSUME NEW i \in 1 .. n
               PROVE  WroteAt(i)' = IF walk.method = "replaceAll" /\ i = Asked + 1 /\ ~raises THEN EntryV(walk.copied[i][2], v) ELSE WroteAt(i)
    OBVIOUS
  <2>1. WroteAt(i)' = IF walk.method = "replaceAll" /\ i \in 1 .. Asked + 1 /\ ~closureCalls'[i].raises
                      THEN EntryV(walk.copied[i][2], closureCalls'[i].says) ELSE walk.copied[i]
    BY <1>1 DEF WroteAt
  <2>2. WroteAt(i) = IF walk.method = "replaceAll" /\ i \in 1 .. Asked /\ ~closureCalls[i].raises
                     THEN EntryV(walk.copied[i][2], closureCalls[i].says) ELSE walk.copied[i]
    BY <1>1 DEF WroteAt
  <2>3. CASE i = Asked + 1
    <3>1. i \notin 1 .. Asked /\ i \in 1 .. Asked + 1
      BY <1>1, <2>3
    <3> QED BY <1>3, <2>1, <2>2, <2>3, <3>1
  <2>4. CASE i \in 1 .. Asked
    <3>1. i # Asked + 1 /\ i \in 1 .. Asked + 1
      BY <1>1, <2>4
    <3> QED BY <1>1, <2>1, <2>2, <2>4, <3>1
  <2>5. CASE i # Asked + 1 /\ i \notin 1 .. Asked
    <3>1. i \notin 1 .. Asked + 1
      BY <1>4, <2>5
    <3> QED BY <2>1, <2>2, <2>5, <3>1
  <2> QED BY <2>3, <2>4, <2>5
<1>10. CASE walk.method = "replaceAll" /\ ~raises
  <2> DEFINE k == walk.copied[Asked + 1][2]
  <2>1. Asked + 1 \in 1 .. n /\ NextArgs[1] = k
    BY <1>1, <1>2, <1>10, NextKey
  <2>2. receiver' = Put(q, k, v)
    BY <1>10, <2>1 DEF Written
  <2>3. \A i \in 1 .. n : q[i][2] = walk.copied[i][2]
    <3> SUFFICES ASSUME NEW i \in 1 .. n PROVE q[i][2] = walk.copied[i][2]
      OBVIOUS
    <3>1. q[i] = WroteAt(i)
      BY <1>8
    <3> DEFINE key == walk.copied[i][2]
               x == closureCalls[i].says
    <3>2. WroteAt(i) = EntryV(key, x) \/ WroteAt(i) = walk.copied[i]
      BY DEF WroteAt
    <3>3. EntryV(key, x)[2] = key
      <4> HIDE DEF key, x
      <4> QED BY DEF EntryV
    <3> QED BY <3>1, <3>2, <3>3
  <2>4. \A j \in 1 .. Len(q) : q[j][2] = k <=> j = Asked + 1
    <3> SUFFICES ASSUME NEW j \in 1 .. Len(q) PROVE q[j][2] = k <=> j = Asked + 1
      OBVIOUS
    <3>1. CASE j \in 1 .. n
      BY <1>2, <2>1, <2>3, <3>1 DEF IsMapWalk
    <3>2. CASE j \notin 1 .. n
      <4>1. j = n + 1 /\ PutOne' /\ j # Asked + 1
        <5>1. CASE PutOne'
          <6> HIDE DEF n
          <6> QED BY <1>2, <1>8, <2>1, <3>2, <5>1
        <5>2. CASE ~PutOne'
          <6>1. Len(q) = n
            BY <1>2, <1>8, <5>2
          <6> QED BY <3>2, <6>1
        <5> QED BY <5>1, <5>2
      <4>2. q[j] = Extra /\ Extra[2] # k
        BY <1>2, <1>8, <2>1, <4>1 DEF IsMapWalk
      <4> QED BY <4>1, <4>2
    <3> QED BY <3>1, <3>2
  <2>5. Asked + 1 \in 1 .. Len(q)
    <3>1. CASE PutOne'
      <4> HIDE DEF n
      <4> QED BY <1>2, <1>8, <2>1, <3>1
    <3>2. CASE ~PutOne'
      <4>1. Len(q) = n
        BY <1>2, <1>8, <3>2
      <4> QED BY <2>1, <4>1
    <3> QED BY <3>1, <3>2
  <2> DEFINE r == receiver'
  <2>6. /\ IsSequence(r) /\ Len(r) = Len(q)
        /\ \A j \in 1 .. Len(q) : r[j] = IF j = Asked + 1 THEN EntryV(k, v) ELSE q[j]
    <3> DEFINE at == Asked + 1
               s == Put(q, k, v)
    <3>1. IsSequence(q) /\ OnlyAt(q, at, k)
      BY <1>8, <2>4, <2>5 DEF OnlyAt
    <3> HIDE DEF k, r, at, s
    <3>2. ChangedAt(s, q, at, EntryV(k, v))
      BY <3>1, PutAt DEF s
    <3>3. r = s
      BY <2>2 DEF r, s
    <3> QED BY <3>2, <3>3 DEF at, ChangedAt
  <2>7. \A i \in 1 .. n : i \in 1 .. Len(q)
    <3>1. CASE PutOne'
      <4> HIDE DEF n
      <4> QED BY <1>2, <1>8, <3>1
    <3>2. CASE ~PutOne'
      <4>1. Len(q) = n
        BY <1>2, <1>8, <3>2
      <4> QED BY <4>1
    <3> QED BY <3>1, <3>2
  <2>8. \A i \in 1 .. n : r[i] = WroteAt(i)'
    <3> HIDE DEF r
    <3> QED BY <1>8, <1>9, <1>10, <2>6, <2>7
  <2>9. PutOne' => r[n + 1] = Extra
    <3> HIDE DEF r, n
    <3>1. n + 1 # Asked + 1
      BY <1>1, <1>2, <2>1
    <3>2. PutOne' => n + 1 \in 1 .. Len(q)
      BY <1>2, <1>8
    <3> QED BY <1>8, <2>6, <3>1, <3>2
  <2>10. LeftIn(receiver)'
    <3> HIDE DEF r
    <3>1. IsSequence(r) /\ Len(r) = n + (IF PutOne' THEN 1 ELSE 0)
      BY <1>8, <2>6
    <3> QED BY <1>1, <1>2, <2>8, <2>9, <3>1 DEF LeftIn, r
  <2> QED BY <1>5, <2>10
<1>11. CASE ~(walk.method = "replaceAll" /\ ~raises)
  <2>1. receiver' = q
    BY <1>11 DEF Written
  <2>2. \A i \in 1 .. n : q[i] = WroteAt(i)'
    BY <1>8, <1>9, <1>11
  <2>3. LeftIn(receiver)'
    BY <1>1, <1>2, <1>8, <2>1, <2>2 DEF LeftIn
  <2> QED BY <1>5, <2>3
<1> QED BY <1>10, <1>11

-----------------------------------------------------------------------------
\* Dropping keys goes over the entries one by one.
DropLoop(h, r, keys) ==
    /\ h[0] = <<>> /\ \A k \in 0 .. Len(r) : IsSequence(h[k])
    /\ \A k \in 1 .. Len(r) : h[k] = IF r[k][2] \in keys THEN h[k - 1] ELSE Append(h[k - 1], r[k])

\* What is left of a map without some keys is where that loop ends.
LEMMA WithoutIs ==
    ASSUME NEW r, NEW keys, IsSequence(r)
    PROVE  \E h : DropLoop(h, r, keys) /\ Without(r, keys) = h[Len(r)]
<1> DEFINE n == Len(r)
           S == {r[i] : i \in DOMAIN r}
           V == Seq(S)
           step == [k \in 1 .. n |-> [out \in V |-> IF r[k][2] \in keys THEN out ELSE Append(out, r[k])]]
           upTo == CHOOSE h : h = [k \in 0 .. n |-> IF k = 0 THEN <<>> ELSE IF r[k][2] \in keys THEN h[k - 1] ELSE Append(h[k - 1], r[k])]
           none == <<>>
<1>1. n \in Nat /\ DOMAIN r = 1 .. n /\ \A k \in 1 .. n : r[k] \in S
  BY Longer
<1>2. step \in [1 .. n -> [V -> V]] /\ none \in V
  <2> HIDE DEF S
  <2>1. \A out \in V : \A k \in 1 .. n : (IF r[k][2] \in keys THEN out ELSE Append(out, r[k])) \in V
    BY <1>1, AppendProperties
  <2>2. none \in V
    OBVIOUS
  <2> HIDE DEF V, n
  <2> QED BY <2>1, <2>2
<1>3. PICK h \in [0 .. n -> V] : Loops(h, n, none, step)
  <2> HIDE DEF V, n, step, none
  <2> QED BY <1>1, <1>2, LoopExists
<1>4. h[0] = <<>> /\ \A k \in 1 .. n : h[k] = step[k][h[k - 1]]
  BY <1>3 DEF Loops
<1>5. h = [k \in 0 .. n |-> IF k = 0 THEN <<>> ELSE IF r[k][2] \in keys THEN h[k - 1] ELSE Append(h[k - 1], r[k])]
  <2>1. ASSUME NEW k \in 0 .. n, k # 0 PROVE h[k] = IF r[k][2] \in keys THEN h[k - 1] ELSE Append(h[k - 1], r[k])
    <3>1. k \in 1 .. n /\ k - 1 \in 0 .. n
      BY <1>1, <2>1
    <3>2. h[k - 1] \in V
      BY <1>3, <3>1
    <3> HIDE DEF V, n
    <3> QED BY <1>4, <3>1, <3>2
  <2> HIDE DEF V, n, step
  <2> QED BY <1>3, <1>4, <2>1
<1>6. upTo = [k \in 0 .. n |-> IF k = 0 THEN <<>> ELSE IF r[k][2] \in keys THEN upTo[k - 1] ELSE Append(upTo[k - 1], r[k])]
  <2> HIDE DEF V, n, step
  <2> QED BY <1>5, Zenon
<1>7. Without(r, keys) = upTo[n]
  BY DEF Without
<1> HIDE DEF upTo
<1>8. upTo[0] = <<>> /\ \A k \in 1 .. n : upTo[k] = IF r[k][2] \in keys THEN upTo[k - 1] ELSE Append(upTo[k - 1], r[k])
  <2>1. 0 \in 0 .. n /\ \A k \in 1 .. n : k \in 0 .. n /\ k # 0
    BY <1>1
  <2> HIDE DEF n
  <2> QED BY <1>6, <2>1
<1> DEFINE T == {k \in 0 .. n : IsSequence(upTo[k])}
<1>9. 0 \in T
  <2>1. 0 \in 0 .. n
    BY <1>1
  <2> QED BY <1>8, <2>1, EmptyIs
<1>10. ASSUME NEW k \in 1 .. n, k - 1 \in T PROVE k \in T
  <2>1. IsSequence(upTo[k - 1]) /\ k \in 0 .. n
    BY <1>1, <1>10
  <2>2. IsSequence(Append(upTo[k - 1], r[k]))
    BY <2>1, Longer
  <2> HIDE DEF n
  <2> QED BY <1>8, <2>1, <2>2
<1>11. \A k \in 0 .. n : IsSequence(upTo[k])
  <2>1. 0 .. n \subseteq T
    <3> HIDE DEF T, n
    <3> QED BY <1>1, <1>9, <1>10, IntervalInduction
  <2> QED BY <2>1
<1>12. DropLoop(upTo, r, keys)
  BY <1>8, <1>11 DEF DropLoop
<1> QED BY <1>7, <1>12

\* Entries of the keys dropped make no difference.
LEMMA SameWithout ==
    ASSUME NEW r, NEW s, NEW keys, IsSequence(r), IsSequence(s), Len(r) <= Len(s),
           \A i \in 1 .. Len(r) : r[i] = s[i] \/ (r[i][2] \in keys /\ s[i][2] \in keys),
           \A i \in Len(r) + 1 .. Len(s) : s[i][2] \in keys
    PROVE  Without(r, keys) = Without(s, keys)
<1> DEFINE n == Len(r)
           m == Len(s)
<1>1. n \in Nat /\ m \in Nat /\ n <= m
  BY Longer
<1>2. PICK h : DropLoop(h, r, keys) /\ Without(r, keys) = h[n]
  BY WithoutIs
<1>3. PICK g : DropLoop(g, s, keys) /\ Without(s, keys) = g[m]
  BY WithoutIs
<1> DEFINE T == {k \in 0 .. m : g[k] = h[IF k <= n THEN k ELSE n]}
<1>4. 0 \in T
  BY <1>1, <1>2, <1>3 DEF DropLoop
<1>5. ASSUME NEW k \in 1 .. m, k - 1 \in T PROVE k \in T
  <2>1. g[k] = IF s[k][2] \in keys THEN g[k - 1] ELSE Append(g[k - 1], s[k])
    BY <1>3 DEF DropLoop
  <2>2. CASE k <= n
    <3>1. k \in 1 .. n /\ k - 1 <= n /\ k \in 0 .. m
      BY <1>1, <2>2
    <3>2. g[k - 1] = h[k - 1]
      BY <1>5, <3>1
    <3>3. h[k] = IF r[k][2] \in keys THEN h[k - 1] ELSE Append(h[k - 1], r[k])
      BY <1>2, <3>1 DEF DropLoop
    <3>4. r[k] = s[k] \/ (r[k][2] \in keys /\ s[k][2] \in keys)
      BY <3>1
    <3>5. g[k] = h[k]
      BY <2>1, <3>2, <3>3, <3>4
    <3> QED BY <2>2, <3>1, <3>5
  <2>3. CASE ~(k <= n)
    <3>1. k \in n + 1 .. m /\ k \in 0 .. m /\ n <= k - 1
      BY <1>1, <2>3
    <3>2. g[k] = g[k - 1]
      BY <2>1, <3>1
    <3>3. g[k - 1] = h[n]
      <4>1. k - 1 <= n => k - 1 = n
        BY <1>1, <3>1
      <4>2. g[k - 1] = h[IF k - 1 <= n THEN k - 1 ELSE n]
        BY <1>5
      <4> QED BY <4>1, <4>2
    <3> QED BY <2>3, <3>1, <3>2, <3>3
  <2> QED BY <2>2, <2>3
<1>6. m \in T
  <2>1. 0 .. m \subseteq T
    <3> HIDE DEF T, m
    <3> QED BY <1>1, <1>4, <1>5, IntervalInduction
  <2>2. m \in 0 .. m
    BY <1>1
  <2> QED BY <2>1, <2>2
<1>7. g[m] = h[n]
  <2>1. m <= n => m = n
    BY <1>1
  <2> QED BY <1>6, <2>1
<1> QED BY <1>2, <1>3, <1>7

\* What is dropped is gone.
LEMMA NoneLeft ==
    ASSUME NEW r, NEW keys, IsSequence(r)
    PROVE  IsSequence(Without(r, keys)) /\ \A i \in 1 .. Len(Without(r, keys)) : Without(r, keys)[i][2] \notin keys
<1> DEFINE n == Len(r)
<1>1. n \in Nat
  BY Longer
<1>2. PICK h : DropLoop(h, r, keys) /\ Without(r, keys) = h[n]
  BY WithoutIs
<1> DEFINE Clean(s) == IsSequence(s) /\ \A i \in 1 .. Len(s) : s[i][2] \notin keys
           T == {k \in 0 .. n : Clean(h[k])}
<1>3. 0 \in T
  <2>1. Clean(<<>>)
    BY EmptyIs
  <2>2. 0 \in 0 .. n /\ h[0] = <<>>
    BY <1>1, <1>2 DEF DropLoop
  <2> HIDE DEF Clean
  <2> QED BY <2>1, <2>2
<1>4. ASSUME NEW k \in 1 .. n, k - 1 \in T PROVE k \in T
  <2> DEFINE s == h[k - 1]
             x == r[k]
  <2>1. Clean(s) /\ k \in 0 .. n /\ h[k] = IF x[2] \in keys THEN s ELSE Append(s, x)
    BY <1>1, <1>2, <1>4 DEF DropLoop
  <2>2. x[2] \notin keys => Clean(Append(s, x))
    <3> SUFFICES ASSUME x[2] \notin keys PROVE Clean(Append(s, x))
      OBVIOUS
    <3> DEFINE t == Append(s, x)
    <3>1. IsSequence(s) /\ \A i \in 1 .. Len(s) : s[i][2] \notin keys
      BY <2>1
    <3> HIDE DEF s, x
    <3>2. /\ Len(s) \in Nat /\ IsSequence(t) /\ Len(t) = Len(s) + 1 /\ t[Len(s) + 1] = x
          /\ \A i \in 1 .. Len(s) : t[i] = s[i]
      BY <3>1, Longer
    <3>3. \A i \in 1 .. Len(s) + 1 : i \in 1 .. Len(s) \/ i = Len(s) + 1
      BY <3>2
    <3> HIDE DEF t
    <3>4. Clean(t)
      BY <3>1, <3>2, <3>3
    <3> QED BY <3>4 DEF t
  <2> HIDE DEF Clean, s, x
  <2>3. Clean(h[k])
    BY <2>1, <2>2
  <2> QED BY <2>1, <2>3
<1>5. n \in T
  <2>1. 0 .. n \subseteq T
    <3> HIDE DEF T, n
    <3> QED BY <1>1, <1>3, <1>4, IntervalInduction
  <2>2. n \in 0 .. n
    BY <1>1
  <2> QED BY <2>1, <2>2
<1> QED BY <1>2, <1>5

\* Where there is none of the keys, nothing is dropped.
LEMMA NothingDropped ==
    ASSUME NEW s, NEW keys, IsSequence(s), \A i \in 1 .. Len(s) : s[i][2] \notin keys
    PROVE  Without(s, keys) = s
<1> DEFINE n == Len(s)
<1>1. n \in Nat
  BY Longer
<1>2. PICK h : DropLoop(h, s, keys) /\ Without(s, keys) = h[n]
  BY WithoutIs
<1> DEFINE T == {k \in 0 .. n : Len(h[k]) = k /\ \A i \in 1 .. k : h[k][i] = s[i]}
<1>3. 0 \in T
  <2>1. 0 \in 0 .. n /\ h[0] = <<>>
    BY <1>1, <1>2 DEF DropLoop
  <2> QED BY <2>1, EmptyIs
<1>4. ASSUME NEW k \in 1 .. n, k - 1 \in T PROVE k \in T
  <2> DEFINE t == h[k - 1]
             x == s[k]
  <2>1. /\ Len(t) = k - 1 /\ (\A i \in 1 .. k - 1 : t[i] = s[i]) /\ IsSequence(t) /\ h[k] = Append(t, x) /\ k \in 0 .. n
    <3>1. k - 1 \in 0 .. n /\ k \in 0 .. n /\ x[2] \notin keys
      BY <1>1
    <3>2. Len(t) = k - 1 /\ \A i \in 1 .. k - 1 : t[i] = s[i]
      BY <1>4
    <3>3. IsSequence(t) /\ h[k] = IF x[2] \in keys THEN t ELSE Append(t, x)
      BY <1>2, <3>1 DEF DropLoop
    <3> HIDE DEF t, x, n
    <3> QED BY <3>1, <3>2, <3>3
  <2> HIDE DEF t
  <2>2. Len(h[k]) = Len(t) + 1 /\ h[k][Len(t) + 1] = x /\ \A i \in 1 .. Len(t) : h[k][i] = t[i]
    BY <2>1, Longer
  <2>3. \A i \in 1 .. k : i \in 1 .. k - 1 \/ i = k
    BY <1>1
  <2>4. Len(h[k]) = k /\ \A i \in 1 .. k : h[k][i] = s[i]
    BY <1>1, <2>1, <2>2, <2>3
  <2> QED BY <2>1, <2>4
<1>5. n \in T
  <2>1. 0 .. n \subseteq T
    <3> HIDE DEF T, n
    <3> QED BY <1>1, <1>3, <1>4, IntervalInduction
  <2>2. n \in 0 .. n
    BY <1>1
  <2> QED BY <2>1, <2>2
<1>6. IsSequence(h[n])
  BY <1>1, <1>2 DEF DropLoop
<1> QED BY <1>2, <1>5, <1>6, SameSequence

\* A key written is read back, and differs from before in that key only.
LEMMA PutIs ==
    ASSUME NEW r, NEW k, NEW v, IsSequence(r)
    PROVE  Without(Put(r, k, v), {k}) = Without(r, {k}) /\ At(Put(r, k, v), k) = v
<1> DEFINE n == Len(r)
           s == Put(r, k, v)
           e == EntryV(k, v)
<1>1. n \in Nat /\ DOMAIN r = 1 .. n
  BY Longer
<1>2. e[2] = k /\ e[3] = v
  BY DEF EntryV
<1>3. CASE InMap(r, k)
  <2>1. s = [i \in 1 .. n |-> IF r[i][2] = k THEN e ELSE r[i]]
    BY <1>1, <1>3 DEF Put
  <2> HIDE DEF s, e, n
  <2>2. IsSequence(s) /\ Len(s) = n
    <3>1. s = [i \in 1 .. n |-> s[i]] /\ DOMAIN s = 1 .. n
      BY <2>1
    <3> QED BY <1>1, <3>1, OnAnInterval
  <2>3. Without(r, {k}) = Without(s, {k})
    <3>1. \A i \in 1 .. n : r[i] = s[i] \/ (r[i][2] \in {k} /\ s[i][2] \in {k})
      BY <1>2, <2>1
    <3>2. n <= n /\ n + 1 .. n = {}
      BY <1>1
    <3> QED BY <2>2, <3>1, <3>2, SameWithout DEF n
  <2>4. At(s, k) = v
    <3>1. PICK i \in 1 .. n : r[i][2] = k
      BY <1>1, <1>3 DEF InMap
    <3>2. DOMAIN s = 1 .. n /\ s[i][2] = k /\ \A j \in 1 .. n : s[j][2] = k => s[j][3] = v
      BY <1>2, <2>1, <3>1
    <3>3. InMap(s, k)
      BY <3>2 DEF InMap
    <3> QED BY <3>2, <3>3 DEF At
  <2> QED BY <2>3, <2>4 DEF s
<1>4. CASE ~InMap(r, k)
  <2>1. s = Append(r, e)
    BY <1>4 DEF Put
  <2> HIDE DEF s, e, n
  <2>2. IsSequence(s) /\ Len(s) = n + 1 /\ DOMAIN s = 1 .. n + 1 /\ s[n + 1] = e /\ \A i \in 1 .. n : s[i] = r[i]
    BY <2>1, Longer DEF n
  <2>3. Without(r, {k}) = Without(s, {k})
    <3>1. n <= Len(s) /\ \A i \in n + 1 .. Len(s) : s[i][2] \in {k}
      BY <1>1, <1>2, <2>2
    <3>2. \A i \in 1 .. n : r[i] = s[i] \/ (r[i][2] \in {k} /\ s[i][2] \in {k})
      BY <2>2
    <3> QED BY <2>2, <3>1, <3>2, SameWithout DEF n
  <2>4. At(s, k) = v
    <3>1. \A j \in 1 .. n + 1 : s[j][2] = k <=> j = n + 1
      <4>1. \A j \in 1 .. n + 1 : j \in 1 .. n \/ j = n + 1
        BY <1>1
      <4>2. \A j \in 1 .. n : r[j][2] # k /\ j # n + 1
        BY <1>1, <1>4 DEF InMap
      <4> QED BY <1>2, <2>2, <4>1, <4>2
    <3>2. n + 1 \in 1 .. n + 1
      BY <1>1
    <3>3. InMap(s, k) /\ (CHOOSE j \in DOMAIN s : s[j][2] = k) = n + 1
      BY <2>2, <3>1, <3>2 DEF InMap
    <3> QED BY <1>2, <2>2, <3>3 DEF At
  <2> QED BY <2>3, <2>4 DEF s
<1> QED BY <1>3, <1>4

\* A key dropped is read as null, and nothing else is dropped with it.
LEMMA DroppedIs ==
    ASSUME NEW r, NEW k, IsSequence(r)
    PROVE  Without(Without(r, {k}), {k}) = Without(r, {k}) /\ At(Without(r, {k}), k) = Null
<1> DEFINE s == Without(r, {k})
<1>1. IsSequence(s) /\ \A i \in 1 .. Len(s) : s[i][2] \notin {k}
  BY NoneLeft
<1> HIDE DEF s
<1>2. Without(s, {k}) = s
  BY <1>1, NothingDropped
<1>3. ~InMap(s, k)
  BY <1>1, Longer DEF InMap
<1>4. At(s, k) = Null
  BY <1>3 DEF At
<1> QED BY <1>2, <1>4 DEF s

\* What the closure put in besides is not the key that is computed.
LEMMA AtLeft ==
    ASSUME IsMapWalk, walk.method # "replaceAll", NEW r, LeftIn(r)
    PROVE  At(r, walk.key) = At(walk.copied, walk.key)
<1> DEFINE n == Len(walk.copied)
           key == walk.key
<1>1. n \in Nat /\ DOMAIN walk.copied = 1 .. n
  BY Longer DEF IsMapWalk
<1>2. /\ IsSequence(r) /\ Len(r) = n + (IF PutOne THEN 1 ELSE 0) /\ (PutOne => r[n + 1] = Extra)
      /\ \A i \in 1 .. n : r[i] = walk.copied[i]
  BY <1>1 DEF LeftIn, WroteAt
<1>3. DOMAIN r = 1 .. Len(r) /\ \A i \in 1 .. Len(r) : r[i][2] = key => i \in 1 .. n
  <2>1. CASE PutOne
    <3>1. Len(r) = n + 1 /\ r[n + 1][2] # key
      BY <1>2, <2>1 DEF IsMapWalk
    <3> HIDE DEF n, key
    <3>2. \A i \in 1 .. Len(r) : i \in 1 .. n \/ i = n + 1
      BY <1>1, <3>1
    <3> QED BY <1>2, <3>1, <3>2, Longer
  <2>2. CASE ~PutOne
    <3>1. Len(r) = n
      BY <1>1, <1>2, <2>2
    <3> QED BY <1>2, <3>1, Longer
  <2> QED BY <2>1, <2>2
<1>4. \A i \in 1 .. n : i \in 1 .. Len(r)
  <2>1. CASE PutOne
    <3>1. Len(r) = n + 1
      BY <1>2, <2>1
    <3> HIDE DEF n
    <3> QED BY <1>1, <3>1
  <2>2. CASE ~PutOne
    <3>1. Len(r) = n
      BY <1>1, <1>2, <2>2
    <3> QED BY <3>1
  <2> QED BY <2>1, <2>2
<1>5. CASE InMap(walk.copied, key)
  <2>1. PICK i \in 1 .. n : walk.copied[i][2] = key
    BY <1>1, <1>5 DEF InMap
  <2>2. \A j \in 1 .. n : walk.copied[j][2] = key => j = i
    BY <1>1, <2>1 DEF IsMapWalk
  <2>3. i \in DOMAIN r /\ r[i][2] = key /\ \A j \in DOMAIN r : r[j][2] = key => j = i
    BY <1>2, <1>3, <1>4, <2>1, <2>2
  <2>4. InMap(r, key) /\ (CHOOSE j \in DOMAIN r : r[j][2] = key) = i
    BY <2>3 DEF InMap
  <2>5. (CHOOSE j \in DOMAIN walk.copied : walk.copied[j][2] = key) = i
    BY <1>1, <2>1, <2>2
  <2>6. At(r, key) = r[i][3]
    <3> HIDE DEF key
    <3> QED BY <2>4 DEF At
  <2>7. At(walk.copied, key) = walk.copied[i][3]
    <3> HIDE DEF key
    <3> QED BY <1>5, <2>5 DEF At
  <2> QED BY <1>2, <2>6, <2>7
<1>6. CASE ~InMap(walk.copied, key)
  <2>1. ~InMap(r, key)
    BY <1>1, <1>2, <1>3, <1>6 DEF InMap
  <2> QED BY <1>6, <2>1 DEF At
<1> QED BY <1>5, <1>6

\* A filter of a map drops the keys it has judged out.
LEMMA DropsJudged ==
    ASSUME WalkInv, walk.kind = "map", walk.method \in Removers
    PROVE  Acc(walk, Said) = JudgedOut
<1> DEFINE n == Len(Said)
           Out(k) == {walk.items[i][2] : i \in {j \in 1 .. k : Truthy(Said[j]) # (walk.method = "retainAll")}}
           h == [k \in 0 .. n |-> Out(k)]
           after == CHOOSE f : f = [k \in 0 .. n |-> IF k = 0 THEN Opening(walk) ELSE Turn(walk, f[k - 1], k, walk.items[k], Said[k])]
<1>1. n \in Nat /\ DOMAIN closureCalls = 1 .. n /\ \A i \in 1 .. n : Said[i] = closureCalls[i].says
  <2>1. Len(closureCalls) \in Nat /\ DOMAIN closureCalls = 1 .. Len(closureCalls)
    BY Longer DEF WalkInv
  <2>2. Said = [i \in 1 .. Len(closureCalls) |-> Said[i]] /\ DOMAIN Said = 1 .. Len(closureCalls)
    BY <2>1 DEF Said
  <2>3. Len(Said) = Len(closureCalls)
    <3> DEFINE s == Said
    <3> HIDE DEF s
    <3>1. s = [i \in 1 .. Len(closureCalls) |-> s[i]] /\ DOMAIN s = 1 .. Len(closureCalls)
      BY <2>2 DEF s
    <3>2. Len(s) = Len(closureCalls)
      BY <2>1, <3>1, OnAnInterval
    <3> QED BY <3>2 DEF s
  <2> QED BY <2>1, <2>3 DEF Said
<1>2. Opening(walk) = {}
  BY Zenon DEF Opening, Deciders, Removers
<1>3. \A acc, i, it, v : Turn(walk, acc, i, it, v) = MapRemoveIf(acc, walk.method, it, v)
  <2>1. /\ walk.method \notin Visitors /\ walk.method \notin Deciders
        /\ walk.method \notin {"collect", "permutations", "collectMany", "collectEntries", "findResults", "grep", "findAll", "split",
                               "count", "findIndexValues", "groupBy", "countBy", "inject", "sum"}
    BY DEF Visitors, Deciders, Removers
  <2> QED BY <2>1, Zenon DEF Turn
<1>4. h = [k \in 0 .. n |-> IF k = 0 THEN Opening(walk) ELSE Turn(walk, h[k - 1], k, walk.items[k], Said[k])]
  <2>1. Out(0) = {}
    OBVIOUS
  <2>2. ASSUME NEW k \in 0 .. n, k # 0 PROVE Out(k) = MapRemoveIf(h[k - 1], walk.method, walk.items[k], Said[k])
    <3>1. k - 1 \in 0 .. n /\ \A j \in 1 .. k : j \in 1 .. k - 1 \/ j = k
      BY <1>1, <2>2
    <3>2. k \in 1 .. k /\ \A j \in 1 .. k - 1 : j \in 1 .. k
      BY <1>1, <2>2
    <3>3. h[k - 1] = Out(k - 1)
      BY <3>1
    <3>4. Out(k) = IF Truthy(Said[k]) # (walk.method = "retainAll") THEN Out(k - 1) \cup {walk.items[k][2]} ELSE Out(k - 1)
      <4> HIDE DEF n
      <4> QED BY <3>1, <3>2
    <3> HIDE DEF h, Out
    <3> QED BY <3>3, <3>4 DEF MapRemoveIf
  <2>3. h = [k \in 0 .. n |-> h[k]] /\ \A k \in 0 .. n : h[k] = Out(k)
    OBVIOUS
  <2> HIDE DEF Out, n, h
  <2>4. \A k \in 0 .. n : h[k] = IF k = 0 THEN Opening(walk) ELSE Turn(walk, h[k - 1], k, walk.items[k], Said[k])
    <3> SUFFICES ASSUME NEW k \in 0 .. n
                 PROVE  h[k] = IF k = 0 THEN Opening(walk) ELSE Turn(walk, h[k - 1], k, walk.items[k], Said[k])
      OBVIOUS
    <3>1. CASE k = 0
      BY <1>2, <2>1, <2>3, <3>1
    <3>2. CASE k # 0
      <4>1. Turn(walk, h[k - 1], k, walk.items[k], Said[k]) = MapRemoveIf(h[k - 1], walk.method, walk.items[k], Said[k])
        BY <1>3
      <4> QED BY <2>2, <2>3, <3>2, <4>1
    <3> QED BY <3>1, <3>2
  <2> QED BY <2>3, <2>4, Zenon
<1>5. after = [k \in 0 .. n |-> IF k = 0 THEN Opening(walk) ELSE Turn(walk, after[k - 1], k, walk.items[k], Said[k])]
  <2> HIDE DEF h, n
  <2> QED BY <1>4, Zenon
<1>6. Acc(walk, Said) = after[n]
  BY DEF Acc
<1> HIDE DEF after
<1> DEFINE T == {k \in 0 .. n : after[k] = h[k]}
<1>7. 0 \in T
  <2> HIDE DEF h, n
  <2>1. 0 \in 0 .. n
    BY <1>1
  <2> QED BY <1>4, <1>5, <2>1, Zenon
<1>8. ASSUME NEW k \in 1 .. n, k - 1 \in T PROVE k \in T
  <2>1. k \in 0 .. n /\ k # 0 /\ after[k - 1] = h[k - 1]
    BY <1>1, <1>8
  <2> HIDE DEF h, n
  <2> QED BY <1>4, <1>5, <2>1, Zenon
<1>9. after[n] = Out(n)
  <2>1. 0 .. n \subseteq T
    <3> HIDE DEF T, n
    <3> QED BY <1>1, <1>7, <1>8, IntervalInduction
  <2>2. n \in 0 .. n
    BY <1>1
  <2> QED BY <2>1, <2>2
<1>10. Out(n) = JudgedOut
  <2> HIDE DEF n
  <2> QED BY <1>1 DEF JudgedOut
<1> QED BY <1>6, <1>9, <1>10

-----------------------------------------------------------------------------
\* A map holds what the calls left of it until a method that writes is
\* through, and then what that method promises.
Wrote == Finished /\ NoRaise /\ walk.method \in Removers \cup Computers
MapInv ==
    (walk # NoWalk /\ walk.kind = "map" /\ ~Refused) =>
        /\ CallsByKey
        /\ \A i \in DOMAIN closureCalls : closureCalls[i].says # Unanswered
        /\ Wrote => KeepsWhatTheClosurePut
        /\ ~Wrote => LeftIn(receiver)

\* A method begins with the receiver as it is.
LEMMA CallBeginsMap ==
    ASSUME WalkInv, NEW w \in Walks, StartWalk(w), WalkInv'
    PROVE  MapInv'
<1> SUFFICES ASSUME walk'.kind = "map", ~Refused' PROVE MapInv'
  BY DEF MapInv
<1>1. closureCalls' = <<>> /\ receiver' = w.items /\ walk' # NoWalk /\ Began(w)' /\ (answer' = Unanswered \/ w.plain)
  BY CallBegins
<1>2. w \in MapWalks /\ walk'.copied = w.items /\ walk'.method = w.method
  BY <1>1, WalksAssumption DEF Walks, Began, Fixed
<1>3. ~Wrote'
  BY <1>1, <1>2, WalksAssumption DEF Wrote, Finished
<1>4. CallsByKey' /\ \A i \in DOMAIN closureCalls' : closureCalls'[i].says # Unanswered
  BY <1>1, EmptyIs DEF CallsByKey
<1>5. LeftIn(receiver)'
  <2>1. IsSequence(w.items) /\ Len(w.items) \in Nat /\ DOMAIN w.items = 1 .. Len(w.items) /\ DOMAIN closureCalls' = {}
    BY <1>1, WalksAre, Longer, EmptyIs
  <2>2. ~PutOne' /\ \A i \in DOMAIN w.items : WroteAt(i)' = w.items[i]
    BY <1>2, <2>1 DEF PutOne, WroteAt
  <2> QED BY <1>1, <1>2, <2>1, <2>2 DEF LeftIn
<1> QED BY <1>3, <1>4, <1>5 DEF MapInv

\* A call of the closure leaves of the map what the calls leave.
LEMMA CallKeepsMapInv ==
    ASSUME WalkInv, MapInv,
           NEW v, v # Unanswered, NEW raises \in BOOLEAN, NEW puts \in BOOLEAN, Calls(v, raises, puts),
           puts => ~raises /\ ~InMap(receiver, Extra[2]),
           receiver' = IF raises THEN receiver ELSE Written(IF puts THEN Append(receiver, Extra) ELSE receiver, v),
           raises \/ answer' = answer
    PROVE  MapInv'
<1> SUFFICES ASSUME walk'.kind = "map" PROVE MapInv'
  BY DEF MapInv
<1>1. /\ walk' = walk /\ walk # NoWalk /\ answer = Unanswered /\ ~Refused
      /\ Asked \in Nat /\ DOMAIN closureCalls = 1 .. Asked /\ DOMAIN closureCalls' = 1 .. Asked + 1
      /\ \A i \in 1 .. Asked : closureCalls'[i] = closureCalls[i]
      /\ closureCalls'[Asked + 1] = [args |-> NextArgs, says |-> v, raises |-> raises, puts |-> puts]
  BY CallsOn
<1>2. IsMapWalk /\ ~Wrote /\ CallsByKey /\ LeftIn(receiver)
  BY <1>1, MapFields DEF Wrote, Finished, MapInv
<1>3. CallsByKey' /\ LeftIn(receiver)'
  <2> DEFINE q == IF puts THEN Append(receiver, Extra) ELSE receiver
  <2>1. receiver' = IF raises THEN receiver ELSE Written(q, v)
    OBVIOUS
  <2> HIDE DEF q
  <2> QED BY <1>2, <2>1, CallKeepsLeft DEF q
<1> DEFINE args == NextArgs
<1>4. closureCalls'[Asked + 1].says = v /\ closureCalls'[Asked + 1].raises = raises
  <2>1. closureCalls'[Asked + 1] = [args |-> args, says |-> v, raises |-> raises, puts |-> puts]
    BY <1>1
  <2> HIDE DEF args
  <2> QED BY <2>1
<1>5. ~Wrote'
  <2>1. Asked + 1 \in DOMAIN closureCalls'
    BY <1>1
  <2>2. raises => ~NoRaise'
    BY <1>4, <2>1 DEF NoRaise
  <2>3. ~raises => ~Finished'
    BY <1>1 DEF Finished
  <2> QED BY <2>2, <2>3 DEF Wrote
<1>6. \A i \in DOMAIN closureCalls' : closureCalls'[i].says # Unanswered
  <2>1. \A i \in 1 .. Asked + 1 : i \in 1 .. Asked \/ i = Asked + 1
    BY <1>1
  <2>2. \A i \in 1 .. Asked : closureCalls[i].says # Unanswered
    BY <1>1 DEF MapInv
  <2> QED BY <1>1, <1>4, <2>1, <2>2
<1> QED BY <1>3, <1>5, <1>6 DEF MapInv

\* A method that computes one value stores it under its key.
LEMMA ComputedIs ==
    ASSUME WalkInv, MapInv, Ends, IsMapWalk, walk.method \in Computers, LeftIn(receiver), ~Refused
    PROVE  /\ answer' # Unanswered
           /\ Without(receiver', {walk.key}) = Without(receiver, {walk.key})
           /\ At(receiver', walk.key) = IF walk.method = "computeIfAbsent" /\ answer' = Null THEN At(walk.copied, walk.key) ELSE answer'
<1> DEFINE key == walk.key
           old == At(walk.copied, key)
           m == walk.method
           said == Said[1]
<1>1. /\ walk # NoWalk /\ NextArgs = <<>> /\ answer' = Outcomes(walk, Said) /\ receiver' = StoredBack(walk, Said)
  BY DEF Ends, Running
<1>2. walk.kind = "map" /\ walk.items = walk.copied /\ Old(walk) = old /\ IsSequence(receiver)
  BY DEF IsMapWalk, Writers, Old, LeftIn
<1>3. m \in {"computeIfAbsent", "computeIfPresent", "compute", "merge"} /\ m \notin Orderings /\ m # "partitionPoint" /\ m \notin Removers
  BY DEF Computers, Orderings, Removers
<1>4. At(receiver, key) = old
  BY <1>3, AtLeft
<1>5. answer' = IF NeedsNoCall(walk) THEN Uncalled(walk) ELSE said
  <2> HIDE DEF m, said
  <2> QED BY <1>1, <1>2, <1>3, Zenon DEF Outcomes, m, said
<1>6. receiver' = IF m = "merge" /\ NeedsNoCall(walk) THEN Put(receiver, key, walk.value)
                  ELSE IF NeedsNoCall(walk) THEN receiver ELSE Computed(walk, receiver, said)
  <2>1. receiver' = CASE m = "merge" /\ NeedsNoCall(walk) -> Put(receiver, key, walk.value)
                      [] m \in Computers /\ ~NeedsNoCall(walk) -> Computed(walk, receiver, said)
                      [] OTHER -> receiver
    BY <1>1, <1>2, <1>3, Zenon DEF StoredBack
  <2>2. CASE NeedsNoCall(walk) /\ m = "merge"
    BY <2>1, <2>2, Zenon
  <2>3. CASE NeedsNoCall(walk) /\ m # "merge"
    BY <2>1, <2>3, Zenon
  <2>4. CASE ~NeedsNoCall(walk)
    BY <2>1, <2>4, Zenon
  <2> QED BY <2>2, <2>3, <2>4
<1>7. walk.value # Unanswered /\ old # Unanswered
  <2>1. PICK w \in Walks : Began(w)
    BY <1>1 DEF WalkInv
  <2>2. w \in MapWalks /\ walk.value = w.value /\ walk.copied = w.items /\ w.method \in Computers
    BY <1>2, <2>1, WalksAssumption DEF Walks, Began, Fixed
  <2>3. walk.value # Unanswered /\ \A i \in DOMAIN walk.copied : walk.copied[i][3] # Unanswered
    BY <2>2, WalksAssumption
  <2>4. Null # Unanswered
    BY DEF Null, Unanswered
  <2>5. ASSUME InMap(walk.copied, key) PROVE old # Unanswered
    <3> DEFINE i == CHOOSE j \in DOMAIN walk.copied : walk.copied[j][2] = key
    <3>1. i \in DOMAIN walk.copied
      BY <2>5 DEF InMap
    <3>2. old = walk.copied[i][3]
      BY <2>5 DEF At
    <3> QED BY <2>3, <3>1, <3>2
  <2>6. ASSUME ~InMap(walk.copied, key) PROVE old # Unanswered
    <3>1. old = Null
      BY <2>6 DEF At
    <3> QED BY <2>4, <3>1
  <2> HIDE DEF old
  <2> QED BY <2>3, <2>5, <2>6
<1>8. CASE NeedsNoCall(walk)
  <2>1. CASE m = "computeIfAbsent"
    <3>1. Uncalled(walk) = old
      BY <1>2, <2>1 DEF Uncalled
    <3> QED BY <1>4, <1>5, <1>6, <1>7, <1>8, <2>1, <3>1
  <2>2. CASE m = "computeIfPresent"
    <3>1. Uncalled(walk) = Null /\ old = Null
      BY <1>2, <1>8, <2>2 DEF Uncalled, NeedsNoCall
    <3> QED BY <1>4, <1>5, <1>6, <1>7, <1>8, <2>2, <3>1
  <2>3. CASE m = "merge"
    <3>1. Uncalled(walk) = walk.value
      BY <2>3 DEF Uncalled
    <3>2. answer' = walk.value /\ receiver' = Put(receiver, key, walk.value)
      BY <1>5, <1>6, <1>8, <2>3, <3>1
    <3> QED BY <1>2, <1>7, <2>3, <3>2, PutIs
  <2>4. m # "compute"
    BY <1>8 DEF NeedsNoCall
  <2> QED BY <1>3, <2>1, <2>2, <2>3, <2>4
<1>9. CASE ~NeedsNoCall(walk)
  <2>1. Len(closureCalls) # 0
    <3> SUFFICES ASSUME Len(closureCalls) = 0 PROVE FALSE
      OBVIOUS
    <3> DEFINE args == ComputeArgs(walk)
    <3>1. NextArgs = args
      <4> HIDE DEF args
      <4> QED BY <1>2, <1>3, <1>9, Zenon DEF NextArgs, args
    <3>2. args # <<>>
      BY DEF ComputeArgs
    <3> QED BY <1>1, <3>1, <3>2
  <2>2. said # Unanswered
    <3>1. 1 \in DOMAIN closureCalls
      <4>1. Len(closureCalls) \in Nat /\ DOMAIN closureCalls = 1 .. Len(closureCalls)
        BY Longer DEF WalkInv
      <4> QED BY <2>1, <4>1
    <3> QED BY <1>1, <1>2, <3>1 DEF Said, MapInv
  <2> HIDE DEF said
  <2>3. answer' = said /\ receiver' = Computed(walk, receiver, said)
    BY <1>5, <1>6, <1>9
  <2>4. CASE said # Null
    <3>1. receiver' = Put(receiver, key, said)
      BY <2>3, <2>4 DEF Computed
    <3> QED BY <1>2, <2>2, <2>3, <2>4, <3>1, PutIs
  <2>5. CASE said = Null /\ m = "computeIfAbsent"
    <3>1. receiver' = receiver
      BY <2>3, <2>5 DEF Computed
    <3> QED BY <1>4, <2>2, <2>3, <2>5, <3>1
  <2>6. CASE said = Null /\ m # "computeIfAbsent"
    <3>1. receiver' = Without(receiver, {key})
      BY <2>3, <2>6 DEF Computed
    <3> QED BY <1>2, <2>2, <2>3, <2>6, <3>1, DroppedIs
  <2> QED BY <2>4, <2>5, <2>6
<1> QED BY <1>8, <1>9

\* A method of a map ends with what it promises.
LEMMA EndsKeepsMapInv ==
    ASSUME WalkInv, MapInv, Ends
    PROVE  MapInv'
<1> SUFFICES ASSUME walk'.kind = "map" PROVE MapInv'
  BY DEF MapInv
<1>1. /\ walk # NoWalk /\ answer = Unanswered /\ walk' = walk /\ closureCalls' = closureCalls /\ pending' = pending
      /\ receiver' = StoredBack(walk, Said)
  BY DEF Ends, Running
<1>2. ~Refused /\ ~Raised
  BY <1>1 DEF Refused, Raised, Unanswered, Null
<1>3. /\ IsMapWalk /\ ~Wrote /\ CallsByKey /\ LeftIn(receiver) /\ \A i \in DOMAIN closureCalls : closureCalls[i].says # Unanswered
  BY <1>1, <1>2, MapFields DEF Wrote, Finished, MapInv
<1>4. CallsByKey' /\ \A i \in DOMAIN closureCalls' : closureCalls'[i].says # Unanswered
  BY <1>1, <1>3 DEF CallsByKey
<1>5. LeftByCalls' = LeftByCalls /\ JudgedOut' = JudgedOut /\ receiver = LeftByCalls
  <2>1. LeftIn(LeftByCalls)
    BY <1>3, LeftIs
  <2>2. receiver = LeftByCalls
    BY <1>3, <2>1, OneLeft
  <2>3. LeftByCalls' = LeftByCalls /\ JudgedOut' = JudgedOut
    BY <1>1 DEF LeftByCalls, JudgedOut
  <2> QED BY <2>2, <2>3
<1>6. CASE walk.method \in Removers
  <2>1. receiver' = Without(receiver, JudgedOut)
    <3>1. StoredBack(walk, Said) = MapRetain(walk, Acc(walk, Said))
      <4>1. walk.kind = "map" /\ walk.method # "merge" /\ walk.method \notin Computers
        BY <1>1, <1>6 DEF Removers, Computers
      <4> QED BY <1>6, <4>1, Zenon DEF StoredBack
    <3> QED BY <1>1, <1>6, <3>1, DropsJudged DEF MapRetain
  <2>2. Wrote'
    <3>1. answer' = Outcomes(walk, Said)
      BY DEF Ends
    <3> DEFINE b == IF walk.kind = "map" THEN Acc(walk, Said) # {} ELSE Acc(walk, Said) # walk.items
    <3>2. Outcomes(walk, Said) = BoolV(b)
      <4>1. walk.kind # "number" /\ walk.method \notin Orderings /\ walk.method # "partitionPoint" /\ walk.method \notin Computers
        BY <1>1, <1>6 DEF Removers, Computers, Orderings
      <4>2. walk.method \notin Deciders /\ walk.method \notin {"each", "eachWithIndex", "reverseEach", "eachPermutation", "forEach",
                "replaceAll", "count", "inject", "sum", "collectEntries", "groupBy", "countBy"}
        BY <1>6 DEF Removers, Deciders
      <4>3. Outcomes(walk, Said) = Made(walk, Said)
        BY <4>1, Zenon DEF Outcomes
      <4>4. Made(walk, Said) = BoolV(b)
        BY <1>6, <4>2, Zenon DEF Made
      <4> QED BY <4>3, <4>4
    <3>3. answer' # Unanswered
      <4> HIDE DEF b
      <4> QED BY <3>1, <3>2 DEF BoolV, Unanswered
    <3>4. NoRaise'
      <4>1. walk.method \notin Orderings
        BY <1>6 DEF Removers, Orderings
      <4> QED BY <1>1, <1>2, <4>1 DEF WalkInv, Unraised, NoRaise
    <3> QED BY <1>1, <1>6, <3>3, <3>4 DEF Wrote, Finished
  <2>3. KeepsWhatTheClosurePut'
    <3>1. receiver' = Without(LeftByCalls', JudgedOut')
      BY <1>5, <2>1
    <3> QED BY <1>1, <1>6, <3>1, Zenon DEF KeepsWhatTheClosurePut, Removers, Computers
  <2> QED BY <1>4, <2>2, <2>3 DEF MapInv
<1>7. CASE walk.method \in Computers
  <2>1. /\ answer' # Unanswered
        /\ Without(receiver', {walk.key}) = Without(receiver, {walk.key})
        /\ At(receiver', walk.key) = IF walk.method = "computeIfAbsent" /\ answer' = Null THEN At(walk.copied, walk.key) ELSE answer'
    BY <1>2, <1>3, <1>7, ComputedIs
  <2>2. Wrote'
    <3>1. walk.method \notin Orderings
      BY <1>7 DEF Computers, Orderings
    <3>2. NoRaise'
      BY <1>1, <1>2, <3>1 DEF WalkInv, Unraised, NoRaise
    <3> QED BY <1>1, <1>7, <2>1, <3>2 DEF Wrote, Finished
  <2>3. KeepsWhatTheClosurePut'
    <3>1. walk'.method \in Computers /\ walk'.method \notin Removers
      BY <1>1, <1>7 DEF Computers, Removers
    <3>2. /\ Without(receiver', {walk'.key}) = Without(LeftByCalls', {walk'.key})
          /\ At(receiver', walk'.key) = IF walk'.method = "computeIfAbsent" /\ answer' = Null THEN At(walk'.copied, walk'.key) ELSE answer'
      BY <1>1, <1>5, <2>1
    <3> QED BY <3>1, <3>2, Zenon DEF KeepsWhatTheClosurePut
  <2> QED BY <1>4, <2>2, <2>3 DEF MapInv
<1>8. CASE walk.method \notin Removers \cup Computers
  <2>1. receiver' = receiver
    <3>1. walk.kind = "map" /\ walk.kind # "list" /\ walk.method # "merge" /\ walk.method \notin Computers /\ walk.method \notin Removers
      BY <1>1, <1>8 DEF Computers
    <3> QED BY <1>1, <3>1, Zenon DEF StoredBack
  <2>2. LeftIn(receiver)'
    BY <1>1, <1>3, <2>1 DEF LeftIn, PutOne, WroteAt
  <2>3. ~Wrote'
    BY <1>1, <1>8 DEF Wrote
  <2> QED BY <1>4, <2>2, <2>3 DEF MapInv
<1> QED BY <1>6, <1>7, <1>8

\* Each step keeps the invariant of maps.
LEMMA NextKeepsMapInv == WalkInv /\ MapInv /\ [IterationNext]_walkVars => MapInv'
<1> SUFFICES ASSUME WalkInv, MapInv, [IterationNext]_walkVars PROVE MapInv'
  OBVIOUS
<1> DEFINE yes == TRUE
           no == FALSE
<1>1. yes \in BOOLEAN /\ no \in BOOLEAN /\ yes /\ ~no
  OBVIOUS
<1>2. \A v \in MayAnswer : walk.kind = "map" => v # Unanswered
  <2> SUFFICES ASSUME walk.kind = "map" PROVE MayAnswer \subseteq Answers \cup OrderAnswers
    BY WalksAssumption
  <2> QED BY DEF MayAnswer
<1>3. Null # Unanswered
  BY DEF Null, Unanswered
<1>4. SUFFICES ASSUME walk # NoWalk => walk.kind = "map" PROVE MapInv'
  <2> SUFFICES ASSUME walk # NoWalk, walk.kind # "map" PROVE MapInv'
    BY <1>4
  <2>1. walk' = walk
    BY DEF StartWalk, Returns, Puts, Raises, Unwinds, Catches, Ends, Calls, IterationNext, walkVars
  <2> QED BY <2>1 DEF MapInv
<1>5. ASSUME NEW w \in Walks, StartWalk(w) PROVE MapInv'
  <2>1. [IterationNext]_walkVars => WalkInv'
    BY NextKeepsWalkInv
  <2> QED BY <1>5, <2>1, CallBeginsMap
<1>6. CASE Returns
  <2>1. PICK v \in MayAnswer : Calls(v, no, no) /\ receiver' = Written(receiver, v)
    BY <1>6 DEF Returns
  <2>2. walk # NoWalk /\ answer' = answer
    BY <1>6, <2>1 DEF Returns, Calls, Running
  <2>3. v # Unanswered
    BY <1>2, <1>4, <2>2
  <2> HIDE DEF no
  <2> QED BY <1>1, <2>1, <2>2, <2>3, CallKeepsMapInv
<1>7. CASE Puts
  <2>1. PICK v \in MayAnswer : Calls(v, no, yes) /\ receiver' = Written(Append(receiver, Extra), v)
    BY <1>7 DEF Puts
  <2>2. walk # NoWalk /\ answer' = answer /\ ~InMap(receiver, Extra[2])
    BY <1>7 DEF Puts, Running
  <2>3. v # Unanswered
    BY <1>2, <1>4, <2>2
  <2> HIDE DEF no, yes
  <2> QED BY <1>1, <2>1, <2>2, <2>3, CallKeepsMapInv
<1>8. CASE Raises
  <2>1. Calls(Null, yes, no) /\ receiver' = receiver
    BY <1>8 DEF Raises
  <2> HIDE DEF no, yes
  <2> QED BY <1>1, <1>3, <2>1, CallKeepsMapInv
<1>9. CASE Unwinds
  <2>1. Calls(Null, no, no) /\ receiver' = receiver /\ answer' = answer /\ pending # 0
    BY <1>9 DEF Unwinds
  <2> HIDE DEF no
  <2>2. walk.method \in Orderings
    BY <1>1, <2>1, CallsOn DEF Unraised
  <2>3. Written(receiver, Null) = receiver
    BY <2>2 DEF Written, Orderings
  <2> QED BY <1>1, <1>3, <2>1, <2>3, CallKeepsMapInv
<1>10. CASE Catches
  <2>1. PICK v \in MayAnswer : Calls(v, no, no) /\ receiver' = receiver /\ answer' = answer /\ pending # 0
    BY <1>10 DEF Catches
  <2>2. walk # NoWalk
    BY <2>1 DEF Calls, Running
  <2> HIDE DEF no
  <2>3. walk.method \in Orderings
    BY <1>1, <2>1, CallsOn DEF Unraised
  <2>4. Written(receiver, v) = receiver
    BY <2>3 DEF Written, Orderings
  <2>5. v # Unanswered
    BY <1>2, <1>4, <2>2
  <2> QED BY <1>1, <2>1, <2>4, <2>5, CallKeepsMapInv
<1>11. CASE Ends
  BY <1>11, EndsKeepsMapInv
<1>12. CASE UNCHANGED walkVars
  <2>1. walk' = walk /\ closureCalls' = closureCalls /\ pending' = pending /\ receiver' = receiver /\ answer' = answer
    BY <1>12 DEF walkVars
  <2>2. LeftByCalls' = LeftByCalls /\ JudgedOut' = JudgedOut /\ (Finished /\ NoRaise)' = (Finished /\ NoRaise)
    BY <2>1 DEF LeftByCalls, JudgedOut, Finished, NoRaise
  <2>3. KeepsWhatTheClosurePut => KeepsWhatTheClosurePut'
    BY <2>1, <2>2, Zenon DEF KeepsWhatTheClosurePut
  <2>4. (Wrote' <=> Wrote) /\ (Refused' <=> Refused) /\ (CallsByKey' <=> CallsByKey)
    BY <2>1 DEF Wrote, Finished, NoRaise, Refused, CallsByKey
  <2>5. LeftIn(receiver) => LeftIn(receiver)'
    BY <2>1 DEF LeftIn, PutOne, WroteAt
  <2> QED BY <2>1, <2>3, <2>4, <2>5 DEF MapInv
<1> QED BY <1>5, <1>6, <1>7, <1>8, <1>9, <1>10, <1>11, <1>12 DEF IterationNext, Walks

-----------------------------------------------------------------------------
\* What holds of every state of a walk.
IterationInv == WalkInv /\ NumberInv /\ MapInv

\* Every state of every call of a closure method has the three of them.
LEMMA InvariantHolds == IterationSpec => []IterationInv
<1>1. IterationInit => IterationInv
  BY EmptyIs DEF IterationInit, IterationInv, WalkInv, NumberInv, MapInv
<1>2. IterationInv /\ [IterationNext]_walkVars => IterationInv'
  BY NextKeepsWalkInv, NextKeepsNumberInv, NextKeepsMapInv DEF IterationInv
<1> QED BY <1>1, <1>2, PTL DEF IterationSpec

\* dispatch_iteration, dispatch_map_iteration and dispatch_number_iteration
\* always stop at the call that raises, whatever the closures do; a map's
\* method has changed nothing then but by the turns it had completed.
THEOREM RaiseAlwaysEnds == IterationSpec => []RaiseEndsTheWalk
<1>1. IterationInv => RaiseEndsTheWalk
  <2> SUFFICES ASSUME IterationInv, walk # NoWalk, walk.method \notin Orderings, NEW i \in DOMAIN closureCalls, closureCalls[i].raises
               PROVE  /\ i = Asked /\ pending = i /\ answer = Null
                      /\ walk.kind = "map" => receiver = LeftByCalls
    BY DEF RaiseEndsTheWalk
  <2>1. ~Refused
    BY EmptyIs DEF Refused
  <2>2. Raised /\ i = Asked
    BY <2>1 DEF IterationInv, WalkInv, Unraised, Raised
  <2>3. walk.kind = "map" => receiver = LeftByCalls
    <3> SUFFICES ASSUME walk.kind = "map" PROVE receiver = LeftByCalls
      OBVIOUS
    <3>1. IsMapWalk /\ CallsByKey /\ LeftIn(receiver)
      BY <2>1, <2>2, MapFields DEF IterationInv, MapInv, Wrote, NoRaise, Raised
    <3> QED BY <3>1, LeftIs, OneLeft
  <2> QED BY <2>2, <2>3 DEF Raised
<1> QED BY <1>1, InvariantHolds, PTL

\* dispatch_map_iteration, compute and merge always keep what the closure put
\* into the map while they ran: they write the keys they were called for.
THEOREM WhatTheClosurePutStays == IterationSpec => []KeepsWhatTheClosurePut
<1>1. IterationInv => KeepsWhatTheClosurePut
  <2> SUFFICES ASSUME IterationInv, Finished, NoRaise, walk.kind = "map" PROVE KeepsWhatTheClosurePut
    BY DEF KeepsWhatTheClosurePut
  <2>1. walk # NoWalk /\ ~Refused
    BY DEF Finished, NoRaise, Refused, HostRaised
  <2>2. CASE walk.method \in Removers \cup Computers
    BY <2>1, <2>2 DEF IterationInv, MapInv, Wrote
  <2>3. CASE walk.method \notin Removers \cup Computers
    <3>1. IsMapWalk /\ CallsByKey /\ LeftIn(receiver)
      BY <2>1, <2>3, MapFields DEF IterationInv, MapInv, Wrote
    <3>2. receiver = LeftByCalls
      BY <3>1, LeftIs, OneLeft
    <3> QED BY <2>3, <3>2, Zenon DEF KeepsWhatTheClosurePut
  <2> QED BY <2>2, <2>3
<1> QED BY <1>1, InvariantHolds, PTL

\* times, upto, downto and step always run for the values a counting loop
\* would, for any width of the integers.
THEOREM LoopsAlwaysCount == IterationSpec => []CountsAsWritten
<1>1. IterationInv => CountsAsWritten
  BY NumbersCount DEF IterationInv
<1> QED BY <1>1, InvariantHolds, PTL
=============================================================================
