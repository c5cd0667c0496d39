---------------------------- MODULE ClassesProofs ----------------------------
(***************************************************************************)
(* Static initialisation and injected methods, for every acyclic class     *)
(* hierarchy, every list of fields and any heap.                           *)
(*                                                                         *)
(* Static initialisation: a class is registered when its turn comes in a   *)
(* chain that lists superclasses first, so the superclasses of a           *)
(* registered class are registered (SuperclassesFirst, ChainsInOrder); one *)
(* call at a time runs its initialisers, in order (OneCallEach,            *)
(* FieldsInOrder); and that call leaves it finished or failed (Settled).   *)
(*                                                                         *)
(* Injected methods: the position the heap had when a class's metaclass    *)
(* was replaced separates the instances built before from those built      *)
(* after, for every class and at every moment (PositionsTell); the chain   *)
(* of a class is the class followed by the chain of its superclass, so the *)
(* first class that answers has every other one above it.                  *)
(***************************************************************************)
EXTENDS ClassInit, MetaClasses, CommonLemmas, FiniteSetTheorems

Fields == ToSet(FieldOrder)
FieldValues == {ZeroValue, "initialised", "written"}
InitCalls == [chain : Seq(Classes), class : Classes \cup {NoClass},
              next : Nat \ {0}, running : BOOLEAN]

TypeOK ==
    /\ DOMAIN statics \subseteq Classes
    /\ statics \in [DOMAIN statics -> [Fields -> FieldValues]]
    /\ inits \in Seq(InitCalls)
    /\ begun \subseteq (DOMAIN statics) \X Fields

\* The calls below the innermost wait for an initialiser they run.
CallsWait ==
    \A i \in 1 .. Len(inits) :
        /\ i > 1 => inits[i].running
        /\ inits[i].running => inits[i].class # NoClass /\ inits[i].next <= Len(FieldOrder)

\* A class is initialised by one call, which registered it.
OneCallEach ==
    \A i, j \in 1 .. Len(inits) : inits[i].class # NoClass =>
        /\ inits[i].class \in DOMAIN statics
        /\ inits[i].class = inits[j].class => i = j

\* Its initialisers run in the order of the fields.
BegunInOrder(call) ==
    call.class # NoClass =>
        /\ call.next <= Len(FieldOrder) + 1
        /\ \A k \in 1 .. Len(FieldOrder) :
             /\ <<call.class, FieldOrder[k]>> \in begun
                  <=> k < call.next \/ (k = call.next /\ call.running)
             /\ k < call.next => statics[call.class][FieldOrder[k]] # ZeroValue
FieldsInOrder == \A i \in 1 .. Len(inits) : BegunInOrder(inits[i])

\* A registered class is being initialised, was left by a raise, or is done.
Done(c) == \A f \in Fields : <<c, f>> \in begun /\ statics[c][f] # ZeroValue
Settled == \A c \in DOMAIN statics : InProgress(c) \/ c \in failed \/ Done(c)

SuperclassesFirst == \A c \in DOMAIN statics : ToSet(ChainOf[c]) \subseteq DOMAIN statics

RestInOrder(call) ==
    \A j \in 1 .. Len(call.chain) :
        ToSet(ChainOf[call.chain[j]])
            \subseteq DOMAIN statics \cup {call.chain[k] : k \in 1 .. j}
ChainsInOrder == \A i \in 1 .. Len(inits) : RestInOrder(inits[i])

IInv == /\ TypeOK /\ CallsWait /\ OneCallEach /\ FieldsInOrder
        /\ Settled /\ SuperclassesFirst /\ ChainsInOrder

-----------------------------------------------------------------------------
\* class_chain ends, and lists classes.
LEMMA ChainOfIs ==
    /\ ChainOf \in [Classes -> Seq(Classes)]
    /\ \A c \in Classes :
          ChainOf[c] = IF Parent[c] = c THEN <<c>> ELSE Append(ChainOf[Parent[c]], c)
<1>1. PICK depth \in [Classes -> 0 .. Cardinality(Classes)] :
         \A c \in Classes : Parent[c] = c \/ depth[Parent[c]] < depth[c]
  BY HierarchyAssumption
<1> DEFINE base == [c \in Classes |-> <<c>>]
           step == [c \in Classes |-> [s \in Seq(Classes) |-> Append(s, c)]]
<1>2. /\ base \in [Classes -> Seq(Classes)]
      /\ step \in [Classes -> [Seq(Classes) -> Seq(Classes)]]
  <2>1. ASSUME NEW c \in Classes, NEW s \in Seq(Classes) PROVE Append(s, c) \in Seq(Classes)
    BY AppendProperties
  <2> QED BY <2>1
<1>3. Cardinality(Classes) \in Nat /\ Parent \in [Classes -> Classes]
  BY HierarchyAssumption, FS_CardinalityType
<1>4. PICK h \in [Classes -> Seq(Classes)] : Recursive(h, Classes, Parent, base, step)
  <2>1. Leads(Classes, Cardinality(Classes), depth, Parent)
    BY <1>1, <1>3 DEF Leads
  <2> HIDE DEF base, step
  <2> QED BY <1>2, <2>1, RecursionAlong, Zenon
<1>5. \A c \in Classes : h[c] = IF Parent[c] = c THEN <<c>> ELSE Append(h[Parent[c]], c)
  BY <1>3, <1>4 DEF Recursive
<1>6. h = [c \in Classes |-> IF Parent[c] = c THEN <<c>> ELSE Append(h[Parent[c]], c)]
  BY <1>5
<1>7. ChainOf = [c \in Classes |-> IF Parent[c] = c THEN <<c>> ELSE Append(ChainOf[Parent[c]], c)]
  BY <1>6, Zenon DEF ChainOf
<1>8. \A c \in Classes :
         ChainOf[c] = IF Parent[c] = c THEN <<c>> ELSE Append(ChainOf[Parent[c]], c)
  BY <1>7
<1>9. ASSUME NEW c \in Classes, Parent[c] = c \/ ChainOf[Parent[c]] \in Seq(Classes)
      PROVE  ChainOf[c] \in Seq(Classes)
  <2>1. CASE Parent[c] = c
    <3>1. ChainOf[c] = <<c>>
      BY <1>8, <2>1, Zenon
    <3>2. <<c>> \in Seq(Classes)
      OBVIOUS
    <3> QED BY <3>1, <3>2
  <2>2. CASE Parent[c] # c
    <3>1. ChainOf[c] = Append(ChainOf[Parent[c]], c)
      BY <1>8, <2>2
    <3>2. Append(ChainOf[Parent[c]], c) \in Seq(Classes)
      BY <1>9, <2>2, AppendProperties
    <3> QED BY <3>1, <3>2
  <2> QED BY <2>1, <2>2
<1>10. ASSUME NEW T, T = {c \in Classes : ChainOf[c] \notin Seq(Classes)}, T # {} PROVE FALSE
  <2>1. \A c \in Classes : depth[c] \in Nat
    BY <1>3
  <2>2. depth \in [Classes -> Nat] /\ T \in SUBSET Classes
    BY <1>10, <2>1
  <2>3. PICK c \in T : Parent[c] = c \/ Parent[c] \notin T
    BY <1>1, <1>3, <1>10, <2>2, LeadsOut
  <2>4. Parent[c] \in Classes /\ c \in Classes /\ ChainOf[c] \notin Seq(Classes)
    BY <1>3, <1>10
  <2>5. Parent[c] = c \/ ChainOf[Parent[c]] \in Seq(Classes)
    BY <1>10, <2>3, <2>4
  <2> QED BY <1>9, <2>4, <2>5
<1>11. \A c \in Classes : ChainOf[c] \in Seq(Classes)
  BY <1>10
<1> QED BY <1>7, <1>8, <1>11

\* Every class of a chain comes after its own superclasses.
LEMMA ChainInOrder ==
    ASSUME NEW c \in Classes, NEW j \in 1 .. Len(ChainOf[c])
    PROVE  ToSet(ChainOf[ChainOf[c][j]]) \subseteq {ChainOf[c][k] : k \in 1 .. j}
<1> DEFINE InOrder(d) == \A i \in 1 .. Len(ChainOf[d]) :
                            ToSet(ChainOf[ChainOf[d][i]]) \subseteq {ChainOf[d][k] : k \in 1 .. i}
           T == {d \in Classes : ~InOrder(d)}
<1>1. PICK depth \in [Classes -> 0 .. Cardinality(Classes)] :
         \A d \in Classes : Parent[d] = d \/ depth[Parent[d]] < depth[d]
  BY HierarchyAssumption
<1>2. depth \in [Classes -> Nat] /\ Parent \in [Classes -> Classes]
  <2>1. Cardinality(Classes) \in Nat
    BY HierarchyAssumption, FS_CardinalityType
  <2>2. \A d \in Classes : depth[d] \in Nat
    BY <2>1
  <2> QED BY <2>2, HierarchyAssumption
<1>3. ASSUME NEW d \in Classes, Parent[d] = d \/ InOrder(Parent[d]) PROVE InOrder(d)
  <2>1. /\ ChainOf[d] \in Seq(Classes) /\ ChainOf[Parent[d]] \in Seq(Classes)
        /\ ChainOf[d] = IF Parent[d] = d THEN <<d>> ELSE Append(ChainOf[Parent[d]], d)
    BY <1>2, ChainOfIs
  <2> SUFFICES ASSUME NEW i \in 1 .. Len(ChainOf[d])
               PROVE  ToSet(ChainOf[ChainOf[d][i]]) \subseteq {ChainOf[d][k] : k \in 1 .. i}
    OBVIOUS
  <2>2. CASE i = Len(ChainOf[d])
    <3>1. ChainOf[d][i] = d
      <4>1. CASE Parent[d] = d
        BY <2>1, <2>2, <4>1
      <4>2. CASE Parent[d] # d
        BY <2>1, <2>2, <4>2, AppendProperties
      <4> QED BY <4>1, <4>2
    <3>2. DOMAIN ChainOf[d] = 1 .. i
      <4>1. ChainOf[d] \in Seq(Classes)
        BY ChainOfIs
      <4> HIDE DEF InOrder, T
      <4>2. DOMAIN ChainOf[d] = 1 .. Len(ChainOf[d])
        BY <4>1, LenProperties
      <4> QED BY <2>2, <4>2
    <3>3. ToSet(ChainOf[d]) = {ChainOf[d][k] : k \in 1 .. i}
      BY <3>2, Zenon DEF ToSet
    <3> QED BY <3>1, <3>3
  <2>3. CASE i # Len(ChainOf[d])
    <3>0. Parent[d] # d
      <4> SUFFICES ASSUME Parent[d] = d PROVE FALSE
        OBVIOUS
      <4>1. ChainOf[d] = <<d>>
        BY <2>1, Zenon
      <4> QED BY <2>3, <4>1
    <3>1. Parent[d] # d /\ InOrder(Parent[d])
      BY <1>3, <3>0, Zenon
    <3>2. /\ Len(ChainOf[d]) = Len(ChainOf[Parent[d]]) + 1
          /\ Len(ChainOf[Parent[d]]) \in Nat
          /\ \A k \in 1 .. Len(ChainOf[Parent[d]]) : ChainOf[d][k] = ChainOf[Parent[d]][k]
      BY <2>1, <3>1, AppendProperties
    <3>3. i \in 1 .. Len(ChainOf[Parent[d]])
      BY <2>3, <3>2
    <3>4. \A k \in 1 .. i : ChainOf[d][k] = ChainOf[Parent[d]][k]
      BY <3>2, <3>3
    <3>5. ToSet(ChainOf[ChainOf[d][i]]) \subseteq {ChainOf[Parent[d]][k] : k \in 1 .. i}
      BY <3>1, <3>2, <3>3
    <3> QED BY <3>4, <3>5
  <2> QED BY <2>2, <2>3
<1>4. T = {}
  <2> SUFFICES ASSUME T # {} PROVE FALSE
    OBVIOUS
  <2>1. T \in SUBSET Classes
    OBVIOUS
  <2> HIDE DEF T
  <2>2. PICK d \in T : Parent[d] = d \/ Parent[d] \notin T
    BY <1>1, <1>2, <2>1, LeadsOut
  <2> USE DEF T
  <2>3. d \in Classes /\ Parent[d] \in Classes /\ ~InOrder(d)
    BY <1>2
  <2> HIDE DEF InOrder
  <2> QED BY <1>3, <2>2, <2>3
<1> QED BY <1>4

-----------------------------------------------------------------------------
\* The innermost call, and the calls below it.
LEMMA TopFacts ==
    ASSUME TypeOK, inits # <<>>
    PROVE  /\ Len(inits) \in Nat \ {0} /\ 1 \in 1 .. Len(inits)
           /\ TopInit = inits[1] /\ TopInit \in InitCalls
           /\ TopInit.chain \in Seq(Classes) /\ TopInit.class \in Classes \cup {NoClass}
           /\ TopInit.next \in Nat \ {0} /\ TopInit.running \in BOOLEAN
           /\ Tail(inits) \in Seq(InitCalls) /\ Len(Tail(inits)) = Len(inits) - 1
           /\ \A i \in 1 .. Len(inits) - 1 : Tail(inits)[i] = inits[i + 1]
<1>1. inits \in Seq(InitCalls)
  BY DEF TypeOK
<1>2. /\ Tail(inits) \in Seq(InitCalls) /\ Head(inits) \in InitCalls /\ Head(inits) = inits[1]
      /\ Len(inits) \in Nat \ {0} /\ Len(Tail(inits)) = Len(inits) - 1
      /\ \A i \in 1 .. Len(inits) - 1 : Tail(inits)[i] = inits[i + 1]
  BY <1>1, Pop
<1> QED BY <1>2 DEF TopInit, InitCalls

\* The classes of the calls, as InProgress counts them.
LEMMA ProgressIs ==
    ASSUME inits \in Seq(InitCalls), NEW c
    PROVE  InProgress(c) <=> \E i \in 1 .. Len(inits) : inits[i].class = c
BY LenProperties DEF InProgress

\* The value of an initialisation that is at no class is none of the classes.
LEMMA NoClassIsNone == NoClass \notin Classes
BY HierarchyAssumption DEF NoClass

\* A field's name is its place in the order.
LEMMA FieldPlaces ==
    /\ Len(FieldOrder) \in Nat
    /\ \A f : f \in Fields <=> \E k \in 1 .. Len(FieldOrder) : f = FieldOrder[k]
<1>1. FieldOrder \in Seq(Fields)
  BY FieldOrderAssumption DEF Fields
<1>2. DOMAIN FieldOrder = 1 .. Len(FieldOrder) /\ Len(FieldOrder) \in Nat
  BY <1>1, LenProperties
<1> QED BY <1>2 DEF Fields, ToSet

\* A call ends: it has no class left to initialise, or its class failed.
LEMMA PopKeepsIInv ==
    ASSUME IInv, inits # <<>>, inits' = Tail(inits), UNCHANGED <<statics, begun>>,
           failed \subseteq failed', TopInit.class = NoClass \/ TopInit.class \in failed'
    PROVE  IInv'
<1>1. TypeOK
  BY DEF IInv
<1>2. /\ Len(inits) \in Nat \ {0} /\ TopInit = inits[1]
      /\ inits' \in Seq(InitCalls) /\ Len(inits') = Len(inits) - 1
      /\ \A i \in 1 .. Len(inits') : inits'[i] = inits[i + 1] /\ i + 1 \in 1 .. Len(inits)
  BY <1>1, TopFacts
<1>3. TypeOK'
  BY <1>1, <1>2 DEF TypeOK
<1>4. CallsWait'
  BY <1>2 DEF IInv, CallsWait
<1>5. OneCallEach'
  <2> SUFFICES ASSUME NEW i \in 1 .. Len(inits'), NEW j \in 1 .. Len(inits'),
                      inits'[i].class # NoClass
               PROVE  /\ inits'[i].class \in DOMAIN statics
                      /\ inits'[i].class = inits'[j].class => i = j
    BY DEF OneCallEach, NoClass
  <2> QED BY <1>2 DEF IInv, OneCallEach
<1>6. FieldsInOrder'
  <2>1. \A call : BegunInOrder(call) => BegunInOrder(call)'
    BY DEF BegunInOrder, NoClass, ZeroValue
  <2> QED BY <1>2, <2>1 DEF IInv, FieldsInOrder
<1>7. Settled'
  <2> SUFFICES ASSUME NEW c \in DOMAIN statics PROVE InProgress(c)' \/ c \in failed' \/ Done(c)
    BY DEF Settled, Done, Fields, ZeroValue
  <2>1. CASE InProgress(c)
    <3>1. PICK i \in 1 .. Len(inits) : inits[i].class = c
      BY <1>1, <2>1, ProgressIs DEF TypeOK
    <3>2. CASE i = 1
      <4>1. c # NoClass
        BY <1>1, NoClassIsNone DEF TypeOK
      <4> QED BY <1>2, <3>1, <3>2, <4>1
    <3>3. CASE i # 1
      <4>1. i - 1 \in 1 .. Len(inits') /\ inits'[i - 1] = inits[i]
        BY <1>2, <3>3
      <4>2. DOMAIN inits' = 1 .. Len(inits')
        BY <1>2
      <4> QED BY <3>1, <4>1, <4>2 DEF InProgress
    <3> QED BY <3>2, <3>3
  <2>2. CASE ~InProgress(c)
    BY <2>2 DEF IInv, Settled
  <2> QED BY <2>1, <2>2
<1>8. SuperclassesFirst'
  BY DEF IInv, SuperclassesFirst
<1>9. ChainsInOrder'
  <2>1. \A call : RestInOrder(call) => RestInOrder(call)'
    BY DEF RestInOrder
  <2> QED BY <1>2, <2>1 DEF IInv, ChainsInOrder
<1> QED BY <1>3, <1>4, <1>5, <1>6, <1>7, <1>8, <1>9 DEF IInv

\* The script or an initialiser uses a class: its chain is to be initialised.
LEMMA UseKeepsIInv ==
    ASSUME IInv, UseClass
    PROVE  IInv'
<1>1. PICK c \in Classes : inits' = <<InitCall(InitChain(c))>> \o inits
  BY DEF UseClass
<1> DEFINE e == InitCall(InitChain(c))
<1>2. /\ e \in InitCalls /\ e.class = NoClass /\ e.chain = ChainOf[c] /\ ~e.running
      /\ ChainOf[c] \in Seq(Classes)
  <2>1. ChainOf[c] \in Seq(Classes)
    BY ChainOfIs
  <2> QED BY <2>1 DEF InitCall, InitChain, InitCalls
<1> HIDE DEF e
<1>3. inits' = <<e>> \o inits /\ UNCHANGED <<statics, failed, begun>>
      /\ inits \in Seq(InitCalls) /\ TypeOK
  BY <1>1 DEF UseClass, e, IInv, TypeOK
<1>4. /\ inits' \in Seq(InitCalls) /\ Len(inits) \in Nat /\ Len(inits') = Len(inits) + 1
      /\ inits'[1] = e /\ \A i \in 1 .. Len(inits) : inits'[i + 1] = inits[i]
      /\ \A i \in 2 .. Len(inits) + 1 : inits'[i] = inits[i - 1]
  BY <1>2, <1>3, Push
<1>5. \A i \in 1 .. Len(inits') : i = 1 \/ (i - 1 \in 1 .. Len(inits) /\ inits'[i] = inits[i - 1])
  <2> SUFFICES ASSUME NEW i \in 1 .. Len(inits'), i # 1
               PROVE  i - 1 \in 1 .. Len(inits) /\ inits'[i] = inits[i - 1]
    OBVIOUS
  <2>1. i \in 2 .. Len(inits) + 1
    BY <1>4
  <2> QED BY <1>4, <2>1
<1>6. TypeOK'
  BY <1>3, <1>4 DEF TypeOK
<1>7. CallsWait'
  <2>1. Len(inits) > 0 => TopInit.running /\ TopInit = inits[1]
    <3>1. Len(inits) > 0 => inits # <<>>
      BY <1>4
    <3> QED BY <1>3, <3>1, TopFacts DEF UseClass
  <2>2. ASSUME NEW i \in 1 .. Len(inits') PROVE i > 1 => inits'[i].running
    <3>1. CASE i = 2
      BY <1>4, <2>1, <3>1
    <3>2. CASE i > 2
      <4>1. i - 1 \in 1 .. Len(inits) /\ i - 1 > 1 /\ inits'[i] = inits[i - 1]
        BY <1>4, <1>5, <3>2
      <4> QED BY <4>1 DEF IInv, CallsWait
    <3> QED BY <1>4, <3>1, <3>2
  <2>3. ASSUME NEW i \in 1 .. Len(inits')
        PROVE  inits'[i].running => inits'[i].class # NoClass /\ inits'[i].next <= Len(FieldOrder)
    BY <1>2, <1>4, <1>5 DEF IInv, CallsWait
  <2> QED BY <2>2, <2>3 DEF CallsWait, NoClass
<1>8. OneCallEach'
  <2> SUFFICES ASSUME NEW i \in 1 .. Len(inits'), NEW j \in 1 .. Len(inits'),
                      inits'[i].class # NoClass
               PROVE  /\ inits'[i].class \in DOMAIN statics
                      /\ inits'[i].class = inits'[j].class => i = j
    BY <1>3 DEF OneCallEach, NoClass
  <2>1. i # 1
    BY <1>2, <1>4
  <2>2. i - 1 \in 1 .. Len(inits) /\ inits'[i] = inits[i - 1]
    BY <1>5, <2>1
  <2>3. CASE j = 1
    BY <1>2, <1>4, <2>2, <2>3 DEF IInv, OneCallEach
  <2>4. CASE j # 1
    <3>1. j - 1 \in 1 .. Len(inits) /\ inits'[j] = inits[j - 1]
      BY <1>5, <2>4
    <3>2. inits[i - 1].class \in DOMAIN statics
          /\ (inits[i - 1].class = inits[j - 1].class => i - 1 = j - 1)
      BY <2>2, <3>1 DEF IInv, OneCallEach
    <3> QED BY <2>2, <3>1, <3>2
  <2> QED BY <2>3, <2>4
<1>9. FieldsInOrder'
  <2>1. \A call : BegunInOrder(call) => BegunInOrder(call)'
    BY <1>3 DEF BegunInOrder, NoClass, ZeroValue
  <2>2. \A call : call.class = NoClass => BegunInOrder(call)'
    BY DEF BegunInOrder, NoClass
  <2>3. ASSUME NEW i \in 1 .. Len(inits') PROVE BegunInOrder(inits[i])'
    <3>1. CASE i = 1
      BY <1>2, <1>4, <2>2, <3>1
    <3>2. CASE i # 1
      <4>1. BegunInOrder(inits[i - 1]) /\ inits'[i] = inits[i - 1]
        BY <1>5, <3>2 DEF IInv, FieldsInOrder
      <4> QED BY <2>1, <4>1
    <3> QED BY <3>1, <3>2
  <2> QED BY <2>3 DEF FieldsInOrder
<1>10. Settled'
  <2> SUFFICES ASSUME NEW d \in DOMAIN statics, InProgress(d) PROVE InProgress(d)'
    BY <1>3 DEF IInv, Settled, Done, Fields, ZeroValue
  <2>1. PICK i \in 1 .. Len(inits) : inits[i].class = d
    BY <1>3, ProgressIs
  <2>2. i + 1 \in 1 .. Len(inits') /\ inits'[i + 1] = inits[i]
    BY <1>4
  <2>3. DOMAIN inits' = 1 .. Len(inits')
    BY <1>4
  <2> QED BY <2>1, <2>2, <2>3 DEF InProgress
<1>11. SuperclassesFirst'
  BY <1>3 DEF IInv, SuperclassesFirst
<1>12. ChainsInOrder'
  <2>1. \A call : RestInOrder(call) => RestInOrder(call)'
    BY <1>3 DEF RestInOrder
  <2>2. \A call : call.chain = ChainOf[c] => RestInOrder(call)'
    <3>1. \A j \in 1 .. Len(ChainOf[c]) :
             ToSet(ChainOf[ChainOf[c][j]]) \subseteq {ChainOf[c][k] : k \in 1 .. j}
      BY ChainInOrder
    <3>2. ASSUME NEW call, call.chain = ChainOf[c], NEW j \in 1 .. Len(call.chain)
          PROVE  ToSet(ChainOf[call.chain[j]])
                     \subseteq DOMAIN statics' \cup {call.chain[k] : k \in 1 .. j}
      <4>1. ToSet(ChainOf[ChainOf[c][j]]) \subseteq {ChainOf[c][k] : k \in 1 .. j}
        BY <3>1, <3>2
      <4> QED BY <3>2, <4>1, Zenon
    <3> QED BY <3>2 DEF RestInOrder
  <2>3. ASSUME NEW i \in 1 .. Len(inits') PROVE RestInOrder(inits[i])'
    <3>1. CASE i = 1
      BY <1>2, <1>4, <2>2, <3>1
    <3>2. CASE i # 1
      <4>1. RestInOrder(inits[i - 1]) /\ inits'[i] = inits[i - 1]
        BY <1>5, <3>2 DEF IInv, ChainsInOrder
      <4> QED BY <2>1, <4>1
    <3> QED BY <3>1, <3>2
  <2> QED BY <2>3 DEF ChainsInOrder
<1> QED BY <1>6, <1>7, <1>8, <1>9, <1>10, <1>11, <1>12 DEF IInv

\* The calls below the innermost keep what the innermost does not touch: their
\* classes and those classes' fields.
LEMMA OthersKept ==
    ASSUME IInv, NEW i \in 2 .. Len(inits), inits'[i] = inits[i],
           DOMAIN statics \subseteq DOMAIN statics',
           \A d \in DOMAIN statics :
              statics'[d] = statics[d] \/ (TopInit = inits[1] /\ d = TopInit.class)
              \/ \A f \in Fields : statics[d][f] # ZeroValue => statics'[d][f] # ZeroValue,
           \A d \in DOMAIN statics, f \in Fields :
              (<<d, f>> \in begun' <=> <<d, f>> \in begun) \/ (TopInit = inits[1] /\ d = TopInit.class)
    PROVE  BegunInOrder(inits[i])' /\ RestInOrder(inits[i])'
<1>1. /\ BegunInOrder(inits[i]) /\ RestInOrder(inits[i]) /\ Len(inits) \in Nat
      /\ i \in 1 .. Len(inits) /\ 1 \in 1 .. Len(inits) /\ i # 1
  <2>1. Len(inits) \in Nat
    BY LenProperties DEF IInv, TypeOK
  <2>2. i \in 1 .. Len(inits) /\ 1 \in 1 .. Len(inits) /\ i # 1
    BY <2>1
  <2> QED BY <2>1, <2>2 DEF IInv, FieldsInOrder, ChainsInOrder
<1>2. RestInOrder(inits[i])'
  <2>1. \A call : RestInOrder(call) => RestInOrder(call)'
    BY DEF RestInOrder
  <2> QED BY <1>1, <2>1
<1>3. ASSUME NEW call, call = inits[i] PROVE BegunInOrder(call)'
  <2> SUFFICES ASSUME call.class # NoClass
               PROVE  /\ call.next <= Len(FieldOrder) + 1
                      /\ \A k \in 1 .. Len(FieldOrder) :
                           /\ <<call.class, FieldOrder[k]>> \in begun'
                                <=> k < call.next \/ (k = call.next /\ call.running)
                           /\ k < call.next => statics'[call.class][FieldOrder[k]] # ZeroValue
    BY DEF BegunInOrder, NoClass, ZeroValue
  <2>1. /\ call.next <= Len(FieldOrder) + 1
        /\ \A k \in 1 .. Len(FieldOrder) :
             /\ <<call.class, FieldOrder[k]>> \in begun
                  <=> k < call.next \/ (k = call.next /\ call.running)
             /\ k < call.next => statics[call.class][FieldOrder[k]] # ZeroValue
    BY <1>1, <1>3 DEF BegunInOrder
  <2>2. call.class \in DOMAIN statics
    BY <1>1, <1>3 DEF IInv, OneCallEach
  <2>3. ~(TopInit = inits[1] /\ call.class = TopInit.class)
    BY <1>1, <1>3 DEF IInv, OneCallEach
  <2>4. \A k \in 1 .. Len(FieldOrder) : FieldOrder[k] \in Fields
    BY FieldPlaces
  <2>5. \A f \in Fields : /\ <<call.class, f>> \in begun' <=> <<call.class, f>> \in begun
                          /\ statics[call.class][f] # ZeroValue =>
                                statics'[call.class][f] # ZeroValue
    BY <2>2, <2>3
  <2> QED BY <2>1, <2>4, <2>5
<1> QED BY <1>2, <1>3

\* The innermost call goes on to the next class of its chain.
LEMMA AdvanceFacts ==
    ASSUME IInv, NextClass, TopInit.chain # <<>>
    PROVE  /\ inits' \in Seq(InitCalls) /\ Len(inits) \in Nat \ {0} /\ Len(inits') = Len(inits)
           /\ \A i \in 2 .. Len(inits) : inits'[i] = inits[i]
           /\ inits'[1].chain = Tail(TopInit.chain) /\ inits'[1].next = 1
           /\ inits'[1].running = FALSE /\ TopInit.class = NoClass /\ TopInit = inits[1]
           /\ inits'[1].class = IF InitPassed(Head(TopInit.chain)) THEN NoClass
                                ELSE Head(TopInit.chain)
           /\ Head(TopInit.chain) \in Classes /\ Head(TopInit.chain) = TopInit.chain[1]
           /\ Len(TopInit.chain) \in Nat \ {0} /\ Len(Tail(TopInit.chain)) = Len(TopInit.chain) - 1
           /\ \A j \in 1 .. Len(TopInit.chain) - 1 : Tail(TopInit.chain)[j] = TopInit.chain[j + 1]
<1> DEFINE c == Head(TopInit.chain)
           x == IF InitPassed(c) THEN NoClass ELSE c
<1>1. /\ Len(inits) \in Nat \ {0} /\ 1 \in 1 .. Len(inits) /\ inits \in Seq(InitCalls)
      /\ TopInit = inits[1] /\ TopInit \in InitCalls /\ TopInit.chain \in Seq(Classes)
      /\ TopInit.running \in BOOLEAN /\ TopInit.running = FALSE /\ TopInit.class = NoClass
  BY TopFacts DEF IInv, TypeOK, NextClass
<1>2. /\ Tail(TopInit.chain) \in Seq(Classes) /\ c \in Classes /\ c = TopInit.chain[1]
      /\ Len(TopInit.chain) \in Nat \ {0} /\ Len(Tail(TopInit.chain)) = Len(TopInit.chain) - 1
      /\ \A j \in 1 .. Len(TopInit.chain) - 1 : Tail(TopInit.chain)[j] = TopInit.chain[j + 1]
  BY <1>1, Pop
<1>3. inits' = [inits EXCEPT ![1].chain = Tail(@), ![1].next = 1, ![1].class = x]
  BY DEF NextClass
<1>4. x \in Classes \cup {NoClass}
  BY <1>2
<1> HIDE DEF x, c
<1>5. /\ inits' \in Seq(InitCalls) /\ Len(inits') = Len(inits)
      /\ \A i \in 2 .. Len(inits) : inits'[i] = inits[i]
      /\ inits'[1].chain = Tail(inits[1].chain) /\ inits'[1].next = 1
      /\ inits'[1].running = inits[1].running /\ inits'[1].class = x
  <2> DEFINE e == [inits[1] EXCEPT !.chain = Tail(@), !.next = 1, !.class = x]
  <2>1. inits' = [inits EXCEPT ![1] = e]
    BY <1>1, <1>3
  <2>2. /\ e \in InitCalls /\ e.chain = Tail(inits[1].chain) /\ e.next = 1
        /\ e.running = inits[1].running /\ e.class = x
    <3> DEFINE r == inits[1]
               ch == Tail(inits[1].chain)
    <3>1. r \in InitCalls /\ ch \in Seq(Classes)
      BY <1>1, <1>2
    <3>2. e = [r EXCEPT !.chain = ch, !.next = 1, !.class = x] /\ r.running = inits[1].running
      OBVIOUS
    <3> HIDE DEF r, ch, e
    <3>3. /\ r = [chain |-> r.chain, class |-> r.class, next |-> r.next, running |-> r.running]
          /\ r.running \in BOOLEAN
      BY <3>1 DEF InitCalls
    <3>4. e = [chain |-> ch, class |-> x, next |-> 1, running |-> r.running]
      BY <3>2, <3>3
    <3>5. /\ e.chain = ch /\ e.next = 1 /\ e.running = r.running /\ e.class = x
      BY <3>4
    <3>6. e \in InitCalls
      BY <1>4, <3>1, <3>3, <3>4 DEF InitCalls
    <3> QED BY <3>2, <3>5, <3>6 DEF ch
  <2> HIDE DEF e
  <2>3. /\ inits' \in Seq(InitCalls) /\ Len(inits') = Len(inits) /\ inits'[1] = e
        /\ \A i \in 2 .. Len(inits) : inits'[i] = inits[i]
    BY <1>1, <2>1, <2>2, ExceptSeq
  <2> QED BY <2>2, <2>3
<1> QED BY <1>1, <1>2, <1>5 DEF x, c

\* The next class of the chain: passed over, or registered with its fields at
\* zero before any of its initialisers runs.
LEMMA AdvanceKeepsIInv ==
    ASSUME IInv, NextClass, TopInit.chain # <<>>
    PROVE  IInv'
<1> DEFINE c == Head(TopInit.chain)
<1>1. /\ inits' \in Seq(InitCalls) /\ Len(inits) \in Nat \ {0} /\ Len(inits') = Len(inits)
      /\ \A i \in 2 .. Len(inits) : inits'[i] = inits[i]
      /\ inits'[1].chain = Tail(TopInit.chain) /\ inits'[1].next = 1
      /\ inits'[1].running = FALSE /\ TopInit.class = NoClass /\ TopInit = inits[1]
      /\ inits'[1].class = (IF InitPassed(c) THEN NoClass ELSE c)
      /\ c \in Classes /\ c = TopInit.chain[1]
      /\ Len(TopInit.chain) \in Nat \ {0} /\ Len(Tail(TopInit.chain)) = Len(TopInit.chain) - 1
      /\ \A j \in 1 .. Len(TopInit.chain) - 1 : Tail(TopInit.chain)[j] = TopInit.chain[j + 1]
  BY AdvanceFacts
<1>2. /\ UNCHANGED <<failed, begun>> /\ TypeOK
      /\ statics' = IF InitPassed(c) THEN statics
                    ELSE [d \in DOMAIN statics \cup {c} |->
                            IF d = c THEN [f \in ToSet(FieldOrder) |-> ZeroValue] ELSE statics[d]]
  BY DEF NextClass, IInv
<1> HIDE DEF c
<1>3. /\ DOMAIN statics' = DOMAIN statics \cup {c}
      /\ \A d \in DOMAIN statics : statics'[d] = statics[d]
      /\ statics' \in [DOMAIN statics' -> [Fields -> FieldValues]]
  <2>1. CASE c \in DOMAIN statics
    <3>1. statics' = statics
      BY <1>2, <2>1 DEF InitPassed
    <3> QED BY <1>2, <2>1, <3>1 DEF TypeOK
  <2>2. CASE c \notin DOMAIN statics
    <3>1. statics' = [d \in DOMAIN statics \cup {c} |->
                        IF d = c THEN [f \in Fields |-> ZeroValue] ELSE statics[d]]
      BY <1>2, <2>2 DEF InitPassed, Fields
    <3>2. [f \in Fields |-> ZeroValue] \in [Fields -> FieldValues]
      BY DEF FieldValues
    <3>3. \A d \in DOMAIN statics : statics[d] \in [Fields -> FieldValues]
      BY <1>2 DEF TypeOK
    <3> QED BY <2>2, <3>1, <3>2, <3>3
  <2> QED BY <2>1, <2>2
<1>4. inits'[1].class = NoClass \/ (inits'[1].class = c /\ c \notin DOMAIN statics)
  BY <1>1 DEF InitPassed
<1>5. NoClass \notin DOMAIN statics /\ c # NoClass
  BY <1>1, <1>2, NoClassIsNone DEF TypeOK
<1>6. TypeOK'
  BY <1>1, <1>2, <1>3 DEF TypeOK
<1>7. CallsWait'
  <2> SUFFICES ASSUME NEW i \in 1 .. Len(inits)
               PROVE  /\ i > 1 => inits'[i].running
                      /\ inits'[i].running => inits'[i].class # NoClass
                                               /\ inits'[i].next <= Len(FieldOrder)
    BY <1>1 DEF CallsWait, NoClass
  <2>1. CASE i = 1
    BY <1>1, <2>1
  <2>2. CASE i # 1
    <3>1. i \in 2 .. Len(inits) /\ inits'[i] = inits[i]
      BY <1>1, <2>2
    <3> QED BY <3>1 DEF IInv, CallsWait
  <2> QED BY <2>1, <2>2
<1>8. \A i \in 2 .. Len(inits) : inits[i].class # NoClass => inits[i].class \in DOMAIN statics
  BY DEF IInv, OneCallEach
<1>9. OneCallEach'
  <2> SUFFICES ASSUME NEW i \in 1 .. Len(inits), NEW j \in 1 .. Len(inits),
                      inits'[i].class # NoClass
               PROVE  /\ inits'[i].class \in DOMAIN statics'
                      /\ inits'[i].class = inits'[j].class => i = j
    BY <1>1 DEF OneCallEach, NoClass
  <2>1. i = 1 \/ (i \in 2 .. Len(inits) /\ inits'[i] = inits[i])
    BY <1>1
  <2>2. j = 1 \/ (j \in 2 .. Len(inits) /\ inits'[j] = inits[j])
    BY <1>1
  <2>3. inits'[i].class \in DOMAIN statics'
    BY <1>3, <1>4, <1>8, <2>1
  <2>4. CASE i = 1 \/ j = 1
    <3>1. (i = 1 /\ j = 1) \/ (i = 1 /\ j # 1) \/ (i # 1 /\ j = 1)
      BY <2>4
    <3> QED BY <1>4, <1>5, <1>8, <2>1, <2>2, <2>3, <3>1
  <2>5. CASE i # 1 /\ j # 1
    BY <2>1, <2>2, <2>3, <2>5 DEF IInv, OneCallEach
  <2> QED BY <2>3, <2>4, <2>5
<1>10. \A i \in 2 .. Len(inits) : BegunInOrder(inits[i])' /\ RestInOrder(inits[i])'
  BY <1>1, <1>2, <1>3, OthersKept
<1>11. FieldsInOrder'
  <2>1. ASSUME NEW call, call.class = NoClass \/ (call.class = c /\ c \notin DOMAIN statics),
               call.next = 1, call.running = FALSE
        PROVE  BegunInOrder(call)'
    <3>1. call.class # NoClass => \A f : <<call.class, f>> \notin begun'
      BY <1>2, <2>1 DEF TypeOK
    <3>2. Len(FieldOrder) \in Nat
      BY FieldPlaces
    <3>3. ASSUME NEW k \in 1 .. Len(FieldOrder)
          PROVE  ~(k < call.next) /\ ~(k = call.next /\ call.running)
      BY <2>1
    <3>4. call.next <= Len(FieldOrder) + 1
      BY <2>1, <3>2
    <3> QED BY <3>1, <3>3, <3>4 DEF BegunInOrder, NoClass
  <2>2. BegunInOrder(inits[1])'
    BY <1>1, <1>4, <2>1
  <2>3. ASSUME NEW i \in 1 .. Len(inits') PROVE BegunInOrder(inits[i])'
    <3>1. i = 1 \/ i \in 2 .. Len(inits)
      BY <1>1
    <3> QED BY <1>10, <2>2, <3>1
  <2> QED BY <2>3 DEF FieldsInOrder
<1>12. Settled'
  <2>0. DOMAIN inits' = 1 .. Len(inits')
    BY <1>1
  <2> SUFFICES ASSUME NEW d \in DOMAIN statics'
               PROVE  InProgress(d)' \/ d \in failed' \/ Done(d)'
    BY DEF Settled
  <2>1. CASE d \notin DOMAIN statics
    <3>1. inits'[1].class = d
      BY <1>1, <1>3, <2>1 DEF InitPassed
    <3>2. 1 \in 1 .. Len(inits')
      BY <1>1
    <3> QED BY <2>0, <3>1, <3>2 DEF InProgress
  <2>2. CASE d \in DOMAIN statics /\ InProgress(d)
    <3>1. PICK i \in 1 .. Len(inits) : inits[i].class = d
      BY <1>2, <2>2, ProgressIs DEF TypeOK
    <3>2. i # 1
      BY <1>1, <1>5, <2>2, <3>1
    <3>3. i \in 1 .. Len(inits') /\ inits'[i].class = d
      BY <1>1, <3>1, <3>2
    <3> QED BY <2>0, <3>3 DEF InProgress
  <2>3. CASE d \in DOMAIN statics /\ d \in failed
    BY <1>2, <2>3
  <2>4. CASE d \in DOMAIN statics /\ Done(d)
    BY <1>2, <1>3, <2>4 DEF Done, Fields, ZeroValue
  <2> QED BY <2>1, <2>2, <2>3, <2>4 DEF IInv, Settled
<1>13. RestInOrder(inits[1])
  BY <1>1 DEF IInv, ChainsInOrder
<1>14. SuperclassesFirst'
  <2>1. ToSet(ChainOf[TopInit.chain[1]])
            \subseteq DOMAIN statics \cup {TopInit.chain[k] : k \in 1 .. 1}
    BY <1>1, <1>13 DEF RestInOrder
  <2>2. ToSet(ChainOf[c]) \subseteq DOMAIN statics'
    BY <1>1, <1>3, <2>1
  <2> QED BY <1>3, <2>2 DEF IInv, SuperclassesFirst
<1>15. ChainsInOrder'
  <2>1. ASSUME NEW call, call.chain = Tail(TopInit.chain), NEW j \in 1 .. Len(call.chain)
        PROVE  ToSet(ChainOf[call.chain[j]])
                   \subseteq DOMAIN statics' \cup {call.chain[k] : k \in 1 .. j}
    <3> DEFINE ch == TopInit.chain
    <3>1. /\ j + 1 \in 1 .. Len(ch) /\ call.chain[j] = ch[j + 1]
      BY <1>1, <2>1
    <3>2. ToSet(ChainOf[ch[j + 1]]) \subseteq DOMAIN statics \cup {ch[k] : k \in 1 .. j + 1}
      BY <1>1, <1>13, <3>1 DEF RestInOrder
    <3>3. ASSUME NEW k \in 1 .. j + 1 PROVE ch[k] = c \/ ch[k] \in {call.chain[m] : m \in 1 .. j}
      <4>1. CASE k = 1
        BY <1>1, <4>1
      <4>2. CASE k # 1
        <5>1. k - 1 \in 1 .. j /\ call.chain[k - 1] = ch[k]
          BY <1>1, <2>1, <3>1, <4>2
        <5> QED BY <5>1
      <4> QED BY <4>1, <4>2
    <3> QED BY <1>3, <3>1, <3>2, <3>3
  <2>2. \A call : call.chain = Tail(TopInit.chain) => RestInOrder(call)'
    BY <2>1 DEF RestInOrder
  <2>3. RestInOrder(inits[1])'
    BY <1>1, <2>2
  <2>4. ASSUME NEW i \in 1 .. Len(inits') PROVE RestInOrder(inits[i])'
    <3>1. i = 1 \/ i \in 2 .. Len(inits)
      BY <1>1
    <3> QED BY <1>10, <2>3, <3>1
  <2> QED BY <2>4 DEF ChainsInOrder
<1> QED BY <1>6, <1>7, <1>9, <1>11, <1>12, <1>14, <1>15 DEF IInv

-----------------------------------------------------------------------------
\* The innermost call goes on with the class it initialises.
Edited(class, next, running) ==
    [chain |-> TopInit.chain, class |-> class, next |-> next, running |-> running]

\* The three edits the actions make of the innermost call are such records.
LEMMA Edits ==
    ASSUME TypeOK, inits # <<>>
    PROVE  /\ [TopInit EXCEPT !.running = TRUE] = Edited(TopInit.class, TopInit.next, TRUE)
           /\ TopInit.running = FALSE => [TopInit EXCEPT !.class = NoClass]
                                            = Edited(NoClass, TopInit.next, FALSE)
           /\ [TopInit EXCEPT !.next = @ + 1, !.running = FALSE]
                 = Edited(TopInit.class, TopInit.next + 1, FALSE)
<1> DEFINE r == TopInit
<1>1. r \in InitCalls
  BY TopFacts
<1>2. \A class, next, running :
         Edited(class, next, running)
           = [chain |-> r.chain, class |-> class, next |-> next, running |-> running]
  BY DEF Edited
<1> HIDE DEF r
<1>3. r = [chain |-> r.chain, class |-> r.class, next |-> r.next, running |-> r.running]
  BY <1>1 DEF InitCalls
<1>4. [r EXCEPT !.running = TRUE] = Edited(r.class, r.next, TRUE)
  <2> DEFINE e == [r EXCEPT !.running = TRUE]
  <2>1. e = [r EXCEPT !.running = TRUE]
    OBVIOUS
  <2> HIDE DEF e
  <2>2. e = [chain |-> r.chain, class |-> r.class, next |-> r.next, running |-> TRUE]
    BY <1>1, <1>3, <2>1 DEF InitCalls
  <2> QED BY <1>2, <2>1, <2>2, Zenon
<1>5. r.running = FALSE => [r EXCEPT !.class = NoClass] = Edited(NoClass, r.next, FALSE)
  <2> DEFINE e == [r EXCEPT !.class = NoClass]
  <2>1. e = [r EXCEPT !.class = NoClass]
    OBVIOUS
  <2> HIDE DEF e
  <2>2. r.running = FALSE => e = [chain |-> r.chain, class |-> NoClass, next |-> r.next, running |-> FALSE]
    BY <1>1, <1>3, <2>1 DEF InitCalls
  <2> QED BY <1>2, <2>1, <2>2, Zenon
<1>6. [r EXCEPT !.next = @ + 1, !.running = FALSE] = Edited(r.class, r.next + 1, FALSE)
  <2> DEFINE e == [r EXCEPT !.next = @ + 1, !.running = FALSE]
  <2>1. e = [r EXCEPT !.next = @ + 1, !.running = FALSE]
    OBVIOUS
  <2> HIDE DEF e
  <2>2. e = [chain |-> r.chain, class |-> r.class, next |-> r.next + 1, running |-> FALSE]
    BY <1>1, <1>3, <2>1 DEF InitCalls
  <2> QED BY <1>2, <2>1, <2>2, Zenon
<1> QED BY <1>4, <1>5, <1>6 DEF r

\* An edit of the innermost call leaves the calls around it and its chain.
LEMMA EditFacts ==
    ASSUME TypeOK, inits # <<>>, NEW class \in Classes \cup {NoClass}, NEW next \in Nat \ {0},
           NEW running \in BOOLEAN, inits' = [inits EXCEPT ![1] = Edited(class, next, running)]
    PROVE  /\ inits' \in Seq(InitCalls) /\ Len(inits) \in Nat \ {0} /\ Len(inits') = Len(inits)
           /\ \A i \in 2 .. Len(inits) : inits'[i] = inits[i]
           /\ inits'[1].chain = TopInit.chain /\ inits'[1].next = next
           /\ inits'[1].running = running /\ inits'[1].class = class /\ TopInit = inits[1]
<1> DEFINE e == Edited(class, next, running)
<1>1. e \in InitCalls
  BY TopFacts DEF Edited, InitCalls
<1>2. e.chain = TopInit.chain /\ e.next = next /\ e.running = running /\ e.class = class
  BY DEF Edited
<1>3. inits' = [inits EXCEPT ![1] = e]
  OBVIOUS
<1> HIDE DEF e
<1>4. inits \in Seq(InitCalls) /\ 1 \in 1 .. Len(inits) /\ TopInit = inits[1]
      /\ Len(inits) \in Nat \ {0}
  BY TopFacts DEF TypeOK
<1>5. /\ inits' \in Seq(InitCalls) /\ Len(inits') = Len(inits) /\ inits'[1] = e
      /\ \A i \in 2 .. Len(inits) : inits'[i] = inits[i]
  BY <1>1, <1>3, <1>4, ExceptSeq
<1> QED BY <1>2, <1>4, <1>5

\* What such a step keeps whatever it does to the class's fields.
LEMMA EditKeeps ==
    ASSUME IInv, inits # <<>>, NEW class \in {TopInit.class, NoClass}, NEW next \in Nat \ {0},
           NEW running \in BOOLEAN, inits' = [inits EXCEPT ![1] = Edited(class, next, running)],
           running => class # NoClass /\ next <= Len(FieldOrder),
           DOMAIN statics' = DOMAIN statics
    PROVE  CallsWait' /\ OneCallEach' /\ SuperclassesFirst' /\ RestInOrder(inits[1])'
<1>1. class \in Classes \cup {NoClass} /\ TypeOK
  BY TopFacts DEF IInv
<1>2. /\ Len(inits) \in Nat \ {0} /\ Len(inits') = Len(inits)
      /\ \A i \in 2 .. Len(inits) : inits'[i] = inits[i]
      /\ inits'[1].chain = TopInit.chain /\ inits'[1].next = next
      /\ inits'[1].running = running /\ inits'[1].class = class /\ TopInit = inits[1]
  BY <1>1, EditFacts
<1>3. CallsWait'
  <2> SUFFICES ASSUME NEW i \in 1 .. Len(inits)
               PROVE  /\ i > 1 => inits'[i].running
                      /\ inits'[i].running => inits'[i].class # NoClass
                                               /\ inits'[i].next <= Len(FieldOrder)
    BY <1>2 DEF CallsWait, NoClass
  <2>1. CASE i = 1
    BY <1>2, <2>1
  <2>2. CASE i # 1
    <3>1. i \in 2 .. Len(inits) /\ inits'[i] = inits[i]
      BY <1>2, <2>2
    <3> QED BY <3>1 DEF IInv, CallsWait
  <2> QED BY <2>1, <2>2
<1>4. OneCallEach'
  <2> SUFFICES ASSUME NEW i \in 1 .. Len(inits), NEW j \in 1 .. Len(inits),
                      inits'[i].class # NoClass
               PROVE  /\ inits'[i].class \in DOMAIN statics
                      /\ inits'[i].class = inits'[j].class => i = j
    BY <1>2 DEF OneCallEach, NoClass
  <2>1. \A m \in 1 .. Len(inits) : inits'[m].class \in {inits[m].class, NoClass}
    BY <1>2
  <2> QED BY <2>1 DEF IInv, OneCallEach
<1>5. SuperclassesFirst'
  BY DEF IInv, SuperclassesFirst
<1>6. RestInOrder(inits[1])'
  <2>1. RestInOrder(inits[1])
    BY <1>2 DEF IInv, ChainsInOrder
  <2>2. \A call : call.chain = TopInit.chain => RestInOrder(call)'
    BY <1>2, <2>1 DEF RestInOrder
  <2> QED BY <1>2, <2>2
<1> QED BY <1>3, <1>4, <1>5, <1>6

\* The next initialiser of the class runs.
LEMMA BeginKeepsIInv ==
    ASSUME IInv, NextInitialiser, ~InitsFinished(TopInit.next)
    PROVE  /\ IInv'
           /\ <<TopInit.class, FieldOrder[TopInit.next]>> \notin begun
           /\ TopInit.class \in DOMAIN statics
<1> DEFINE c == TopInit.class
           n == TopInit.next
           f == FieldOrder[n]
<1>1. /\ inits # <<>> /\ TypeOK /\ TopInit.running = FALSE /\ c # NoClass
      /\ inits' = [inits EXCEPT ![1].running = TRUE] /\ begun' = begun \cup {<<c, f>>}
      /\ UNCHANGED <<statics, failed>>
  <2>1. TypeOK
    BY DEF IInv
  <2>2. inits # <<>> /\ ~TopInit.running
    BY DEF NextInitialiser
  <2>3. TopInit.running \in BOOLEAN
    BY <2>1, <2>2, TopFacts
  <2> QED BY <2>1, <2>2, <2>3 DEF NextInitialiser
<1>2. /\ Len(inits) \in Nat \ {0} /\ 1 \in 1 .. Len(inits) /\ TopInit = inits[1]
      /\ TopInit \in InitCalls /\ n \in Nat \ {0} /\ c \in Classes \cup {NoClass}
      /\ inits \in Seq(InitCalls)
  BY <1>1, TopFacts DEF TypeOK
<1>3. n \in 1 .. Len(FieldOrder) /\ f \in Fields
  <2>1. Len(FieldOrder) \in Nat
    BY FieldPlaces
  <2>2. n \in 1 .. Len(FieldOrder)
    BY <1>2, <2>1 DEF InitsFinished
  <2> QED BY <2>2, FieldPlaces
<1>4. c \in DOMAIN statics /\ BegunInOrder(inits[1])
  BY <1>1, <1>2 DEF IInv, OneCallEach, FieldsInOrder
<1>5. <<c, f>> \notin begun
  BY <1>1, <1>2, <1>3, <1>4 DEF BegunInOrder
<1>6. inits' = [inits EXCEPT ![1] = Edited(c, n, TRUE)]
  <2>1. [TopInit EXCEPT !.running = TRUE] = Edited(c, n, TRUE)
    BY <1>1, Edits
  <2>2. inits' = [inits EXCEPT ![1] = [TopInit EXCEPT !.running = TRUE]]
    BY <1>1, <1>2
  <2> QED BY <2>1, <2>2
<1> HIDE DEF c, n, f
<1>7. CallsWait' /\ OneCallEach' /\ SuperclassesFirst' /\ RestInOrder(inits[1])'
  <2>1. n <= Len(FieldOrder) /\ DOMAIN statics' = DOMAIN statics /\ c \in {TopInit.class, NoClass}
    BY <1>1, <1>3 DEF c
  <2> QED BY <1>1, <1>2, <1>6, <2>1, EditKeeps
<1>8. /\ inits' \in Seq(InitCalls) /\ Len(inits') = Len(inits)
      /\ \A i \in 2 .. Len(inits) : inits'[i] = inits[i]
      /\ inits'[1].chain = TopInit.chain /\ inits'[1].next = n
      /\ inits'[1].running = TRUE /\ inits'[1].class = c
  BY <1>1, <1>2, <1>6, EditFacts
<1>9. TypeOK'
  BY <1>1, <1>3, <1>4, <1>8 DEF TypeOK
<1>10. \A i \in 2 .. Len(inits) : BegunInOrder(inits[i])' /\ RestInOrder(inits[i])'
  <2>1. \A d \in DOMAIN statics, g \in Fields :
           (<<d, g>> \in begun' <=> <<d, g>> \in begun) \/ d = TopInit.class
    BY <1>1 DEF c
  <2> QED BY <1>1, <1>2, <1>8, <2>1, OthersKept
<1>11. FieldsInOrder'
  <2>1. ASSUME NEW call, call.class = c, call.next = n, call.running = TRUE
        PROVE  BegunInOrder(call)'
    <3>1. n <= Len(FieldOrder) + 1 /\ Len(FieldOrder) \in Nat
      BY <1>3, FieldPlaces
    <3>2. ASSUME NEW k \in 1 .. Len(FieldOrder)
          PROVE  <<c, FieldOrder[k]>> \in begun' <=> k < n \/ k = n
      <4>1. <<c, FieldOrder[k]>> \in begun <=> k < n
        BY <1>1, <1>2, <1>4 DEF BegunInOrder, c, n
      <4>2. FieldOrder[k] = f <=> k = n
        BY <1>3, FieldOrderAssumption DEF f
      <4> QED BY <1>1, <4>1, <4>2
    <3>3. ASSUME NEW k \in 1 .. Len(FieldOrder), k < n
          PROVE  statics'[c][FieldOrder[k]] # ZeroValue
      BY <1>1, <1>2, <1>4, <3>3 DEF BegunInOrder, c, n
    <3> QED BY <2>1, <3>1, <3>2, <3>3 DEF BegunInOrder, NoClass, ZeroValue
  <2>2. BegunInOrder(inits[1])'
    BY <1>8, <2>1
  <2>3. ASSUME NEW i \in 1 .. Len(inits') PROVE BegunInOrder(inits[i])'
    <3>1. i = 1 \/ i \in 2 .. Len(inits)
      BY <1>2, <1>8
    <3> QED BY <1>10, <2>2, <3>1
  <2> QED BY <2>3 DEF FieldsInOrder
<1>12. Settled'
  <2> SUFFICES ASSUME NEW d \in DOMAIN statics
               PROVE  InProgress(d)' \/ d \in failed' \/ Done(d)'
    BY <1>1 DEF Settled
  <2>1. CASE InProgress(d)
    <3>1. PICK i \in 1 .. Len(inits) : inits[i].class = d
      BY <1>2, <2>1, ProgressIs
    <3>2. i \in 1 .. Len(inits') /\ inits'[i].class = d
      BY <1>2, <1>8, <3>1 DEF c
    <3>3. DOMAIN inits' = 1 .. Len(inits')
      BY <1>8
    <3> QED BY <3>2, <3>3 DEF InProgress
  <2>2. CASE Done(d)
    BY <1>1, <2>2 DEF Done, Fields, ZeroValue
  <2> QED BY <1>1, <2>1, <2>2 DEF IInv, Settled
<1>13. ChainsInOrder'
  <2>1. ASSUME NEW i \in 1 .. Len(inits') PROVE RestInOrder(inits[i])'
    <3>1. i = 1 \/ i \in 2 .. Len(inits)
      BY <1>2, <1>8
    <3> QED BY <1>7, <1>10, <3>1
  <2> QED BY <2>1 DEF ChainsInOrder
<1> QED BY <1>4, <1>5, <1>7, <1>9, <1>11, <1>12, <1>13 DEF IInv, c, f, n

\* The initialisers of the class have all run.
LEMMA FinishKeepsIInv ==
    ASSUME IInv, NextInitialiser, InitsFinished(TopInit.next)
    PROVE  IInv'
<1> DEFINE c == TopInit.class
           n == TopInit.next
<1>1. /\ inits # <<>> /\ TypeOK /\ TopInit.running = FALSE /\ c # NoClass
      /\ inits' = [inits EXCEPT ![1].class = NoClass]
      /\ UNCHANGED <<statics, failed, begun>>
  <2>1. TypeOK
    BY DEF IInv
  <2>2. inits # <<>> /\ ~TopInit.running
    BY DEF NextInitialiser
  <2>3. TopInit.running \in BOOLEAN
    BY <2>1, <2>2, TopFacts
  <2> QED BY <2>1, <2>2, <2>3 DEF NextInitialiser
<1>2. /\ Len(inits) \in Nat \ {0} /\ 1 \in 1 .. Len(inits) /\ TopInit = inits[1]
      /\ TopInit \in InitCalls /\ n \in Nat \ {0} /\ c \in Classes \cup {NoClass}
      /\ inits \in Seq(InitCalls)
  BY <1>1, TopFacts DEF TypeOK
<1>3. BegunInOrder(inits[1])
  BY <1>1, <1>2 DEF IInv, FieldsInOrder
<1>4. Done(c)
  <2>1. \A k \in 1 .. Len(FieldOrder) : k < n
    BY <1>2, FieldPlaces DEF InitsFinished
  <2>2. \A k \in 1 .. Len(FieldOrder) :
           <<c, FieldOrder[k]>> \in begun /\ statics[c][FieldOrder[k]] # ZeroValue
    BY <1>1, <1>2, <1>3, <2>1 DEF BegunInOrder
  <2> QED BY <2>2, FieldPlaces DEF Done
<1>5. inits' = [inits EXCEPT ![1] = Edited(NoClass, n, FALSE)]
  <2>1. [TopInit EXCEPT !.class = NoClass] = Edited(NoClass, n, FALSE)
    BY <1>1, Edits
  <2>2. inits' = [inits EXCEPT ![1] = [TopInit EXCEPT !.class = NoClass]]
    BY <1>1, <1>2
  <2> QED BY <2>1, <2>2
<1> HIDE DEF c, n
<1>6. CallsWait' /\ OneCallEach' /\ SuperclassesFirst' /\ RestInOrder(inits[1])'
  <2>1. DOMAIN statics' = DOMAIN statics
    BY <1>1
  <2> QED BY <1>1, <1>2, <1>5, <2>1, EditKeeps
<1>7. /\ inits' \in Seq(InitCalls) /\ Len(inits') = Len(inits)
      /\ \A i \in 2 .. Len(inits) : inits'[i] = inits[i]
      /\ inits'[1].class = NoClass
  BY <1>1, <1>2, <1>5, EditFacts
<1>8. TypeOK'
  BY <1>1, <1>7 DEF TypeOK
<1>9. \A i \in 2 .. Len(inits) : BegunInOrder(inits[i])' /\ RestInOrder(inits[i])'
  <2>1. \A d \in DOMAIN statics, g \in Fields : (<<d, g>> \in begun' <=> <<d, g>> \in begun)
    BY <1>1
  <2> QED BY <1>1, <1>7, <2>1, OthersKept
<1>10. FieldsInOrder' /\ ChainsInOrder'
  <2>1. \A call : call.class = NoClass => BegunInOrder(call)'
    BY DEF BegunInOrder, NoClass
  <2>2. BegunInOrder(inits[1])'
    BY <1>7, <2>1
  <2>3. ASSUME NEW i \in 1 .. Len(inits') PROVE BegunInOrder(inits[i])' /\ RestInOrder(inits[i])'
    <3>1. i = 1 \/ i \in 2 .. Len(inits)
      BY <1>2, <1>7
    <3> QED BY <1>6, <1>9, <2>2, <3>1
  <2> QED BY <2>3 DEF FieldsInOrder, ChainsInOrder
<1>11. Settled'
  <2> SUFFICES ASSUME NEW d \in DOMAIN statics
               PROVE  InProgress(d)' \/ d \in failed' \/ Done(d)'
    BY <1>1 DEF Settled
  <2>1. \A x : Done(x) => Done(x)'
    BY <1>1 DEF Done, Fields, ZeroValue
  <2>2. CASE InProgress(d) /\ d # c
    <3>1. PICK i \in 1 .. Len(inits) : inits[i].class = d
      BY <1>2, <2>2, ProgressIs
    <3>2. i \in 1 .. Len(inits') /\ inits'[i].class = d
      BY <1>2, <1>7, <2>2, <3>1 DEF c
    <3>3. DOMAIN inits' = 1 .. Len(inits')
      BY <1>7
    <3> QED BY <3>2, <3>3 DEF InProgress
  <2>3. CASE Done(d) \/ d = c
    BY <1>4, <2>1, <2>3
  <2> QED BY <1>1, <2>2, <2>3 DEF IInv, Settled
<1> QED BY <1>6, <1>8, <1>10, <1>11 DEF IInv

\* An initialiser answers and its field is set.
LEMMA AnswerKeepsIInv ==
    ASSUME IInv, InitialiserAnswers
    PROVE  IInv'
<1> DEFINE c == TopInit.class
           n == TopInit.next
           f == FieldOrder[n]
<1>1. /\ inits # <<>> /\ TypeOK /\ TopInit.running /\ UNCHANGED <<failed, begun>>
      /\ inits' = [inits EXCEPT ![1].next = @ + 1, ![1].running = FALSE]
      /\ statics' = [statics EXCEPT ![c][f] = "initialised"]
  BY DEF InitialiserAnswers, IInv
<1>2. /\ Len(inits) \in Nat \ {0} /\ 1 \in 1 .. Len(inits) /\ TopInit = inits[1]
      /\ TopInit \in InitCalls /\ n \in Nat \ {0} /\ c \in Classes \cup {NoClass}
      /\ inits \in Seq(InitCalls)
  BY <1>1, TopFacts DEF TypeOK
<1>3. /\ c # NoClass /\ n \in 1 .. Len(FieldOrder) /\ f \in Fields
      /\ c \in DOMAIN statics /\ BegunInOrder(inits[1])
  <2>1. c # NoClass /\ n <= Len(FieldOrder)
    BY <1>1, <1>2 DEF IInv, CallsWait
  <2>2. n \in 1 .. Len(FieldOrder)
    BY <1>2, <2>1, FieldPlaces
  <2>3. c \in DOMAIN statics /\ BegunInOrder(inits[1])
    BY <1>2, <2>1 DEF IInv, OneCallEach, FieldsInOrder
  <2> QED BY <2>1, <2>2, <2>3, FieldPlaces
<1>4. inits' = [inits EXCEPT ![1] = Edited(c, n + 1, FALSE)]
  <2>1. [TopInit EXCEPT !.next = @ + 1, !.running = FALSE] = Edited(c, n + 1, FALSE)
    BY <1>1, Edits
  <2>2. inits' = [inits EXCEPT ![1] = [TopInit EXCEPT !.next = @ + 1, !.running = FALSE]]
    BY <1>1, <1>2
  <2> QED BY <2>1, <2>2
<1> HIDE DEF c, n, f
<1>5. /\ statics' \in [DOMAIN statics' -> [Fields -> FieldValues]]
      /\ DOMAIN statics' = DOMAIN statics
      /\ \A d \in DOMAIN statics : d # c => statics'[d] = statics[d]
      /\ statics'[c][f] = "initialised"
      /\ \A g \in Fields : g # f => statics'[c][g] = statics[c][g]
  BY <1>1, <1>3 DEF TypeOK, FieldValues
<1>6. CallsWait' /\ OneCallEach' /\ SuperclassesFirst' /\ RestInOrder(inits[1])'
  <2>1. n + 1 \in Nat \ {0} /\ c \in {TopInit.class, NoClass}
    BY <1>2 DEF c
  <2> QED BY <1>1, <1>4, <1>5, <2>1, EditKeeps
<1>7. /\ inits' \in Seq(InitCalls) /\ Len(inits') = Len(inits)
      /\ \A i \in 2 .. Len(inits) : inits'[i] = inits[i]
      /\ inits'[1].next = n + 1 /\ inits'[1].running = FALSE /\ inits'[1].class = c
  <2> DEFINE m == n + 1
  <2>1. /\ m \in Nat \ {0} /\ inits' = [inits EXCEPT ![1] = Edited(c, m, FALSE)]
        /\ inits # <<>> /\ TypeOK /\ c \in Classes \cup {NoClass}
    <3>1. m \in Nat \ {0}
      BY <1>2
    <3>2. inits' = [inits EXCEPT ![1] = Edited(c, m, FALSE)]
      BY <1>4
    <3> QED BY <1>1, <1>2, <3>1, <3>2, Zenon
  <2> HIDE DEF m
  <2>2. /\ inits' \in Seq(InitCalls) /\ Len(inits') = Len(inits)
        /\ \A i \in 2 .. Len(inits) : inits'[i] = inits[i]
        /\ inits'[1].next = m /\ inits'[1].running = FALSE /\ inits'[1].class = c
    BY <2>1, EditFacts
  <2> QED BY <2>2 DEF m
<1>8. TypeOK'
  BY <1>1, <1>5, <1>7 DEF TypeOK
<1>9. \A i \in 2 .. Len(inits) : BegunInOrder(inits[i])' /\ RestInOrder(inits[i])'
  <2>1. \A d \in DOMAIN statics, g \in Fields : (<<d, g>> \in begun' <=> <<d, g>> \in begun)
    BY <1>1
  <2>2. \A d \in DOMAIN statics : statics'[d] = statics[d] \/ (TopInit = inits[1] /\ d = TopInit.class)
    BY <1>2, <1>5 DEF c
  <2> QED BY <1>5, <1>7, <2>1, <2>2, OthersKept
<1>10. FieldsInOrder' /\ ChainsInOrder'
  <2>1. ASSUME NEW call, call.class = c, call.next = n + 1, call.running = FALSE
        PROVE  BegunInOrder(call)'
    <3>1. n + 1 <= Len(FieldOrder) + 1 /\ Len(FieldOrder) \in Nat
      BY <1>3, FieldPlaces
    <3>2. ASSUME NEW k \in 1 .. Len(FieldOrder)
          PROVE  <<c, FieldOrder[k]>> \in begun' <=> k < n + 1
      <4>1. <<c, FieldOrder[k]>> \in begun <=> k < n \/ k = n
        BY <1>1, <1>2, <1>3 DEF BegunInOrder, c, n
      <4> QED BY <1>1, <1>3, <4>1
    <3>3. ASSUME NEW k \in 1 .. Len(FieldOrder), k < n + 1
          PROVE  statics'[c][FieldOrder[k]] # ZeroValue
      <4>1. CASE k = n
        BY <1>5, <4>1 DEF f, ZeroValue
      <4>2. CASE k # n
        <5>1. k < n
          BY <1>3, <3>3, <4>2
        <5>2. statics[c][FieldOrder[k]] # ZeroValue
          BY <1>2, <1>3, <5>1 DEF BegunInOrder, c, n
        <5>3. FieldOrder[k] \in Fields
          BY FieldPlaces
        <5> QED BY <1>5, <5>2, <5>3 DEF ZeroValue
      <4> QED BY <4>1, <4>2
    <3> QED BY <2>1, <3>1, <3>2, <3>3 DEF BegunInOrder, NoClass, ZeroValue
  <2>2. BegunInOrder(inits[1])'
    BY <1>7, <2>1
  <2>3. ASSUME NEW i \in 1 .. Len(inits') PROVE BegunInOrder(inits[i])' /\ RestInOrder(inits[i])'
    <3>1. i = 1 \/ i \in 2 .. Len(inits)
      BY <1>2, <1>7
    <3> QED BY <1>6, <1>9, <2>2, <3>1
  <2> QED BY <2>3 DEF FieldsInOrder, ChainsInOrder
<1>11. Settled'
  <2> SUFFICES ASSUME NEW d \in DOMAIN statics
               PROVE  InProgress(d)' \/ d \in failed' \/ Done(d)'
    BY <1>5 DEF Settled
  <2>1. CASE InProgress(d)
    <3>1. PICK i \in 1 .. Len(inits) : inits[i].class = d
      BY <1>2, <2>1, ProgressIs
    <3>2. i \in 1 .. Len(inits') /\ inits'[i].class = d
      BY <1>2, <1>7, <3>1 DEF c
    <3>3. DOMAIN inits' = 1 .. Len(inits')
      BY <1>7
    <3> QED BY <3>2, <3>3 DEF InProgress
  <2>2. CASE Done(d)
    <3>1. \A g \in Fields : <<d, g>> \in begun' /\ statics'[d][g] # ZeroValue
      BY <1>1, <1>5, <2>2 DEF Done, ZeroValue
    <3> QED BY <3>1 DEF Done, Fields, ZeroValue
  <2> QED BY <1>1, <2>1, <2>2 DEF IInv, Settled
<1> QED BY <1>6, <1>8, <1>10, <1>11 DEF IInv

\* A store to a static field never puts a zero back.
LEMMA WriteKeepsIInv ==
    ASSUME IInv, WriteStatic
    PROVE  IInv'
<1>1. PICK c \in DOMAIN statics, f \in Fields : statics' = [statics EXCEPT ![c][f] = "written"]
  BY DEF WriteStatic, Fields
<1>2. UNCHANGED <<inits, failed, begun>> /\ TypeOK
  BY DEF WriteStatic, IInv
<1>3. /\ statics' \in [DOMAIN statics' -> [Fields -> FieldValues]]
      /\ DOMAIN statics' = DOMAIN statics
      /\ \A d \in DOMAIN statics, g \in Fields :
            statics[d][g] # ZeroValue => statics'[d][g] # ZeroValue
  BY <1>1, <1>2 DEF TypeOK, FieldValues, ZeroValue
<1>4. TypeOK' /\ CallsWait' /\ OneCallEach' /\ SuperclassesFirst'
  BY <1>2, <1>3 DEF IInv, TypeOK, CallsWait, OneCallEach, SuperclassesFirst, NoClass
<1>5. FieldsInOrder'
  <2>1. ASSUME NEW call, BegunInOrder(call),
               call.class # NoClass => call.class \in DOMAIN statics
        PROVE  BegunInOrder(call)'
    <3>1. \A k \in 1 .. Len(FieldOrder) : FieldOrder[k] \in Fields
      BY FieldPlaces
    <3> QED BY <1>2, <1>3, <2>1, <3>1 DEF BegunInOrder, NoClass, ZeroValue
  <2>2. \A i \in 1 .. Len(inits) : BegunInOrder(inits[i])
           /\ (inits[i].class # NoClass => inits[i].class \in DOMAIN statics)
    BY DEF IInv, FieldsInOrder, OneCallEach
  <2> QED BY <1>2, <2>1, <2>2 DEF FieldsInOrder
<1>6. ChainsInOrder'
  <2>1. \A call : RestInOrder(call) => RestInOrder(call)'
    BY <1>3 DEF RestInOrder
  <2> QED BY <1>2, <2>1 DEF IInv, ChainsInOrder
<1>7. Settled'
  <2>1. \A d \in DOMAIN statics : Done(d) => Done(d)'
    BY <1>2, <1>3 DEF Done, Fields, ZeroValue
  <2>2. \A d : InProgress(d) => InProgress(d)'
    BY <1>2 DEF InProgress
  <2> QED BY <1>2, <1>3, <2>1, <2>2 DEF IInv, Settled
<1> QED BY <1>4, <1>5, <1>6, <1>7 DEF IInv

-----------------------------------------------------------------------------
\* The invariant holds before the first class is used.
LEMMA InitKeepsIInv == ClassInitInit => IInv
<1> SUFFICES ASSUME ClassInitInit PROVE IInv
  OBVIOUS
<1>1. statics = <<>> /\ inits = <<>> /\ begun = {}
  BY DEF ClassInitInit
<1>2. DOMAIN <<>> = {} /\ <<>> \in [DOMAIN <<>> -> [Fields -> FieldValues]]
  OBVIOUS
<1>3. DOMAIN statics = {} /\ statics \in [DOMAIN statics -> [Fields -> FieldValues]]
  BY <1>1, <1>2, Zenon
<1>4. inits \in Seq(InitCalls) /\ Len(inits) = 0
  BY <1>1, EmptySeq
<1> QED BY <1>1, <1>3, <1>4 DEF IInv, TypeOK, CallsWait, OneCallEach, FieldsInOrder, Settled,
                               SuperclassesFirst, ChainsInOrder

\* An empty chain ends the call; a raise ends it with its class failed.
LEMMA EndsKeepIInv ==
    ASSUME IInv, (NextClass /\ TopInit.chain = <<>>) \/ InitialiserRaises
    PROVE  IInv'
<1>1. CASE NextClass /\ TopInit.chain = <<>>
  <2>1. /\ inits # <<>> /\ inits' = Tail(inits) /\ UNCHANGED <<statics, begun>>
        /\ failed \subseteq failed' /\ TopInit.class = NoClass
    BY <1>1 DEF NextClass
  <2> QED BY <2>1, PopKeepsIInv
<1>2. CASE InitialiserRaises
  <2>1. /\ inits # <<>> /\ inits' = Tail(inits) /\ UNCHANGED <<statics, begun>>
        /\ failed \subseteq failed' /\ TopInit.class \in failed'
    BY <1>2 DEF InitialiserRaises
  <2> QED BY <2>1, PopKeepsIInv
<1> QED BY <1>1, <1>2

\* Every step of an initialisation keeps the invariant.
LEMMA NextKeepsIInv == IInv /\ [ClassInitNext]_classVars => IInv'
<1> SUFFICES ASSUME IInv, [ClassInitNext]_classVars PROVE IInv'
  OBVIOUS
<1>1. CASE UseClass
  BY <1>1, UseKeepsIInv
<1>2. CASE NextClass
  BY <1>2, AdvanceKeepsIInv, EndsKeepIInv
<1>3. CASE NextInitialiser
  BY <1>3, BeginKeepsIInv, FinishKeepsIInv
<1>4. CASE InitialiserAnswers
  BY <1>4, AnswerKeepsIInv
<1>5. CASE InitialiserRaises
  BY <1>5, EndsKeepIInv
<1>6. CASE WriteStatic
  BY <1>6, WriteKeepsIInv
<1>7. CASE UNCHANGED classVars
  <2>1. UNCHANGED <<statics, inits, failed, begun>>
    BY <1>7 DEF classVars
  <2>2. TypeOK' /\ CallsWait' /\ OneCallEach'
    BY <2>1 DEF IInv, TypeOK, CallsWait, OneCallEach, NoClass
  <2>3. FieldsInOrder' /\ ChainsInOrder'
    <3>1. \A call : (BegunInOrder(call) => BegunInOrder(call)') /\ (RestInOrder(call) => RestInOrder(call)')
      BY <2>1 DEF BegunInOrder, RestInOrder, NoClass, ZeroValue
    <3> QED BY <2>1, <3>1 DEF IInv, FieldsInOrder, ChainsInOrder
  <2>4. Settled' /\ SuperclassesFirst'
    BY <2>1 DEF IInv, Settled, SuperclassesFirst, InProgress, Done, Fields, ZeroValue
  <2> QED BY <2>2, <2>3, <2>4 DEF IInv
<1> QED BY <1>1, <1>2, <1>3, <1>4, <1>5, <1>6, <1>7 DEF ClassInitNext

\* The calls in progress and the classes they registered stay consistent.
THEOREM Invariant == ClassInitSpec => []IInv
BY InitKeepsIInv, NextKeepsIInv, PTL DEF ClassInitSpec

\* A field is at its zero only while its class is being initialised, or after
\* a raise left it so (host.rs:6512).
THEOREM NoZeroOutside == ClassInitSpec => []ZeroOnlyInside
<1>1. IInv => ZeroOnlyInside
  BY DEF IInv, Settled, Done, ZeroOnlyInside, Fields
<1> QED BY <1>1, Invariant, PTL

\* An initialiser begins once, after every superclass of its class was begun:
\* it is finished, was left by a raise, or waits below (host.rs:6512).
THEOREM Once == ClassInitSpec => InitialisedOnce
<1> DEFINE Fresh == begun' # begun =>
         /\ <<TopInit.class, FieldOrder[TopInit.next]>> \notin begun
         /\ \A c \in ToSet(ChainOf[TopInit.class]) \ {TopInit.class} :
              \/ InProgress(c) \/ c \in failed
              \/ \A f \in ToSet(FieldOrder) : <<c, f>> \in begun
<1>1. IInv /\ [ClassInitNext]_classVars => [Fresh]_classVars
  <2> SUFFICES ASSUME IInv, ClassInitNext, begun' # begun PROVE Fresh
    BY DEF classVars
  <2>1. NextInitialiser /\ ~InitsFinished(TopInit.next)
    BY DEF ClassInitNext, UseClass, NextClass, NextInitialiser, InitialiserAnswers,
           InitialiserRaises, WriteStatic
  <2>2. <<TopInit.class, FieldOrder[TopInit.next]>> \notin begun /\ TopInit.class \in DOMAIN statics
    BY <2>1, BeginKeepsIInv
  <2>3. \A c \in ToSet(ChainOf[TopInit.class]) : InProgress(c) \/ c \in failed \/ Done(c)
    BY <2>2 DEF IInv, SuperclassesFirst, Settled
  <2> QED BY <2>2, <2>3 DEF Done, Fields
<1> QED BY <1>1, Invariant, PTL DEF ClassInitSpec, InitialisedOnce

-----------------------------------------------------------------------------
EmcTypeOK ==
    /\ objects \in Seq(Types \cup {NotInstance})
    /\ DOMAIN emcBorn = emcMethods /\ emcMethods \subseteq Types
    /\ emcBorn \in [emcMethods -> Nat]
    /\ expando \subseteq 1 .. Len(objects)

\* The heap was as long when the metaclass was replaced, or longer since.
BornEarlier == \A c \in emcMethods : emcBorn[c] <= Len(objects)

\* An instance was built with the replaced metaclass exactly if its position
\* is not below the one its class's metaclass was replaced at.
PositionsTell ==
    \A i \in 1 .. Len(objects) :
       i \in expando <=> objects[i] \in emcMethods /\ emcBorn[objects[i]] <= i - 1

EmcIInv == EmcTypeOK /\ BornEarlier /\ PositionsTell

-----------------------------------------------------------------------------
\* class_chain ends, and lists classes from the class up.
LEMMA AncestorsAre ==
    /\ \A c \in Types : Ancestors[c] \in Seq(Types)
    /\ \A c \in Types :
          Ancestors[c] = IF Super[c] = c THEN <<c>> ELSE <<c>> \o Ancestors[Super[c]]
<1>1. PICK depth \in [Types -> 0 .. Cardinality(Types)] :
         \A c \in Types : Super[c] = c \/ depth[Super[c]] < depth[c]
  BY SuperAssumption
<1> DEFINE base == [c \in Types |-> <<c>>]
           step == [c \in Types |-> [s \in Seq(Types) |-> <<c>> \o s]]
<1>2. /\ base \in [Types -> Seq(Types)]
      /\ step \in [Types -> [Seq(Types) -> Seq(Types)]]
  <2>1. ASSUME NEW c \in Types, NEW s \in Seq(Types) PROVE <<c>> \o s \in Seq(Types)
    BY Push
  <2> QED BY <2>1
<1>3. Cardinality(Types) \in Nat /\ Super \in [Types -> Types]
  BY SuperAssumption, FS_CardinalityType
<1>4. PICK h \in [Types -> Seq(Types)] : Recursive(h, Types, Super, base, step)
  <2>1. Leads(Types, Cardinality(Types), depth, Super)
    BY <1>1, <1>3 DEF Leads
  <2> HIDE DEF base, step
  <2> QED BY <1>2, <2>1, RecursionAlong, Zenon
<1>5. \A c \in Types : h[c] = IF Super[c] = c THEN <<c>> ELSE <<c>> \o h[Super[c]]
  BY <1>3, <1>4 DEF Recursive
<1>6. h = [c \in Types |-> IF Super[c] = c THEN <<c>> ELSE <<c>> \o h[Super[c]]]
  BY <1>5
<1>7. Ancestors = [c \in Types |-> IF Super[c] = c THEN <<c>> ELSE <<c>> \o Ancestors[Super[c]]]
  BY <1>6, Zenon DEF Ancestors
<1>8. \A c \in Types :
         Ancestors[c] = IF Super[c] = c THEN <<c>> ELSE <<c>> \o Ancestors[Super[c]]
  BY <1>7
<1>9. ASSUME NEW c \in Types, Super[c] = c \/ Ancestors[Super[c]] \in Seq(Types)
      PROVE  Ancestors[c] \in Seq(Types)
  <2>1. CASE Super[c] = c
    <3>1. Ancestors[c] = <<c>>
      BY <1>8, <2>1, Zenon
    <3>2. <<c>> \in Seq(Types)
      OBVIOUS
    <3> QED BY <3>1, <3>2
  <2>2. CASE Super[c] # c
    <3>1. Ancestors[c] = <<c>> \o Ancestors[Super[c]]
      BY <1>8, <2>2, Zenon
    <3>2. <<c>> \o Ancestors[Super[c]] \in Seq(Types)
      BY <1>9, <2>2, Push
    <3> QED BY <3>1, <3>2
  <2> QED BY <2>1, <2>2
<1>10. ASSUME NEW T, T = {c \in Types : Ancestors[c] \notin Seq(Types)}, T # {} PROVE FALSE
  <2>1. \A c \in Types : depth[c] \in Nat
    BY <1>3
  <2>2. depth \in [Types -> Nat] /\ T \in SUBSET Types
    BY <1>10, <2>1
  <2>3. PICK c \in T : Super[c] = c \/ Super[c] \notin T
    BY <1>1, <1>3, <1>10, <2>2, LeadsOut
  <2>4. Super[c] \in Types /\ c \in Types /\ Ancestors[c] \notin Seq(Types)
    BY <1>3, <1>10
  <2>5. Super[c] = c \/ Ancestors[Super[c]] \in Seq(Types)
    BY <1>10, <2>3, <2>4
  <2> QED BY <1>9, <2>4, <2>5
<1>11. \A c \in Types : Ancestors[c] \in Seq(Types)
  BY <1>10
<1> QED BY <1>8, <1>11

\* A chain starts with its class and goes on with the superclass's chain.
LEMMA ChainParts ==
    ASSUME NEW c \in Types
    PROVE  /\ Len(Ancestors[c]) \in Nat \ {0} /\ Ancestors[c][1] = c
           /\ DOMAIN Ancestors[c] = 1 .. Len(Ancestors[c])
           /\ Super[c] \in Types
           /\ Super[c] = c => Len(Ancestors[c]) = 1
           /\ Super[c] # c =>
                 /\ Len(Ancestors[c]) = Len(Ancestors[Super[c]]) + 1
                 /\ Len(Ancestors[Super[c]]) \in Nat
                 /\ \A i \in 2 .. Len(Ancestors[c]) :
                       Ancestors[c][i] = Ancestors[Super[c]][i - 1]
<1>1. Super[c] \in Types
  BY SuperAssumption
<1>2. Ancestors[c] \in Seq(Types) /\ Ancestors[Super[c]] \in Seq(Types)
  BY <1>1, AncestorsAre
<1>3. DOMAIN Ancestors[c] = 1 .. Len(Ancestors[c])
  BY <1>2, LenProperties
<1>4. CASE Super[c] = c
  <2>1. Ancestors[c] = <<c>>
    BY <1>4, AncestorsAre, Zenon
  <2>2. Len(<<c>>) = 1 /\ <<c>>[1] = c
    OBVIOUS
  <2> QED BY <1>1, <1>3, <1>4, <2>1, <2>2
<1>5. CASE Super[c] # c
  <2> DEFINE s == Ancestors[Super[c]]
  <2>1. Ancestors[c] = <<c>> \o s /\ s \in Seq(Types)
    BY <1>2, <1>5, AncestorsAre, Zenon
  <2> HIDE DEF s
  <2>2. /\ Len(s) \in Nat /\ Len(<<c>> \o s) = Len(s) + 1 /\ (<<c>> \o s)[1] = c
        /\ \A i \in 2 .. Len(s) + 1 : (<<c>> \o s)[i] = s[i - 1]
    BY <2>1, Push
  <2> QED BY <1>1, <1>3, <1>5, <2>1, <2>2 DEF s
<1> QED BY <1>4, <1>5

\* What comes later in a chain is in the chain of what comes earlier.
LEMMA ChainBelow ==
    ASSUME NEW c \in Types, NEW m \in 1 .. Len(Ancestors[c]), NEW n \in m .. Len(Ancestors[c])
    PROVE  /\ Ancestors[c][m] \in Types
           /\ Ancestors[c][n] \in ToSet(Ancestors[Ancestors[c][m]])
<1> DEFINE Below(d) == \A i \in 1 .. Len(Ancestors[d]) : \A j \in i .. Len(Ancestors[d]) :
                          Ancestors[d][j] \in ToSet(Ancestors[Ancestors[d][i]])
           T == {d \in Types : ~Below(d)}
<1>1. PICK depth \in [Types -> 0 .. Cardinality(Types)] :
         \A d \in Types : Super[d] = d \/ depth[Super[d]] < depth[d]
  BY SuperAssumption
<1>2. depth \in [Types -> Nat] /\ Super \in [Types -> Types]
  <2>1. Cardinality(Types) \in Nat
    BY SuperAssumption, FS_CardinalityType
  <2>2. \A d \in Types : depth[d] \in Nat
    BY <2>1
  <2> QED BY <2>2, SuperAssumption
<1>3. ASSUME NEW d \in Types, Super[d] = d \/ Below(Super[d]) PROVE Below(d)
  <2> SUFFICES ASSUME NEW i \in 1 .. Len(Ancestors[d]), NEW j \in i .. Len(Ancestors[d])
               PROVE  Ancestors[d][j] \in ToSet(Ancestors[Ancestors[d][i]])
    OBVIOUS
  <2>1. Len(Ancestors[d]) \in Nat /\ j \in 1 .. Len(Ancestors[d]) /\ Ancestors[d][1] = d
        /\ DOMAIN Ancestors[d] = 1 .. Len(Ancestors[d])
    BY ChainParts
  <2>2. CASE i = 1
    <3>1. Ancestors[d][j] \in ToSet(Ancestors[d])
      BY <2>1 DEF ToSet
    <3> QED BY <2>1, <2>2, <3>1
  <2>3. CASE i # 1
    <3>0. Super[d] = d => Len(Ancestors[d]) = 1
      BY ChainParts
    <3>1. Super[d] # d
      <4>1. Len(Ancestors[d]) # 1
        <5> HIDE DEF Below, T
        <5> DEFINE l == Len(Ancestors[d])
        <5>1. l \in Nat /\ i \in 1 .. l /\ i # 1
          BY <2>1, <2>3
        <5> HIDE DEF l
        <5>2. l # 1
          BY <5>1
        <5> QED BY <5>2 DEF l
      <4> QED BY <3>0, <4>1
    <3>2. /\ Len(Ancestors[d]) = Len(Ancestors[Super[d]]) + 1
          /\ Len(Ancestors[Super[d]]) \in Nat
          /\ \A k \in 2 .. Len(Ancestors[d]) : Ancestors[d][k] = Ancestors[Super[d]][k - 1]
      BY <3>1, ChainParts
    <3>3. /\ i - 1 \in 1 .. Len(Ancestors[Super[d]]) /\ j - 1 \in i - 1 .. Len(Ancestors[Super[d]])
          /\ Ancestors[d][i] = Ancestors[Super[d]][i - 1]
          /\ Ancestors[d][j] = Ancestors[Super[d]][j - 1]
      BY <2>1, <2>3, <3>2
    <3>4. Below(Super[d])
      BY <1>3, <3>1, Zenon
    <3> QED BY <3>3, <3>4
  <2> QED BY <2>2, <2>3
<1>4. T = {}
  <2> SUFFICES ASSUME T # {} PROVE FALSE
    OBVIOUS
  <2>1. T \in SUBSET Types
    OBVIOUS
  <2> HIDE DEF T
  <2>2. PICK d \in T : Super[d] = d \/ Super[d] \notin T
    BY <1>1, <1>2, <2>1, LeadsOut
  <2> USE DEF T
  <2>3. d \in Types /\ Super[d] \in Types /\ ~Below(d)
    BY <1>2
  <2> HIDE DEF Below
  <2> QED BY <1>3, <2>2, <2>3
<1>5. Ancestors[c][m] \in Types
  BY AncestorsAre, ElementOfSeq
<1> QED BY <1>4, <1>5

-----------------------------------------------------------------------------
\* The value of no instance is no type.
LEMMA OtherIsNoType == NotInstance \notin Types
BY SuperAssumption DEF NotInstance

\* The heap grows at its end.
LEMMA Appended ==
    ASSUME EmcTypeOK, NEW x \in Types \cup {NotInstance}, objects' = Append(objects, x)
    PROVE  /\ objects' \in Seq(Types \cup {NotInstance})
           /\ Len(objects) \in Nat /\ Len(objects') = Len(objects) + 1
           /\ objects'[Len(objects) + 1] = x
           /\ \A i \in 1 .. Len(objects) : objects'[i] = objects[i]
BY AppendProperties, LenProperties DEF EmcTypeOK

\* The invariant holds before any metaclass is changed.
LEMMA EmcInitIInv == EmcInit => EmcIInv
<1> SUFFICES ASSUME EmcInit PROVE EmcIInv
  OBVIOUS
<1>1. objects = <<>> /\ emcBorn = <<>> /\ emcMethods = {} /\ expando = {}
  BY DEF EmcInit
<1>2. DOMAIN <<>> = {} /\ <<>> \in [{} -> Nat]
  OBVIOUS
<1>3. DOMAIN emcBorn = emcMethods /\ emcBorn \in [emcMethods -> Nat]
  BY <1>1, <1>2, Zenon
<1>4. objects \in Seq(Types \cup {NotInstance}) /\ Len(objects) = 0
  BY <1>1, EmptySeq
<1> QED BY <1>1, <1>3, <1>4 DEF EmcIInv, EmcTypeOK, BornEarlier, PositionsTell

\* An instance of a class whose metaclass was replaced is built with that.
LEMMA NewKeepsIInv ==
    ASSUME EmcIInv, NewObject
    PROVE  EmcIInv'
<1>1. PICK c \in Types \cup {NotInstance} :
         /\ objects' = Append(objects, c)
         /\ expando' = IF c \in DOMAIN emcBorn THEN expando \cup {Len(objects')} ELSE expando
  BY DEF NewObject
<1>2. UNCHANGED <<emcBorn, emcMethods>> /\ EmcTypeOK
  BY DEF NewObject, EmcIInv
<1>3. /\ objects' \in Seq(Types \cup {NotInstance})
      /\ Len(objects) \in Nat /\ Len(objects') = Len(objects) + 1
      /\ objects'[Len(objects) + 1] = c
      /\ \A i \in 1 .. Len(objects) : objects'[i] = objects[i]
  BY <1>1, <1>2, Appended
<1>4. EmcTypeOK'
  <2>1. expando' \subseteq 1 .. Len(objects')
    <3> SUFFICES ASSUME NEW i \in expando' PROVE i \in 1 .. Len(objects')
      OBVIOUS
    <3>1. i \in expando \/ i = Len(objects')
      BY <1>1
    <3>2. i \in expando => i \in 1 .. Len(objects)
      BY <1>2 DEF EmcTypeOK
    <3> QED BY <1>3, <3>1, <3>2
  <2> QED BY <1>2, <1>3, <2>1 DEF EmcTypeOK
<1>5. BornEarlier'
  BY <1>2, <1>3 DEF EmcIInv, EmcTypeOK, BornEarlier
<1>6. ASSUME NEW i \in 1 .. Len(objects')
      PROVE  i \in expando' <=> objects'[i] \in emcMethods /\ emcBorn[objects'[i]] <= i - 1
  <2>1. CASE i = Len(objects')
    <3>1. i \notin expando
      BY <1>2, <1>3, <2>1 DEF EmcTypeOK
    <3>2. i \in expando' <=> c \in emcMethods
      BY <1>1, <1>2, <2>1, <3>1 DEF EmcTypeOK
    <3>3. c \in emcMethods => emcBorn[c] <= i - 1
      BY <1>3, <2>1 DEF EmcIInv, BornEarlier
    <3> QED BY <1>3, <2>1, <3>2, <3>3
  <2>2. CASE i # Len(objects')
    <3>1. i \in 1 .. Len(objects)
      BY <1>3, <2>2
    <3>2. i \in expando' <=> i \in expando
      BY <1>1, <2>2
    <3> QED BY <1>3, <3>1, <3>2 DEF EmcIInv, PositionsTell
  <2> QED BY <2>1, <2>2
<1> QED BY <1>2, <1>4, <1>5, <1>6 DEF EmcIInv, PositionsTell

\* A class's first injection is after every object there is.
LEMMA InjectKeepsIInv ==
    ASSUME EmcIInv, InjectClass
    PROVE  EmcIInv'
<1>1. PICK c \in Types :
         /\ emcBorn' = IF c \in DOMAIN emcBorn THEN emcBorn
                       ELSE [d \in DOMAIN emcBorn \cup {c} |->
                               IF d = c THEN Len(objects') ELSE emcBorn[d]]
         /\ emcMethods' = emcMethods \cup {c}
  BY DEF InjectClass
<1>2. expando' = expando /\ objects' = Append(objects, NotInstance) /\ EmcTypeOK
  BY DEF InjectClass, EmcIInv
<1>3. /\ objects' \in Seq(Types \cup {NotInstance})
      /\ Len(objects) \in Nat /\ Len(objects') = Len(objects) + 1
      /\ objects'[Len(objects) + 1] = NotInstance
      /\ \A i \in 1 .. Len(objects) : objects'[i] = objects[i]
  BY <1>2, Appended
<1>4. /\ DOMAIN emcBorn' = emcMethods' /\ emcBorn' \in [emcMethods' -> Nat]
      /\ \A d \in emcMethods : emcBorn'[d] = emcBorn[d]
      /\ c \notin emcMethods => emcBorn'[c] = Len(objects')
  <2>1. CASE c \in emcMethods
    <3>1. emcBorn' = emcBorn /\ emcMethods' = emcMethods
      BY <1>1, <1>2, <2>1 DEF EmcTypeOK
    <3> QED BY <1>2, <2>1, <3>1 DEF EmcTypeOK
  <2>2. CASE c \notin emcMethods
    <3>1. emcBorn' = [d \in emcMethods \cup {c} |-> IF d = c THEN Len(objects') ELSE emcBorn[d]]
      BY <1>1, <1>2, <2>2 DEF EmcTypeOK
    <3>2. \A d \in emcMethods : emcBorn[d] \in Nat
      BY <1>2 DEF EmcTypeOK
    <3> QED BY <1>1, <1>3, <2>2, <3>1, <3>2
  <2> QED BY <2>1, <2>2
<1>5. EmcTypeOK'
  BY <1>1, <1>2, <1>3, <1>4 DEF EmcTypeOK
<1>6. BornEarlier'
  <2>1. ASSUME NEW d \in emcMethods' PROVE emcBorn'[d] <= Len(objects')
    <3>1. CASE d \in emcMethods
      BY <1>2, <1>3, <1>4, <3>1 DEF EmcIInv, EmcTypeOK, BornEarlier
    <3>2. CASE d \notin emcMethods
      BY <1>1, <1>3, <1>4, <3>2
    <3> QED BY <3>1, <3>2
  <2> QED BY <2>1 DEF BornEarlier
<1>7. ASSUME NEW i \in 1 .. Len(objects')
      PROVE  i \in expando' <=> objects'[i] \in emcMethods' /\ emcBorn'[objects'[i]] <= i - 1
  <2>1. CASE i = Len(objects')
    <3>1. i \notin expando
      BY <1>2, <1>3, <2>1 DEF EmcTypeOK
    <3>2. objects'[i] \notin emcMethods'
      BY <1>3, <1>5, <2>1, OtherIsNoType DEF EmcTypeOK
    <3> QED BY <1>2, <3>1, <3>2
  <2>2. CASE i # Len(objects')
    <3>1. i \in 1 .. Len(objects) /\ objects'[i] = objects[i]
      BY <1>3, <2>2
    <3>2. i \in expando <=> objects[i] \in emcMethods /\ emcBorn[objects[i]] <= i - 1
      BY <3>1 DEF EmcIInv, PositionsTell
    <3>3. CASE objects[i] \in emcMethods
      BY <1>1, <1>2, <1>4, <3>1, <3>2, <3>3
    <3>4. CASE objects[i] \notin emcMethods
      <4>1. objects[i] = c => emcBorn'[c] = Len(objects) + 1
        BY <1>3, <1>4, <3>4
      <4>2. objects[i] = c => ~(emcBorn'[c] <= i - 1)
        BY <1>3, <3>1, <4>1
      <4> QED BY <1>1, <1>2, <3>1, <3>2, <3>4, <4>2
    <3> QED BY <3>3, <3>4
  <2> QED BY <2>1, <2>2
<1> QED BY <1>5, <1>6, <1>7 DEF EmcIInv, PositionsTell

\* Injecting into an instance adds an object and nothing to the classes.
LEMMA InjectInstanceKeepsIInv ==
    ASSUME EmcIInv, InjectInstance
    PROVE  EmcIInv'
<1>1. UNCHANGED <<emcBorn, emcMethods, expando>> /\ objects' = Append(objects, NotInstance) /\ EmcTypeOK
  BY DEF InjectInstance, EmcIInv
<1>2. /\ objects' \in Seq(Types \cup {NotInstance})
      /\ Len(objects) \in Nat /\ Len(objects') = Len(objects) + 1
      /\ objects'[Len(objects) + 1] = NotInstance
      /\ \A i \in 1 .. Len(objects) : objects'[i] = objects[i]
  BY <1>1, Appended
<1>3. EmcTypeOK'
  BY <1>1, <1>2 DEF EmcTypeOK
<1>4. BornEarlier'
  BY <1>1, <1>2 DEF EmcIInv, EmcTypeOK, BornEarlier
<1>5. ASSUME NEW i \in 1 .. Len(objects')
      PROVE  i \in expando <=> objects'[i] \in emcMethods /\ emcBorn[objects'[i]] <= i - 1
  <2>1. CASE i = Len(objects')
    <3>1. i \notin expando /\ objects'[i] \notin emcMethods
      BY <1>1, <1>2, <2>1, OtherIsNoType DEF EmcTypeOK
    <3> QED BY <3>1
  <2>2. CASE i # Len(objects')
    <3>1. i \in 1 .. Len(objects)
      BY <1>2, <2>2
    <3> QED BY <1>2, <3>1 DEF EmcIInv, PositionsTell
  <2> QED BY <2>1, <2>2
<1> QED BY <1>1, <1>3, <1>4, <1>5 DEF EmcIInv, PositionsTell

\* Every change of a metaclass and every call keep the invariant.
LEMMA EmcNextKeepsIInv == EmcIInv /\ [EmcNext]_emcVars => EmcIInv'
<1> SUFFICES ASSUME EmcIInv, [EmcNext]_emcVars PROVE EmcIInv'
  OBVIOUS
<1>1. CASE UNCHANGED emcVars
  BY <1>1 DEF emcVars, EmcIInv, EmcTypeOK, BornEarlier, PositionsTell, NotInstance
<1> QED BY <1>1, NewKeepsIInv, InjectKeepsIInv, InjectInstanceKeepsIInv DEF EmcNext

\* Heap positions tell which metaclass an instance was built with.
THEOREM EmcInvariant == EmcSpec => []EmcIInv
BY EmcInitIInv, EmcNextKeepsIInv, PTL DEF EmcSpec

-----------------------------------------------------------------------------
\* What the lookup finds for an instance without a method of its own: the
\* first class of the chain that answers.
LEMMA LookupFinds ==
    ASSUME NEW i, i \notin emcInstance, Answering(i) \in SUBSET Nat
    PROVE  /\ Answering(i) = {} => EmcLookup(i) = <<"missing">>
           /\ Answering(i) # {} =>
                 /\ Min(Answering(i)) \in Answering(i)
                 /\ \A k \in Answering(i) : Min(Answering(i)) <= k
                 /\ EmcLookup(i) = <<"class", Ancestors[objects[i]][Min(Answering(i))]>>
<1>1. Answering(i) # {} => /\ Min(Answering(i)) \in Answering(i)
                           /\ \A k \in Answering(i) : Min(Answering(i)) <= k
  <2> SUFFICES ASSUME NEW A, A \in SUBSET Nat, A # {}
               PROVE  Min(A) \in A /\ \A k \in A : Min(A) <= k
    OBVIOUS
  <2>1. \E m \in A : \A k \in A : m <= k
    BY LeastElement
  <2> QED BY <2>1 DEF Min
<1> QED BY <1>1 DEF EmcLookup

\* The invariant gives what an instance sees.
LEMMA SeesIt == EmcIInv => SeesItsMetaclass
<1> SUFFICES ASSUME EmcIInv, NEW i \in Instances
             PROVE  LET c == objects[i]
                        seen == IF i \in expando THEN {c} \cap emcMethods ELSE {}
                        above == {d \in ToSet(Ancestors[c]) \ {c} : d \in emcMethods}
                    IN  CASE i \in emcInstance -> EmcLookup(i) = <<"instance", i>>
                          [] i \notin emcInstance /\ seen # {} -> EmcLookup(i) = <<"class", c>>
                          [] i \notin emcInstance /\ seen = {} /\ above # {} ->
                               /\ EmcLookup(i)[1] = "class" /\ EmcLookup(i)[2] \in above
                               /\ \A d \in above : d \in ToSet(Ancestors[EmcLookup(i)[2]])
                          [] OTHER -> EmcLookup(i) = <<"missing">>
  BY DEF SeesItsMetaclass
<1> DEFINE c == objects[i]
           seen == IF i \in expando THEN {c} \cap emcMethods ELSE {}
           above == {d \in ToSet(Ancestors[c]) \ {c} : d \in emcMethods}
           A == Answering(i)
           n == Len(Ancestors[c])
<1>1. i \in 1 .. Len(objects) /\ c \in Types
  <2>1. objects \in Seq(Types \cup {NotInstance})
    BY DEF EmcIInv, EmcTypeOK
  <2>2. i \in 1 .. Len(objects) /\ c # NotInstance
    BY <2>1, LenProperties DEF Instances
  <2> QED BY <2>1, <2>2, ElementOfSeq
<1>2. /\ n \in Nat \ {0} /\ Ancestors[c][1] = c
      /\ DOMAIN Ancestors[c] = 1 .. n
  BY <1>1, ChainParts
<1>3. i \in expando <=> c \in emcMethods /\ BornWith(c, i)
  BY <1>1 DEF EmcIInv, PositionsTell, EmcTypeOK, BornWith
<1>4. \A k : k \in A <=> /\ k \in 1 .. n /\ Ancestors[c][k] \in emcMethods
                         /\ Ancestors[c][k] = c => BornWith(c, i)
  BY <1>2 DEF Answering
<1>5. A \in SUBSET Nat
  BY <1>2, <1>4
<1>6. seen # {} <=> 1 \in A
  BY <1>2, <1>3, <1>4
<1>7. \A k \in 1 .. n : Ancestors[c][k] \in above => k \in A
  BY <1>4
<1>8. seen = {} => \A k \in A : Ancestors[c][k] \in above
  <2> SUFFICES ASSUME seen = {}, NEW k \in A PROVE Ancestors[c][k] \in above
    OBVIOUS
  <2>1. k \in 1 .. n /\ Ancestors[c][k] \in emcMethods /\ Ancestors[c][k] # c
    BY <1>3, <1>4
  <2> QED BY <1>2, <2>1 DEF ToSet
<1>9. CASE i \in emcInstance
  BY <1>9 DEF EmcLookup
<1>10. CASE i \notin emcInstance /\ seen # {}
  <2>1. /\ Min(A) \in A /\ \A k \in A : Min(A) <= k
        /\ EmcLookup(i) = <<"class", Ancestors[c][Min(A)]>>
    BY <1>5, <1>6, <1>10, LookupFinds
  <2>2. Min(A) = 1
    BY <1>2, <1>4, <1>6, <1>10, <2>1
  <2>3. EmcLookup(i) = <<"class", c>>
    BY <1>2, <2>1, <2>2
  <2> QED BY <1>10, <2>3
<1>11. CASE i \notin emcInstance /\ seen = {} /\ above # {}
  <2>1. A # {}
    <3>1. PICK d \in above : TRUE
      BY <1>11
    <3>2. PICK k \in 1 .. n : Ancestors[c][k] = d
      BY <1>2, <3>1 DEF ToSet
    <3> QED BY <1>7, <3>1, <3>2
  <2>2. /\ Min(A) \in A /\ \A k \in A : Min(A) <= k
        /\ EmcLookup(i) = <<"class", Ancestors[c][Min(A)]>>
    BY <1>5, <1>11, <2>1, LookupFinds
  <2> DEFINE m == Min(A)
             e == Ancestors[c][m]
  <2>3. m \in 1 .. n /\ e \in above
    BY <1>4, <1>8, <1>11, <2>2
  <2>4. ASSUME NEW d \in above PROVE d \in ToSet(Ancestors[e])
    <3>1. PICK k \in 1 .. n : Ancestors[c][k] = d
      BY <1>2, <2>4 DEF ToSet
    <3>2. m <= k
      BY <1>7, <2>2, <2>4, <3>1
    <3>3. k \in m .. n
      BY <1>2, <2>3, <3>1, <3>2
    <3> QED BY <1>1, <2>3, <3>1, <3>3, ChainBelow
  <2>5. EmcLookup(i)[1] = "class" /\ EmcLookup(i)[2] = e
    BY <2>2
  <2> QED BY <1>11, <2>3, <2>4, <2>5
<1>12. CASE i \notin emcInstance /\ seen = {} /\ above = {}
  <2>1. A = {}
    BY <1>8, <1>12
  <2>2. EmcLookup(i) = <<"missing">>
    BY <1>5, <1>12, <2>1, LookupFinds
  <2> QED BY <1>12, <2>2
<1> QED BY <1>9, <1>10, <1>11, <1>12

\* An instance answers with its own method, else with what its metaclass and
\* the classes above it have, whatever the order of constructions and
\* injections (host.rs:4043, 4061).
THEOREM SeesMetaclass == EmcSpec => []SeesItsMetaclass
BY SeesIt, EmcInvariant, PTL
=============================================================================
