----------------------------- MODULE DapProofs -----------------------------
(***************************************************************************)
(* What the debug adapter guarantees for every set of files, lines and     *)
(* markers, every pipe size, and every bound on requests and steps.        *)
(***************************************************************************)
EXTENDS Dap, SequenceTheorems, TLAPS

Bodies == [type : {"response", "event"},
           what : Commands \cup {"initialized", "stopped", "output", "terminated"},
           arg : Nat]

(* Emit appends its messages unchanged behind what was sent before, and     *)
(* numbers them from seq on.                                                *)
LEMMA EmitAppends ==
    ASSUME out \in Seq(Messages), seq \in Nat, NEW ms \in Seq(Bodies), Emit(ms)
    PROVE  /\ out' \in Seq(Messages)
           /\ seq' \in Nat /\ seq' = seq + Len(ms)
           /\ Len(out') = Len(out) + Len(ms)
           /\ \A i \in 1..Len(out) : out'[i] = out[i]
           /\ \A i \in 1..Len(ms) :
                /\ out'[Len(out) + i].type = ms[i].type
                /\ out'[Len(out) + i].arg = ms[i].arg
                /\ out'[Len(out) + i].seq = seq + i - 1
<1> DEFINE new == [i \in 1..Len(ms) |->
                     [type |-> ms[i].type, what |-> ms[i].what,
                      arg |-> ms[i].arg, seq |-> seq + i - 1]]
<1>1. Len(ms) \in Nat /\ \A i \in 1..Len(ms) : ms[i] \in Bodies
  BY ElementOfSeq, LenProperties
<1>2. \A i \in 1..Len(ms) : new[i] \in Messages
  BY <1>1 DEF Bodies, Messages
<1>3. new \in Seq(Messages) /\ Len(new) = Len(ms)
  BY <1>1, <1>2, IsASeq
<1>4. out' = out \o new /\ seq' = seq + Len(ms)
  BY DEF Emit
<1>n. \A i \in 1..Len(ms) : /\ new[i].type = ms[i].type /\ new[i].arg = ms[i].arg
                            /\ new[i].seq = seq + i - 1
  OBVIOUS
<1> HIDE DEF new
<1>5. out' \in Seq(Messages) /\ Len(out') = Len(out) + Len(ms)
  <2>1. out \o new \in Seq(Messages) /\ Len(out \o new) = Len(out) + Len(new)
    BY <1>3, ConcatProperties
  <2> QED BY <1>3, <1>4, <2>1
<1>6. \A i \in 1..Len(out) : out'[i] = out[i]
  BY <1>3, <1>4, <1>5, ConcatProperties, LenProperties
<1>7. \A i \in 1..Len(ms) : out'[Len(out) + i] = new[i]
  <2>1. TAKE i \in 1..Len(ms)
  <2>2. Len(out) \in Nat
    BY LenProperties
  <2>3. Len(out) + i \in 1..(Len(out) + Len(new)) /\ Len(out) + i > Len(out)
    BY <1>1, <1>3, <2>2
  <2>4. (out \o new)[Len(out) + i] = new[Len(out) + i - Len(out)]
    BY <1>3, <2>2, <2>3, ConcatProperties
  <2>5. Len(out) + i - Len(out) = i
    BY <1>1, <2>2
  <2> QED BY <1>4, <2>4, <2>5
<1>8. \A i \in 1..Len(ms) : /\ out'[Len(out) + i].type = ms[i].type
                            /\ out'[Len(out) + i].arg = ms[i].arg
                            /\ out'[Len(out) + i].seq = seq + i - 1
  BY <1>7, <1>n
<1> QED BY <1>1, <1>4, <1>5, <1>6, <1>8

(* The message lists the actions emit are well typed.                       *)
LEMMA BodyTypes ==
    ASSUME NEW r \in Queued
    PROVE  /\ <<Response(r)>> \in Seq(Bodies)
           /\ <<Response(r), Event("initialized", 0)>> \in Seq(Bodies)
<1>1. Response(r) \in Bodies /\ Event("initialized", 0) \in Bodies
  BY DEF Queued, Response, Event, Bodies
<1> QED BY <1>1

\* So are the ones that drain the pipe before an event.
LEMMA EventTypes ==
    ASSUME NEW n \in Nat, NEW m \in Nat
    PROVE  /\ Append(Drained(n), Event("stopped", m)) \in Seq(Bodies)
           /\ Append(Drained(n), Event("terminated", m)) \in Seq(Bodies)
<1>1. /\ Event("output", n) \in Bodies /\ Event("stopped", m) \in Bodies
      /\ Event("terminated", m) \in Bodies
  BY DEF Event, Bodies
<1>2. Drained(n) \in Seq(Bodies)
  BY <1>1 DEF Drained
<1> QED BY <1>1, <1>2, AppendProperties

\* The request read next, and what is left of the inbox.
LEMMA HeadType ==
    ASSUME TypeOK, Reading
    PROVE  /\ Head(inbox) \in Queued /\ Tail(inbox) \in Seq(Queued)
           /\ Len(Tail(inbox)) = Len(inbox) - 1 /\ Len(inbox) \in Nat \ {0}
           /\ Head(inbox) = inbox[1]
           /\ \A i \in 1..Len(Tail(inbox)) : Tail(inbox)[i] = inbox[i + 1]
  BY HeadTailProperties, EmptySeq, LenProperties DEF TypeOK, Reading, Queued

-----------------------------------------------------------------------------
\* The adapter is well typed before the first request.
THEOREM TypeInit == Init => TypeOK
<1> SUFFICES ASSUME Init PROVE TypeOK
  OBVIOUS
<1>1. told \in [Paths -> SUBSET Lines]
  BY DEF Init
<1>2. inbox \in Seq(Queued) /\ out \in Seq(Messages)
  BY DEF Init
<1> QED BY <1>1, <1>2 DEF Init, TypeOK, Phases

(* One step per action; an action that reads a request and answers it also   *)
(* needs the types of the request and of the grown channel.                  *)
LEMMA TypeStep == TypeOK /\ [Next]_vars => TypeOK'
<1> SUFFICES ASSUME TypeOK, [Next]_vars PROVE TypeOK'
  OBVIOUS
<1> USE DEF TypeOK, Phases
<1>u. CASE UNCHANGED vars
  BY <1>u DEF vars
<1>1. ASSUME NEW r \in Requests, Send(r) PROVE TypeOK'
  <2>1. [cmd |-> r.cmd, path |-> r.path, lines |-> r.lines, seq |-> sent + 1] \in Queued
    BY <1>1 DEF Requests, Commands, Plain, Queued
  <2>2. inbox' \in Seq(Queued)
    BY <1>1, <2>1, AppendProperties DEF Send
  <2> QED BY <1>1, <2>2 DEF Send, debug, output, wire
<1>2. CASE Close
  BY <1>2 DEF Close, debug, output, wire
<1>3. ASSUME NEW c, Read(c)
      PROVE  /\ Head(inbox) \in Queued /\ inbox' \in Seq(Queued)
             /\ Head(inbox).path \in Paths \cup {NoPath}
             /\ Head(inbox).lines \subseteq Lines
             /\ c = "setBreakpoints" => Head(inbox).path \in Paths
  BY <1>3, HeadType DEF Read, Queued
<1>4. CASE Acknowledge
  <2>1. Head(inbox) \in Queued /\ inbox' \in Seq(Queued)
    BY <1>3, <1>4 DEF Acknowledge
  <2>2. out' \in Seq(Messages) /\ seq' \in Nat
    BY <1>4, <2>1, EmitAppends, BodyTypes DEF Acknowledge
  <2> QED BY <1>4, <2>1, <2>2 DEF Acknowledge, debug, output
<1>5. CASE Initialize
  <2>1. Head(inbox) \in Queued /\ inbox' \in Seq(Queued)
    BY <1>3, <1>5 DEF Initialize
  <2>2. out' \in Seq(Messages) /\ seq' \in Nat
    BY <1>5, <2>1, EmitAppends, BodyTypes DEF Initialize
  <2> QED BY <1>5, <2>1, <2>2 DEF Initialize, debug, output
<1>6. CASE SetBreakpoints
  <2>1. /\ Head(inbox) \in Queued /\ inbox' \in Seq(Queued)
        /\ Head(inbox).path \in Paths /\ Head(inbox).lines \subseteq Lines
    BY <1>3, <1>6 DEF SetBreakpoints
  <2>2. out' \in Seq(Messages) /\ seq' \in Nat
    BY <1>6, <2>1, EmitAppends, BodyTypes DEF SetBreakpoints
  <2>3. told' \in [Paths -> SUBSET Lines]
    BY <1>6, <2>1 DEF SetBreakpoints
  <2>4. breakpoints' \subseteq Lines /\ verified' \subseteq Lines /\ program' \in Paths
    BY <1>6, <2>1, MarkersAssumption DEF SetBreakpoints
  <2> QED BY <1>6, <2>1, <2>2, <2>3, <2>4 DEF SetBreakpoints, output
<1>7. CASE Launch
  <2>1. /\ Head(inbox) \in Queued /\ inbox' \in Seq(Queued)
        /\ Head(inbox).path \in Paths \cup {NoPath}
    BY <1>3, <1>7 DEF Launch
  <2>2. out' \in Seq(Messages) /\ seq' \in Nat
    BY <1>7, <2>1, EmitAppends, BodyTypes DEF Launch
  <2> QED BY <1>7, <2>1, <2>2 DEF Launch, output
<1>8. ASSUME NEW c, NEW m \in {"Continue", "Step"}, Resume(c, m) PROVE TypeOK'
  <2>1. Head(inbox) \in Queued /\ inbox' \in Seq(Queued)
    BY <1>3, <1>8 DEF Resume
  <2>2. out' \in Seq(Messages) /\ seq' \in Nat
    BY <1>8, <2>1, EmitAppends, BodyTypes DEF Resume
  <2> QED BY <1>8, <2>1, <2>2 DEF Resume, output
<1>9. CASE Disconnect
  <2>1. Head(inbox) \in Queued /\ inbox' \in Seq(Queued)
    BY <1>3, <1>9 DEF Disconnect
  <2>2. out' \in Seq(Messages) /\ seq' \in Nat
    BY <1>9, <2>1, EmitAppends, BodyTypes DEF Disconnect
  <2> QED BY <1>9, <2>1, <2>2 DEF Disconnect, debug, output
<1>10. CASE ReadEof
  BY <1>10 DEF ReadEof, client, output, wire
<1>11. ASSUME NEW l \in Lines, Marker(l) PROVE TypeOK'
  <2>1. out' \in Seq(Messages) /\ seq' \in Nat
    <3>1. CASE StopsAt(l)
      <4>1. l \in Nat
        BY LinesAssumption
      <4> QED BY <1>11, <3>1, <4>1, EmitAppends, EventTypes DEF Marker
    <3>2. CASE ~StopsAt(l)
      BY <1>11, <3>2 DEF Marker, wire
    <3> QED BY <3>1, <3>2
  <2> QED BY <1>11, <2>1 DEF Marker, client, debug
<1>12. CASE Println
  BY <1>12 DEF Println, client, debug, wire
<1>13. CASE PrintPartial
  BY <1>13 DEF PrintPartial, client, debug, wire
<1>14. CASE Finish
  <2>1. pipe + tail \in Nat /\ forwarded + pipe + tail \in Nat
    OBVIOUS
  <2>2. Append(Drained(pipe + tail), Event("terminated", 0)) \in Seq(Bodies)
    BY <2>1, EventTypes
  <2>3. out' \in Seq(Messages) /\ seq' \in Nat
    BY <1>14, <2>2, EmitAppends DEF Finish
  <2> QED BY <1>14, <2>1, <2>3 DEF Finish, client
<1> QED
  BY <1>u, <1>1, <1>2, <1>4, <1>5, <1>6, <1>7, <1>8, <1>9, <1>10, <1>11, <1>12,
     <1>13, <1>14 DEF Next, Serve, Script

(* Spec => []TypeOK: the adapter's state is well typed whatever the client   *)
(* sends and the script does.                                                *)
THEOREM TypeCorrect == Spec => []TypeOK
  BY TypeInit, TypeStep, PTL DEF Spec

-----------------------------------------------------------------------------
(* AnsweredInOrder and Numbered are about the channel; they are inductive    *)
(* once the waiting requests are known to carry the numbers that follow the  *)
(* last one answered.                                                        *)
InboxNumbered == /\ Len(inbox) <= sent
                 /\ \A i \in 1..Len(inbox) : inbox[i].seq = Answered + i

ChannelInv == InboxNumbered /\ AnsweredInOrder /\ Numbered

(* Reading the oldest request and answering it first keeps the channel in    *)
(* order, whatever events follow the answer.                                 *)
LEMMA AnswerKeeps ==
    ASSUME TypeOK, ChannelInv, Reading, inbox' = Tail(inbox), sent' = sent,
           NEW ms \in Seq(Bodies), Emit(ms), Len(ms) >= 1,
           ms[1].type = "response", ms[1].arg = Head(inbox).seq,
           \A i \in 2..Len(ms) : ms[i].type = "event"
    PROVE  ChannelInv'
<1>1. /\ Len(inbox') = Len(inbox) - 1 /\ Len(inbox) \in Nat \ {0} /\ sent \in Nat
      /\ Head(inbox) = inbox[1] /\ Len(inbox') \in Nat
      /\ \A i \in 1..Len(inbox') : inbox'[i] = inbox[i + 1]
  BY HeadType DEF TypeOK
<1>2. Answered' = Answered + 1 /\ Answered \in Nat /\ Head(inbox).seq = Answered + 1
  BY <1>1 DEF ChannelInv, InboxNumbered, Answered
<1>3. InboxNumbered'
  BY <1>1, <1>2 DEF ChannelInv, InboxNumbered
<1>4. /\ Len(out) \in Nat /\ Len(ms) \in Nat /\ seq' = seq + Len(ms)
      /\ Len(out') = Len(out) + Len(ms)
      /\ \A i \in 1..Len(out) : out'[i] = out[i]
      /\ \A i \in 1..Len(ms) : /\ out'[Len(out) + i].type = ms[i].type
                              /\ out'[Len(out) + i].arg = ms[i].arg
                              /\ out'[Len(out) + i].seq = seq + i - 1
  BY EmitAppends, LenProperties DEF TypeOK
<1>5. \A i \in 1..Len(out') : i \in 1..Len(out) \/ \E j \in 1..Len(ms) : i = Len(out) + j
  <2>1. TAKE i \in 1..Len(out')
  <2>2. CASE i > Len(out)
    <3>1. i - Len(out) \in 1..Len(ms) /\ i = Len(out) + (i - Len(out))
      BY <1>4, <2>2
    <3> QED BY <3>1
  <2> QED BY <1>4, <2>2
<1>6. Numbered'
  <2>1. seq' = Len(out') + 1
    BY <1>4 DEF ChannelInv, Numbered, TypeOK
  <2>2. ASSUME NEW i \in 1..Len(out') PROVE out'[i].seq = i
    <3>1. CASE i \in 1..Len(out)
      BY <1>4, <3>1 DEF ChannelInv, Numbered
    <3>2. ASSUME NEW j \in 1..Len(ms), i = Len(out) + j PROVE out'[i].seq = i
      BY <1>4, <3>2 DEF ChannelInv, Numbered
    <3> QED BY <1>5, <3>1, <3>2
  <2> QED BY <2>1, <2>2 DEF Numbered
<1>7. /\ out'[Len(out) + 1].type = "response" /\ out'[Len(out) + 1].arg = Answered + 1
      /\ Len(out) + 1 \in 1..Len(out')
  <2>1. 1 \in 1..Len(ms) /\ Len(out) + 1 \in 1..Len(out')
    BY <1>4
  <2> QED BY <1>2, <1>4, <2>1
<1>8. \A i \in 1..Len(out') : out'[i].type = "response" =>
                                i \in 1..Len(out) \/ i = Len(out) + 1
  <2>1. TAKE i \in 1..Len(out')
  <2>2. ASSUME NEW j \in 1..Len(ms), i = Len(out) + j, out'[i].type = "response"
        PROVE  j = 1
    <3>1. ms[j].type = "response"
      BY <1>4, <2>2
    <3> QED BY <1>4, <2>2, <3>1
  <2> QED BY <1>5, <2>2
<1>9. AnsweredInOrder'
  <2>1. ASSUME NEW n \in 1..Answered'
        PROVE  \E i \in 1..Len(out') : out'[i].type = "response" /\ out'[i].arg = n
    <3>1. CASE n = Answered + 1
      BY <1>7, <3>1
    <3>2. CASE n \in 1..Answered
      <4>1. PICK i \in 1..Len(out) : out[i].type = "response" /\ out[i].arg = n
        BY <3>2 DEF ChannelInv, AnsweredInOrder, IsResponse
      <4>2. i \in 1..Len(out') /\ out'[i] = out[i]
        BY <1>4
      <4> QED BY <4>1, <4>2
    <3> QED BY <1>2, <3>1, <3>2
  <2>2. ASSUME NEW i \in 1..Len(out'), out'[i].type = "response"
        PROVE  out'[i].arg <= Answered'
    <3>1. CASE i = Len(out) + 1
      BY <1>2, <1>7, <3>1
    <3>2. CASE i \in 1..Len(out)
      <4>1. out'[i] = out[i] /\ out[i].arg <= Answered /\ out[i] \in Messages
        BY <1>4, <2>2, <3>2, ElementOfSeq
        DEF ChannelInv, AnsweredInOrder, IsResponse, TypeOK
      <4> QED BY <1>2, <4>1 DEF Messages
    <3> QED BY <1>8, <2>2, <3>1, <3>2
  <2>3. ASSUME NEW i \in 1..Len(out'), NEW j \in 1..Len(out'), i < j,
               out'[i].type = "response", out'[j].type = "response"
        PROVE  out'[i].arg < out'[j].arg
    <3>1. i \in 1..Len(out)
      BY <1>4, <1>8, <2>3
    <3>2. out'[i] = out[i] /\ out[i] \in Messages /\ out[i].arg <= Answered
      BY <1>4, <2>3, <3>1, ElementOfSeq
      DEF ChannelInv, AnsweredInOrder, IsResponse, TypeOK
    <3>3. CASE j = Len(out) + 1
      BY <1>2, <1>7, <3>2, <3>3 DEF Messages
    <3>4. CASE j \in 1..Len(out)
      BY <1>4, <2>3, <3>1, <3>2, <3>4 DEF ChannelInv, AnsweredInOrder, IsResponse
    <3> QED BY <1>8, <2>3, <3>3, <3>4
  <2> QED BY <2>1, <2>2, <2>3 DEF AnsweredInOrder, IsResponse
<1> QED BY <1>3, <1>6, <1>9 DEF ChannelInv

(* Events alone leave the requests and their answers as they were.           *)
LEMMA EventsKeep ==
    ASSUME TypeOK, ChannelInv, UNCHANGED client,
           NEW ms \in Seq(Bodies), Emit(ms),
           \A i \in 1..Len(ms) : ms[i].type = "event"
    PROVE  ChannelInv'
<1>1. Answered' = Answered /\ InboxNumbered'
  BY DEF ChannelInv, InboxNumbered, Answered, client
<1>2. /\ Len(out) \in Nat /\ Len(ms) \in Nat /\ seq' = seq + Len(ms)
      /\ Len(out') = Len(out) + Len(ms)
      /\ \A i \in 1..Len(out) : out'[i] = out[i]
      /\ \A i \in 1..Len(ms) : /\ out'[Len(out) + i].type = ms[i].type
                              /\ out'[Len(out) + i].seq = seq + i - 1
  BY EmitAppends, LenProperties DEF TypeOK
<1>3. \A i \in 1..Len(out') : i \in 1..Len(out) \/ \E j \in 1..Len(ms) : i = Len(out) + j
  <2>1. TAKE i \in 1..Len(out')
  <2>2. CASE i > Len(out)
    <3>1. i - Len(out) \in 1..Len(ms) /\ i = Len(out) + (i - Len(out))
      BY <1>2, <2>2
    <3> QED BY <3>1
  <2> QED BY <1>2, <2>2
<1>4. Numbered'
  <2>1. seq' = Len(out') + 1
    BY <1>2 DEF ChannelInv, Numbered, TypeOK
  <2>2. ASSUME NEW i \in 1..Len(out') PROVE out'[i].seq = i
    <3>1. CASE i \in 1..Len(out)
      BY <1>2, <3>1 DEF ChannelInv, Numbered
    <3>2. ASSUME NEW j \in 1..Len(ms), i = Len(out) + j PROVE out'[i].seq = i
      BY <1>2, <3>2 DEF ChannelInv, Numbered
    <3> QED BY <1>3, <3>1, <3>2
  <2> QED BY <2>1, <2>2 DEF Numbered
<1>5. \A i \in 1..Len(out') : out'[i].type = "response" =>
                                i \in 1..Len(out) /\ out'[i] = out[i]
  BY <1>2, <1>3
<1>6. \A i \in 1..Len(out) : i \in 1..Len(out')
  BY <1>2
<1>7. AnsweredInOrder'
  <2>1. ASSUME NEW n \in 1..Answered'
        PROVE  \E i \in 1..Len(out') : out'[i].type = "response" /\ out'[i].arg = n
    <3>1. PICK i \in 1..Len(out) : out[i].type = "response" /\ out[i].arg = n
      BY <1>1 DEF ChannelInv, AnsweredInOrder, IsResponse
    <3> QED BY <1>2, <1>6, <3>1
  <2>2. ASSUME NEW i \in 1..Len(out'), out'[i].type = "response"
        PROVE  out'[i].arg <= Answered'
    BY <1>1, <1>5, <2>2 DEF ChannelInv, AnsweredInOrder, IsResponse
  <2>3. ASSUME NEW i \in 1..Len(out'), NEW j \in 1..Len(out'), i < j,
               out'[i].type = "response", out'[j].type = "response"
        PROVE  out'[i].arg < out'[j].arg
    BY <1>5, <2>3 DEF ChannelInv, AnsweredInOrder, IsResponse
  <2> QED BY <2>1, <2>2, <2>3 DEF AnsweredInOrder, IsResponse
<1> QED BY <1>1, <1>4, <1>7 DEF ChannelInv

\* Every step keeps the numbering of the channel and the order of the
\* answers.
LEMMA ChannelStep == TypeOK /\ ChannelInv /\ [Next]_vars => ChannelInv'
<1> SUFFICES ASSUME TypeOK, ChannelInv, [Next]_vars PROVE ChannelInv'
  OBVIOUS
<1>q. ASSUME UNCHANGED client, UNCHANGED wire PROVE ChannelInv'
  BY <1>q DEF ChannelInv, InboxNumbered, AnsweredInOrder, Answered, IsResponse, Numbered, client, wire
<1>1. ASSUME NEW r \in Requests, Send(r) PROVE ChannelInv'
  <2> DEFINE q == [cmd |-> r.cmd, path |-> r.path, lines |-> r.lines, seq |-> sent + 1]
  <2>1. q \in Queued /\ q.seq = sent + 1
    BY DEF Requests, Commands, Plain, Queued, TypeOK
  <2> HIDE DEF q
  <2>2. inbox' = Append(inbox, q) /\ sent' = sent + 1 /\ UNCHANGED wire
    BY <1>1 DEF Send, q
  <2>3. /\ Len(inbox) \in Nat /\ sent \in Nat /\ Len(inbox') = Len(inbox) + 1
        /\ inbox'[Len(inbox) + 1] = q /\ \A i \in 1..Len(inbox) : inbox'[i] = inbox[i]
    BY <2>1, <2>2, AppendProperties, LenProperties DEF TypeOK
  <2>4. Answered' = Answered
    BY <2>2, <2>3 DEF Answered
  <2>5. InboxNumbered'
    <3>1. Len(inbox') <= sent'
      BY <2>2, <2>3 DEF ChannelInv, InboxNumbered
    <3>2. ASSUME NEW i \in 1..Len(inbox') PROVE inbox'[i].seq = Answered' + i
      <4>1. CASE i \in 1..Len(inbox)
        BY <2>3, <2>4, <4>1 DEF ChannelInv, InboxNumbered
      <4>2. CASE i = Len(inbox) + 1
        BY <2>1, <2>3, <2>4, <4>2 DEF Answered
      <4> QED BY <2>3, <4>1, <4>2
    <3> QED BY <3>1, <3>2 DEF InboxNumbered
  <2> QED BY <2>2, <2>4, <2>5 DEF ChannelInv, AnsweredInOrder, IsResponse, Numbered, wire
<1>2. CASE Close
  BY <1>2 DEF Close, ChannelInv, InboxNumbered, AnsweredInOrder, Answered, IsResponse, Numbered, wire
<1>3. ASSUME NEW c, Read(c), sent' = sent, Emit(<<Response(Head(inbox))>>)
      PROVE  ChannelInv'
  <2> DEFINE ms == <<Response(Head(inbox))>>
  <2>1. Reading /\ inbox' = Tail(inbox) /\ Head(inbox) \in Queued
    BY <1>3, HeadType DEF Read
  <2>2. /\ ms \in Seq(Bodies) /\ Len(ms) = 1
        /\ ms[1].type = "response" /\ ms[1].arg = Head(inbox).seq
    BY <2>1, BodyTypes DEF Response
  <2>3. Emit(ms)
    BY <1>3
  <2> HIDE DEF ms
  <2>4. Len(ms) >= 1 /\ \A i \in 2..Len(ms) : ms[i].type = "event"
    BY <2>2
  <2> QED BY <1>3, <2>1, <2>2, <2>3, <2>4, AnswerKeeps
<1>4. CASE Acknowledge
  BY <1>3, <1>4 DEF Acknowledge
<1>5. CASE Initialize
  <2> DEFINE ms == <<Response(Head(inbox)), Event("initialized", 0)>>
  <2>1. /\ Reading /\ inbox' = Tail(inbox) /\ sent' = sent /\ Emit(ms)
        /\ Head(inbox) \in Queued
    BY <1>5, HeadType DEF Initialize, Read
  <2>2. /\ ms \in Seq(Bodies) /\ Len(ms) = 2
        /\ ms[1].type = "response" /\ ms[1].arg = Head(inbox).seq /\ ms[2].type = "event"
    BY <2>1, BodyTypes DEF Response, Event
  <2> HIDE DEF ms
  <2>3. Len(ms) >= 1 /\ \A i \in 2..Len(ms) : ms[i].type = "event"
    BY <2>2
  <2> QED BY <2>1, <2>2, <2>3, AnswerKeeps
<1>6. CASE SetBreakpoints
  BY <1>3, <1>6 DEF SetBreakpoints
<1>7. CASE Launch
  BY <1>3, <1>7 DEF Launch
<1>8. ASSUME NEW c, NEW m, Resume(c, m) PROVE ChannelInv'
  BY <1>3, <1>8 DEF Resume
<1>9. CASE Disconnect
  BY <1>3, <1>9 DEF Disconnect
<1>10. CASE ReadEof
  BY <1>q, <1>10 DEF ReadEof
<1>e. ASSUME NEW n \in Nat, NEW m \in Nat, NEW e \in {"stopped", "terminated"},
             UNCHANGED client, Emit(Append(Drained(n), Event(e, m)))
      PROVE  ChannelInv'
  <2> DEFINE ms == Append(Drained(n), Event(e, m))
  <2>1. ms \in Seq(Bodies)
    BY <1>e, EventTypes
  <2>2. \A i \in 1..Len(ms) : ms[i].type = "event"
    BY DEF Drained, Event
  <2> HIDE DEF ms
  <2> QED BY <1>e, <2>1, <2>2, EventsKeep DEF ms
<1>11. ASSUME NEW l \in Lines, Marker(l) PROVE ChannelInv'
  <2>1. pipe \in Nat /\ l \in Nat
    BY LinesAssumption DEF TypeOK
  <2>2. CASE StopsAt(l)
    BY <1>11, <1>e, <2>1, <2>2 DEF Marker
  <2>3. CASE ~StopsAt(l)
    BY <1>11, <1>q, <2>3 DEF Marker
  <2> QED BY <2>2, <2>3
<1>12. CASE Println
  BY <1>q, <1>12 DEF Println
<1>13. CASE PrintPartial
  BY <1>q, <1>13 DEF PrintPartial
<1>14. CASE Finish
  <2>1. pipe + tail \in Nat /\ 0 \in Nat
    BY DEF TypeOK
  <2> QED BY <1>14, <1>e, <2>1 DEF Finish
<1>15. CASE UNCHANGED vars
  BY <1>q, <1>15 DEF vars, client, wire
<1> QED
  BY <1>1, <1>2, <1>4, <1>5, <1>6, <1>7, <1>8, <1>9, <1>10, <1>11, <1>12, <1>13,
     <1>14, <1>15 DEF Next, Serve, Script

\* Nothing is answered or numbered before the first request.
LEMMA ChannelInit == Init => ChannelInv
  BY DEF Init, ChannelInv, InboxNumbered, AnsweredInOrder, Answered, IsResponse, Numbered

(* Spec => []AnsweredInOrder: every request read in either loop has exactly  *)
(* one response, in the order the client wrote them.                         *)
THEOREM AnswersInOrder == Spec => []AnsweredInOrder
<1>1. ChannelInv => AnsweredInOrder
  BY DEF ChannelInv
<1> QED BY <1>1, ChannelInit, ChannelStep, TypeCorrect, PTL DEF Spec

(* Spec => []Numbered: the channel's sequence numbers have no gap and no     *)
(* repetition.                                                               *)
THEOREM ChannelNumbered == Spec => []Numbered
<1>1. ChannelInv => Numbered
  BY DEF ChannelInv
<1> QED BY <1>1, ChannelInit, ChannelStep, TypeCorrect, PTL DEF Spec

-----------------------------------------------------------------------------
\* Every step accounts for the chunks it prints, forwards or drains.
LEMMA OutputStep == TypeOK /\ OutputAccounted /\ [Next]_vars => OutputAccounted'
<1> SUFFICES ASSUME TypeOK, OutputAccounted, [Next]_vars PROVE OutputAccounted'
  OBVIOUS
<1> USE DEF OutputAccounted, TypeOK, output
<1>1. ASSUME NEW r \in Requests, Send(r) PROVE OutputAccounted'
  BY <1>1 DEF Send
<1>2. CASE Serve
  BY <1>2 DEF Serve, Acknowledge, Initialize, SetBreakpoints, Launch, Disconnect,
              Resume, ReadEof
<1>3. ASSUME NEW l \in Lines, Marker(l) PROVE OutputAccounted'
  BY <1>3 DEF Marker, Runs
<1>4. CASE Println
  BY <1>4 DEF Println, Runs
<1>5. CASE PrintPartial
  BY <1>5 DEF PrintPartial, Runs
<1>6. CASE Finish
  BY <1>6 DEF Finish
<1>7. CASE Close \/ UNCHANGED vars
  BY <1>7 DEF Close, vars
<1> QED BY <1>1, <1>2, <1>3, <1>4, <1>5, <1>6, <1>7 DEF Next, Script

(* Spec => []OutputAccounted: no printed chunk is lost or duplicated.        *)
THEOREM OutputNotLost == Spec => []OutputAccounted
<1>1. Init => OutputAccounted
  BY DEF Init, OutputAccounted
<1> QED BY <1>1, OutputStep, TypeCorrect, PTL DEF Spec

-----------------------------------------------------------------------------
(* set_breakpoints keeps one set of lines and one of markers: together they  *)
(* are what the client was last told of the file it last named.              *)
LastTold ==
    IF program = NoPath THEN breakpoints = {} /\ told = [p \in Paths |-> {}]
    ELSE told[program] = breakpoints \cap verified

\* While a script runs it is one of the files, and a file has been named.
RunNamed ==
    phase \in {"running", "stopped"} => active /\ launched \in Paths /\ program # NoPath

DebugInv == LastTold /\ RunNamed

\* Every step keeps what the client was told, and the script stops where the
\* last answer says.
LEMMA DebugStep ==
    ASSUME TypeOK, DebugInv, [Next]_vars
    PROVE  DebugInv' /\ [StopsAsLastTold]_vars
<1> USE DEF DebugInv, LastTold, RunNamed, debug, output, MarkerStep, StopsAsLastTold
<1>1. ASSUME NEW r \in Requests, Send(r) PROVE DebugInv' /\ [StopsAsLastTold]_vars
  BY <1>1 DEF Send
<1>2. CASE SetBreakpoints
  <2>1. Head(inbox).path \in Paths
    BY <1>2, HeadType DEF SetBreakpoints, Read, Queued
  <2>2. program' \in Paths /\ told'[program'] = breakpoints' \cap verified'
    BY <1>2, <2>1 DEF SetBreakpoints, TypeOK
  <2>3. program' # NoPath
    BY <2>2, NoPathAssumption
  <2> QED BY <1>2, <2>2, <2>3 DEF SetBreakpoints
<1>3. CASE Launch
  <2> DEFINE r == Head(inbox)
  <2>1. r.path \in Paths \cup {NoPath}
    BY <1>3, HeadType DEF Launch, Read, Queued
  <2>2. CASE r.path = NoPath
    BY <1>3, <2>2 DEF Launch
  <2>3. CASE r.path # NoPath
    <3>1. /\ program' = IF program = NoPath THEN r.path ELSE program
          /\ launched' = r.path /\ active' = TRUE /\ phase' = "running" /\ phase = "idle"
          /\ breakpoints' = breakpoints /\ verified' = verified /\ told' = told /\ steps' = steps
      BY <1>3, <2>3 DEF Launch
    <3>2. r.path \in Paths
      BY <2>1, <2>3
    <3>3. RunNamed'
      BY <2>3, <3>1, <3>2
    <3>4. CASE program = NoPath
      <4>1. told[r.path] = {} /\ breakpoints = {}
        BY <3>2, <3>4
      <4> QED BY <2>3, <3>1, <3>3, <3>4, <4>1
    <3>5. CASE program # NoPath
      BY <3>1, <3>3, <3>5
    <3> QED BY <3>4, <3>5
  <2> QED BY <2>2, <2>3
<1>4. CASE Acknowledge \/ Initialize \/ Disconnect \/ ReadEof
  BY <1>4 DEF Acknowledge, Initialize, Disconnect, ReadEof
<1>5. ASSUME NEW c, NEW m, Resume(c, m) PROVE DebugInv' /\ [StopsAsLastTold]_vars
  BY <1>5 DEF Resume
<1>6. ASSUME NEW l \in Lines, Marker(l) PROVE DebugInv' /\ [StopsAsLastTold]_vars
  BY <1>6 DEF Marker, Runs, StopsAt
<1>7. CASE Println \/ PrintPartial
  BY <1>7 DEF Println, PrintPartial, TypeOK
<1>8. CASE Finish
  BY <1>8 DEF Finish
<1>9. CASE Close \/ UNCHANGED vars
  BY <1>9 DEF Close, vars
<1> QED BY <1>1, <1>2, <1>3, <1>4, <1>5, <1>6, <1>7, <1>8, <1>9
        DEF Next, Serve, Script

\* Nothing has been named and nothing told before the first request.
LEMMA DebugInit == Init => DebugInv
  BY DEF Init, DebugInv, LastTold, RunNamed

(* Spec => LastToldHonoured, for a client with any number of files: the      *)
(* script stops at a marker iff the last answer about breakpoints named the  *)
(* line, or the client asked for a step.                                     *)
THEOREM StopsAsTold == Spec => LastToldHonoured
<1>1. TypeOK /\ DebugInv /\ [Next]_vars => DebugInv' /\ [StopsAsLastTold]_vars
  BY DebugStep
<1> QED BY <1>1, DebugInit, TypeCorrect, PTL DEF Spec, LastToldHonoured

(* The file last named is the one that runs when there is one file only.     *)
OneFile == \A p, q \in Paths : p = q

(* Spec => BreakpointsHonoured, for a client with one source file: the       *)
(* script stops at a marker iff the client was told the line is verified, or *)
(* it asked for a step.                                                      *)
THEOREM StopsWhereAsked == ASSUME OneFile PROVE Spec => BreakpointsHonoured
<1>1. TypeOK /\ DebugInv /\ [Next]_vars => DebugInv' /\ [StopsWhenAsked]_vars
  <2> SUFFICES ASSUME TypeOK, DebugInv, [Next]_vars PROVE DebugInv' /\ [StopsWhenAsked]_vars
    OBVIOUS
  <2>1. DebugInv' /\ [StopsAsLastTold]_vars
    BY DebugStep
  <2>2. ASSUME MarkerStep, ~UNCHANGED vars PROVE StopsWhenAsked
    <3>1. PICK l \in Lines : Marker(l)
      <4>1. Next /\ steps' # steps /\ printed' = printed
        BY <2>2 DEF MarkerStep
      <4>2. ~Serve
        BY <4>1 DEF Serve, Acknowledge, Initialize, SetBreakpoints, Launch, Disconnect, Resume, ReadEof
      <4>3. ~Close /\ ~(\E r \in Requests : Send(r))
        BY <4>1 DEF Send, Close
      <4>4. ~Println /\ ~PrintPartial /\ ~Finish
        BY <4>1 DEF Println, PrintPartial, Finish, TypeOK
      <4> QED BY <4>1, <4>2, <4>3, <4>4 DEF Next, Script
    <3>2. launched \in Paths /\ program \in Paths /\ program # NoPath
      BY <3>1 DEF Marker, Runs, DebugInv, RunNamed, TypeOK
    <3>3. program = launched
      BY <3>2, OneFile DEF OneFile
    <3> QED BY <2>1, <2>2, <3>2, <3>3 DEF StopsAsLastTold, StopsWhenAsked
  <2> QED BY <2>1, <2>2 DEF StopsWhenAsked
<1> QED BY <1>1, DebugInit, TypeCorrect, PTL DEF Spec, BreakpointsHonoured
=============================================================================
