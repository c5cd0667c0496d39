------------------------------ MODULE Lowering ------------------------------
(***************************************************************************)
(* How compiler.rs lowers the statements that leave a block early -- throw, *)
(* return, break, continue, yield -- through try/catch/finally, and how the *)
(* virtual machine runs what it emits.                                      *)
(*                                                                          *)
(* Part 1 is the program: statements as trees.  Part 2 is the compiler: a   *)
(* record of its stacks (tries, finallys, loops, yields) and the ops emitted*)
(* so far, threaded through one operator per method of compiler.rs.  Part 3 *)
(* is the machine, one op per step.  Part 4 is what a program means: the    *)
(* completion rules of the language, by recursion on the tree.              *)
(*                                                                          *)
(* Jumps name labels instead of patched positions.  Data are the few values *)
(* the paths tell apart: numbers, Undef, Booleans and exception types.      *)
(***************************************************************************)
EXTENDS Integers, Sequences, FiniteSets, SequencesExt

CONSTANTS
    Programs,         \* a set of [main, fn]: a script and the function it calls
    Types,            \* exception types; an exception is its type here
    AssertionError,   \* the one a failed assert raises
    Undef,            \* Value::Undef
    None              \* no exception, no label

-----------------------------------------------------------------------------
(* Part 1: statements. *)

Mark(m)       == [k |-> "mark", m |-> m]      \* an effect that cannot raise
Call(m, x, d) == [k |-> "call", m |-> m, x |-> x, under |-> d]
                 \* a host call: effect m, raises x unless None, d operands under it
Throw(x)      == [k |-> "throw", x |-> x]
Require(ok)   == [k |-> "assert", ok |-> ok]
Return(v)     == [k |-> "return", v |-> v]
Break(l)      == [k |-> "break", l |-> l]
Continue(l)   == [k |-> "continue", l |-> l]
Yield(v)      == [k |-> "yield", v |-> v]
Loop(l, n, b) == [k |-> "loop", l |-> l, n |-> n, b |-> b]   \* n turns, label l
Switch(b)     == [k |-> "switch", b |-> b]                   \* a colon switch
SwitchVal(b)  == [k |-> "switchval", b |-> b]                \* in value position
Invoke        == [k |-> "invoke"]             \* call fn and record its value
Arm(ts, b)    == [types |-> ts, b |-> b]
Try(b, as, f) == [k |-> "try", b |-> b, arms |-> as, f |-> f]

\* body_uses_exceptions: whether the script needs the checks at all.
RECURSIVE Uses(_)
Uses(ss) ==
    \E i \in 1..Len(ss) :
        LET s == ss[i] IN
        \/ s.k \in {"throw", "assert", "try"}
        \/ s.k \in {"loop", "switch", "switchval"} /\ Uses(s.b)
HasExceptions(p) == Uses(p.main) \/ Uses(p.fn)

-----------------------------------------------------------------------------
(* Part 2: the compiler. *)

Truth(b) == IF b THEN 1 ELSE 0     \* Booleans on the value stack

NoCode(armed) ==
    [ops |-> <<>>, tries |-> <<>>, finallys |-> <<>>, loops |-> <<>>,
     yields |-> <<>>, fn |-> FALSE, inline |-> 0, next |-> 1, armed |-> armed]

Emit(c, op)  == [c EXCEPT !.ops = Append(@, [op EXCEPT !.inl = c.inline > 0])]
EmitAll(c, ops) == FoldLeft(Emit, c, ops)
Fresh(c, n)  == [c EXCEPT !.next = @ + n]

Op(o, a, b)  == [o |-> o, a |-> a, b |-> b, inl |-> FALSE]
Jump(l)      == Op("jump", l, None)
JumpIfFalse(l) == Op("jumpIfFalse", l, None)
JumpIfTrue(l)  == Op("jumpIfTrue", l, None)
Label(l)     == Op("label", l, None)
Push(v)      == Op("push", v, None)
Pop          == Op("pop", None, None)
SetTemp(t)   == Op("setTemp", t, None)
GetTemp(t)   == Op("getTemp", t, None)
Host(o, a, b) == Op(o, a, b)      \* CallBuiltin
ReturnValue  == Op("returnValue", None, None)

EndLabel == 0       \* the script's end, where exit_ops are patched to
FnLabel  == -1      \* the entry of the function's region

RECURSIVE Stmt(_, _)
Stmts(c, ss) == FoldLeft(Stmt, c, ss)

\* emit_finallys: the kept bodies, innermost first, with the finally stack
\* emptied -- and every other stack as it stands at the exit.
EmitFinallys(c, kept) ==
    LET body(d, f) == Stmts(d, f.body)
        d == FoldLeft(body, [c EXCEPT !.finallys = <<>>, !.inline = @ + 1],
                      Reverse(kept))
    IN  IF kept = <<>> THEN c
        ELSE [d EXCEPT !.finallys = c.finallys, !.inline = c.inline]

\* Mutant: the jump leaves the finally bodies out.
UnwindWithoutFinallys(c) ==
    IF c.tries # <<>> THEN Emit(c, Jump(Last(c.tries)))
    ELSE IF c.fn THEN EmitAll(c, <<Push(Undef), ReturnValue>>)
    ELSE Emit(c, Jump(EndLabel))

\* emit_unwind.
EmitUnwind(c) ==
    LET left(f) == f.try > Len(c.tries)
        d == EmitFinallys(c, SelectSeq(c.finallys, left))
    IN  IF d.tries # <<>> THEN Emit(d, Jump(Last(d.tries)))
        ELSE IF d.fn THEN EmitAll(d, <<Push(Undef), ReturnValue>>)
        ELSE Emit(d, Jump(EndLabel))

\* emit_exc_check.
EmitCheck(c) ==
    LET after == c.next
        d == EmitAll(Fresh(c, 1), <<Host("pending", None, None), JumpIfFalse(after)>>)
    IN  IF c.armed THEN Emit(EmitUnwind(d), Label(after)) ELSE c

\* emit_call_builtin in statement position, d operands of the enclosing
\* expression under the call.
CallStmt(c, s) ==
    LET ready == EmitAll(c, [i \in 1..s.under |-> Push(Undef)])
        called == EmitCheck(Emit(ready, Host("call", s.m, s.x)))
    IN  EmitAll(called, [i \in 1..s.under + 1 |-> Pop])

InvokeStmt(c, s) == Emit(EmitCheck(Emit(c, Op("enter", FnLabel, None))),
                         Op("record", None, None))

ThrowStmt(c, s) == EmitUnwind(EmitAll(c, <<Push(s.x), Host("throw", None, None), Pop>>))

AssertStmt(c, s) ==
    LET ok == c.next
        d == EmitAll(Fresh(c, 1), <<Push(Truth(s.ok)), JumpIfTrue(ok), Push(AssertionError),
                                    Host("throw", None, None), Pop>>)
    IN  Emit(EmitUnwind(d), Label(ok))

\* try_stmt.  Each caught type is tested in turn; the tests of one arm are the
\* one op "instanceof" here.
TryArm(c, arm, exc, normal) ==
    LET skip == c.next
        d == EmitAll(Fresh(c, 1), <<GetTemp(exc), Host("instanceof", arm.types, None),
                                    JumpIfFalse(skip)>>)
    IN  EmitAll(Stmts(d, arm.b), <<Jump(normal), Label(skip)>>)

TryStmt(c, s) ==
    LET handler == c.next  normal == c.next + 1
        depth == c.next + 2  exc == c.next + 3
        entered == EmitAll(Fresh(c, 4), <<Host("depth", None, None), SetTemp(depth)>>)
        tries == Append(c.tries, handler)
        finallys == IF s.f = <<>> THEN c.finallys
                    ELSE Append(c.finallys, [body |-> s.f, loop |-> Len(c.loops),
                                             try |-> Len(tries)])
        body == Stmts([entered EXCEPT !.tries = tries, !.finallys = finallys], s.b)
        caught == EmitAll([body EXCEPT !.tries = c.tries],
                          <<Jump(normal), Label(handler), GetTemp(depth),
                            Host("cut", None, None), Pop, Host("take", None, None),
                            SetTemp(exc)>>)
        oneArm(d, a) == TryArm(d, a, exc, normal)
        arms == FoldLeft(oneArm, caught, s.arms)
        unmatched == Stmts([arms EXCEPT !.finallys = c.finallys], s.f)
        rethrown == EmitUnwind(EmitAll(unmatched,
                                 <<GetTemp(exc), Host("throw", None, None), Pop>>))
    IN  Stmts(Emit(rethrown, Label(normal)), s.f)

\* for_stmt (while_stmt has no update), rotated: the test is the turns left.
LoopStmt(c, s) ==
    LET top == c.next  step == c.next + 1  end == c.next + 2  n == c.next + 3
        head == EmitAll(Fresh(c, 4), <<Push(s.n), SetTemp(n), Op("turns", n, None),
                                       JumpIfFalse(end), Label(top)>>)
        body == Stmts([head EXCEPT !.loops = Append(@,
                          [label |-> s.l, brk |-> end, cont |-> step, switch |-> FALSE])],
                      s.b)
    IN  EmitAll([body EXCEPT !.loops = c.loops],
                <<Label(step), Op("update", n, None), Op("turns", n, None),
                  JumpIfTrue(top), Label(end)>>)

\* switch_lower with one matching case: its frame is a break target only.
SwitchStmt(c, s) ==
    LET end == c.next
        body == Stmts([Fresh(c, 1) EXCEPT !.loops = Append(@,
                          [label |-> None, brk |-> end, cont |-> None, switch |-> TRUE])],
                      s.b)
    IN  Emit([body EXCEPT !.loops = c.loops], Label(end))

\* switch_expr: an arrow switch whose value is recorded by its statement.
SwitchValStmt(c, s) ==
    LET end == c.next  result == c.next + 1
        head == EmitAll(Fresh(c, 2), <<Push(Undef), SetTemp(result)>>)
        body == Stmts([head EXCEPT !.yields = Append(@,
                          [result |-> result, end |-> end, try |-> Len(c.tries)])], s.b)
    IN  EmitAll([body EXCEPT !.yields = c.yields],
                <<Jump(end), Label(end), GetTemp(result), Op("record", None, None)>>)

\* loop_target: the innermost usable frame, 0 when there is none.
LoopTarget(c, l, forContinue) ==
    LET usable == {i \in 1..Len(c.loops) :
                     /\ ~(forContinue /\ c.loops[i].switch)
                     /\ l = None \/ c.loops[i].label = l}
    IN  IF usable = {} THEN 0 ELSE Max(usable)

BreakStmt(c, s) ==
    LET i == LoopTarget(c, s.l, FALSE)
        left(f) == f.loop >= i
    IN  Emit(EmitFinallys(c, SelectSeq(c.finallys, left)),
             Jump(IF i = 0 THEN EndLabel ELSE c.loops[i].brk))

\* Mutant: continue goes to the top of the body (the label before cont), past
\* the update.
ContinueAtTop(c, s) ==
    LET i == LoopTarget(c, s.l, TRUE)
        left(f) == f.loop >= i
    IN  Emit(EmitFinallys(c, SelectSeq(c.finallys, left)), Jump(c.loops[i].cont - 1))

ContinueStmt(c, s) ==
    LET i == LoopTarget(c, s.l, TRUE)
        left(f) == f.loop >= i
    IN  Emit(EmitFinallys(c, SelectSeq(c.finallys, left)), Jump(c.loops[i].cont))

YieldStmt(c, s) ==
    LET y == Last(c.yields)
        left(f) == f.try > y.try
        d == EmitAll(c, <<Push(s.v), SetTemp(y.result)>>)
    IN  Emit(EmitFinallys(d, SelectSeq(c.finallys, left)), Jump(y.end))

\* return: the value first, then every finally of the frame.
ReturnStmt(c, s) ==
    LET d == EmitFinallys(Emit(c, Push(s.v)), c.finallys)
    IN  Emit(d, IF c.fn THEN ReturnValue ELSE Jump(EndLabel))

Stmt(c, s) ==
    CASE s.k = "mark"      -> Emit(c, Op("mark", s.m, None))
      [] s.k = "call"      -> CallStmt(c, s)
      [] s.k = "invoke"    -> InvokeStmt(c, s)
      [] s.k = "throw"     -> ThrowStmt(c, s)
      [] s.k = "assert"    -> AssertStmt(c, s)
      [] s.k = "try"       -> TryStmt(c, s)
      [] s.k = "loop"      -> LoopStmt(c, s)
      [] s.k = "switch"    -> SwitchStmt(c, s)
      [] s.k = "switchval" -> SwitchValStmt(c, s)
      [] s.k = "break"     -> BreakStmt(c, s)
      [] s.k = "continue"  -> ContinueStmt(c, s)
      [] s.k = "yield"     -> YieldStmt(c, s)
      [] s.k = "return"    -> ReturnStmt(c, s)

\* compile_with: the script, the function's region behind a jump, the epilogue.
\* A function starts with empty try and finally stacks.
Compile(p) ==
    LET new == NoCode(HasExceptions(p))
        ready == IF new.armed THEN EmitAll(new, <<Host("arm", None, None), Pop>>) ELSE new
        main == Emit(Stmts(ready, p.main), Jump(EndLabel))
        fn == Stmts([Emit(main, Label(FnLabel)) EXCEPT !.fn = TRUE], p.fn)
        done == EmitAll([fn EXCEPT !.fn = FALSE], <<Push(Undef), ReturnValue,
                                                    Label(EndLabel)>>)
    IN  Emit(done, Host("epilogue", None, None)).ops

-----------------------------------------------------------------------------
(* Part 3: the machine (fusevm's loop with host.rs's exception builtins).    *)

VARIABLES
    prog,     \* the program that runs
    code,     \* its compiled chunk
    armed,    \* GEXC_ARM ran: a raise is parked, not fatal
    pc,       \* the op about to run
    stack,    \* the value stack
    frames,   \* open calls: where each returns to and its stack base
    temps,    \* compiler temporaries
    pending,  \* PENDING: the exception in flight
    trace,    \* the effects so far
    status    \* "running", "ok", or the type an uncaught exception was reported with

vars == <<prog, code, armed, pc, stack, frames, temps, pending, trace, status>>

At(l) == CHOOSE i \in 1..Len(code) : code[i].o = "label" /\ code[i].a = l
op  == code[pc]
Top == Last(stack)

Init ==
    /\ prog \in Programs /\ code = Compile(prog) /\ armed = FALSE
    /\ pc = 1 /\ stack = <<>> /\ frames = <<>> /\ temps = <<>>
    /\ pending = None /\ trace = <<>> /\ status = "running"

Running(o) == status = "running" /\ op.o = o
Advance == pc' = pc + 1
Go(l) == pc' = At(l)
Pushed(v) == stack' = Append(stack, v)
Popped == stack' = Front(stack)

Effect ==
    /\ Running("mark") /\ Advance
    /\ trace' = Append(trace, op.a)
    /\ UNCHANGED <<prog, code, armed, stack, frames, temps, pending, status>>

\* A host call; raise_with parks what it raises, or faults when the script
\* never armed the exception machinery.
HostCall ==
    /\ Running("call") /\ Advance
    /\ trace' = Append(trace, op.a)
    /\ Pushed(Undef)
    /\ pending' = IF op.b # None /\ armed THEN op.b ELSE pending
    /\ status' = IF op.b # None /\ ~armed THEN op.b ELSE status
    /\ UNCHANGED <<prog, code, armed, frames, temps>>

\* b_exc_arm.
ArmHost ==
    /\ Running("arm") /\ Advance
    /\ armed' = TRUE /\ Pushed(Undef)
    /\ UNCHANGED <<prog, code, frames, temps, pending, trace, status>>

Enter ==
    /\ Running("enter") /\ Go(FnLabel)
    /\ frames' = Append(frames, [ret |-> pc + 1, base |-> Len(stack)])
    /\ UNCHANGED <<prog, code, armed, stack, temps, pending, trace, status>>

Return_ ==
    /\ Running("returnValue")
    /\ pc' = Last(frames).ret
    /\ stack' = Append(SubSeq(stack, 1, Last(frames).base), Top)
    /\ frames' = Front(frames)
    /\ UNCHANGED <<prog, code, armed, temps, pending, trace, status>>

Record ==
    /\ Running("record") /\ Advance
    /\ trace' = Append(trace, Top) /\ Popped
    /\ UNCHANGED <<prog, code, armed, frames, temps, pending, status>>

\* b_throw, b_exc_take, b_exc_cut.
Park ==
    /\ Running("throw") /\ Advance
    /\ pending' = Top /\ stack' = [stack EXCEPT ![Len(stack)] = Undef]
    /\ UNCHANGED <<prog, code, armed, frames, temps, trace, status>>

Take ==
    /\ Running("take") /\ Advance
    /\ Pushed(pending) /\ pending' = None
    /\ UNCHANGED <<prog, code, armed, frames, temps, trace, status>>

\* Mutant: the handler keeps the operands the raise abandoned.
CutNothing ==
    /\ Running("cut") /\ Advance
    /\ stack' = Append(Front(stack), Undef)
    /\ UNCHANGED <<prog, code, armed, frames, temps, pending, trace, status>>

Cut ==
    /\ Running("cut") /\ Advance
    /\ stack' = Append(IF Top < Len(stack) THEN SubSeq(stack, 1, Top) ELSE Front(stack),
                       Undef)
    /\ UNCHANGED <<prog, code, armed, frames, temps, pending, trace, status>>

\* The ops that only read what is known and push it.
PushOp ==
    /\ status = "running" /\ Advance
    /\ \/ op.o = "push" /\ Pushed(op.a)
       \/ op.o = "getTemp" /\ Pushed(temps[op.a])
       \/ op.o = "pending" /\ Pushed(Truth(pending # None))
       \/ op.o = "depth" /\ Pushed(Len(stack))
       \/ op.o = "turns" /\ Pushed(Truth(temps[op.a] > 0))
       \/ op.o = "instanceof" /\ stack' = Append(Front(stack), Truth(Top \in op.a))
    /\ UNCHANGED <<prog, code, armed, frames, temps, pending, trace, status>>

PopOp ==
    /\ status = "running" /\ Advance
    /\ \/ op.o = "pop" /\ temps' = temps /\ Popped
       \/ op.o = "setTemp" /\ temps' = (op.a :> Top) @@ temps /\ Popped
       \/ op.o = "update" /\ temps' = [temps EXCEPT ![op.a] = @ - 1] /\ stack' = stack
       \/ op.o = "label" /\ UNCHANGED <<temps, stack>>
    /\ UNCHANGED <<prog, code, armed, frames, pending, trace, status>>

Branch ==
    /\ status = "running"
    /\ \/ op.o = "jump" /\ Go(op.a) /\ stack' = stack
       \/ op.o = "jumpIfFalse" /\ Popped /\ IF Top = 1 THEN Advance ELSE Go(op.a)
       \/ op.o = "jumpIfTrue" /\ Popped /\ IF Top = 1 THEN Go(op.a) ELSE Advance
    /\ UNCHANGED <<prog, code, armed, frames, temps, pending, trace, status>>

\* The end of the script: GEXC_ABORT reports what no handler claimed.
Epilogue ==
    /\ Running("epilogue")
    /\ status' = IF pending = None THEN "ok" ELSE pending
    /\ pending' = None
    /\ UNCHANGED <<prog, code, armed, pc, stack, frames, temps, trace>>

Next == \/ Effect \/ HostCall \/ ArmHost \/ Enter \/ Return_ \/ Record \/ Park \/ Take \/ Cut
        \/ PushOp \/ PopOp \/ Branch \/ Epilogue

Spec == Init /\ [][Next]_vars /\ WF_vars(Next)

-----------------------------------------------------------------------------
(* Part 4: what a program means.  A statement completes in one way: "ok", or *)
(* abruptly with a reason and a value.                                       *)

Done(tr, how, v) == [tr |-> tr, how |-> how, v |-> v]
Ok(tr) == Done(tr, "ok", None)
Then(r, q) == Done(r.tr \o q.tr, q.how, q.v)

RECURSIVE Means(_, _)
MeansAll(ss, fn) ==
    LET then(r, s) == IF r.how = "ok" THEN Then(r, Means(s, fn)) ELSE r
    IN  FoldLeft(then, Ok(<<>>), ss)

RECURSIVE Turns(_, _, _)
Turns(n, s, fn) ==
    IF n = 0 THEN Ok(<<>>)
    ELSE LET r == MeansAll(s.b, fn)
             mine == r.v = None \/ r.v = s.l
         IN  CASE r.how = "break" /\ mine -> Ok(r.tr)
               [] r.how = "ok" \/ (r.how = "continue" /\ mine) ->
                    Then(Ok(r.tr), Turns(n - 1, s, fn))
               [] OTHER -> r

\* A finally that completes abruptly replaces the completion it interrupts.
MeansTry(s, fn) ==
    LET b == MeansAll(s.b, fn)
        hits == {i \in 1..Len(s.arms) : b.v \in s.arms[i].types}
        c == IF b.how = "throw" /\ hits # {}
             THEN Then(b, MeansAll(s.arms[Min(hits)].b, fn)) ELSE b
        f == MeansAll(s.f, fn)
    IN  IF f.how = "ok" THEN Done(c.tr \o f.tr, c.how, c.v) ELSE Then(c, f)

Means(s, fn) ==
    CASE s.k = "mark"   -> Ok(<<s.m>>)
      [] s.k = "call"   -> IF s.x = None THEN Ok(<<s.m>>) ELSE Done(<<s.m>>, "throw", s.x)
      [] s.k = "invoke" ->
           LET r == MeansAll(fn, <<>>)
           IN  CASE r.how = "throw" -> r
                 [] r.how = "return" -> Ok(Append(r.tr, r.v))
                 [] OTHER -> Ok(Append(r.tr, Undef))
      [] s.k = "throw"  -> Done(<<>>, "throw", s.x)
      [] s.k = "assert" -> IF s.ok THEN Ok(<<>>) ELSE Done(<<>>, "throw", AssertionError)
      [] s.k = "try"    -> MeansTry(s, fn)
      [] s.k = "loop"   -> Turns(s.n, s, fn)
      [] s.k = "switch" ->
           LET r == MeansAll(s.b, fn)
           IN  IF r.how = "break" /\ r.v = None THEN Ok(r.tr) ELSE r
      [] s.k = "switchval" ->
           LET r == MeansAll(s.b, fn)
           IN  CASE r.how = "yield" -> Ok(Append(r.tr, r.v))
                 [] r.how = "ok" -> Ok(Append(r.tr, Undef))
                 [] OTHER -> r
      [] s.k = "break"    -> Done(<<>>, "break", s.l)
      [] s.k = "continue" -> Done(<<>>, "continue", s.l)
      [] s.k = "yield"    -> Done(<<>>, "yield", s.v)
      [] s.k = "return"   -> Done(<<>>, "return", s.v)

Meaning(p) == MeansAll(p.main, p.fn)

-----------------------------------------------------------------------------
(* Properties. *)

\* try_stmt, emit_finallys, emit_unwind: the effects happen in the order the
\* language gives them, each finally exactly once on whatever path leaves its
\* block, and the script ends with the exception the language says, or none.
FollowsLanguage ==
    LET m == Meaning(prog) IN
    /\ IsPrefix(trace, m.tr)
    /\ status # "running" =>
          trace = m.tr /\ status = IF m.how = "throw" THEN m.v ELSE "ok"

\* GEXC_DEPTH / GEXC_CUT: a loop's test always finds the value stack as high as
\* the loop's first test did, however many operands its turns abandoned.
NoOperandsLeft ==
    status = "running" /\ op.o = "turns" =>
        Len(stack) = IF frames = <<>> THEN 0 ELSE Last(frames).base

\* Every lowered program that ends by the language ends on the machine.
Terminates == <>(status # "running")
=============================================================================
