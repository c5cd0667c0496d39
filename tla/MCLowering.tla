----------------------------- MODULE MCLowering -----------------------------
(***************************************************************************)
(* The programs TLC runs through Lowering.  Each is a try with one way out  *)
(* of its body, one way out of its catch arm and one finally, placed inside *)
(* a shell (a second try around it, in its arm or in its finally) and a     *)
(* host (the script, a function, a loop, a switch).                         *)
(***************************************************************************)
EXTENDS Lowering

CONSTANTS E1, E2

MCTypes == {E1, E2, AssertionError}

Quiet == <<Mark(8)>>
Loud  == <<Call(8, None, 0), Call(9, None, 0)>>
Nested == <<Try(<<Call(8, E1, 1)>>, <<Arm({E1}, <<Mark(9)>>)>>, <<>>)>>

\* Ways out of a block.
Stay   == { <<>> }
Raise  == { <<Throw(E1)>>, <<Call(3, E1, 2)>> }
Other  == { <<Call(3, None, 1)>>, <<Require(TRUE)>> }
Unclaimed == { <<Throw(E2)>>, <<Require(FALSE)>> }
Leave  == { <<Return(7)>>, <<Break(None)>>, <<Continue(None)>> }
Outs   == { <<Break(None)>>, <<Break("L")>>, <<Continue(None)>> }

Block(b, arms, f) == <<Mark(1), Try(b \o <<Mark(2)>>, arms, f), Mark(5)>>

\* Blocks with each body and finally, and with no arm or each arm for E1.
Blocks(bs, as, fs) ==
    LET arms == { <<>> } \cup { <<Arm({E1}, a)>> : a \in as }
    IN  { Block(b, a, f) : b \in bs, a \in arms, f \in fs }

\* Shells.
InBody(x)   == <<Try(x, <<Arm({E1}, <<Mark(11)>>)>>, <<Mark(12)>>)>>
InArm(x)    == <<Try(<<Throw(E1)>>, <<Arm({E1}, x)>>, <<Mark(12)>>)>>
InFinal(x)  == <<Try(<<Call(10, E2, 1)>>, <<Arm({E2}, <<Mark(11)>>)>>, x)>>
Shells(xs)  == xs \cup { InBody(x) : x \in xs } \cup { InArm(x) : x \in xs }

Ending == <<Call(20, None, 0), Mark(21)>>

\* Hosts.
Script(x)  == [main |-> x \o Ending, fn |-> <<>>]
InFun(x)   == [main |-> <<Invoke>> \o Ending, fn |-> x]
InLoop(x)  == [main |-> <<Loop("L", 2, x \o <<Mark(15)>>)>> \o Ending, fn |-> <<>>]
InSwitch(x) == [main |-> <<Loop("L", 2, <<Switch(x \o <<Mark(15)>>), Mark(16)>>)>> \o Ending,
                fn |-> <<>>]
InValue(x) == [main |-> <<SwitchVal(x \o <<Yield(6)>>)>> \o Ending, fn |-> <<>>]
Plain(x)   == [main |-> <<Call(1, x, 0), Mark(2)>>, fn |-> <<>>]

\* A loop whose turns have no effect.
Skipping   == [main |-> <<Loop("L", 2, <<Continue(None)>>)>> \o Ending, fn |-> <<>>]

\* Where the language and the compiler agree: no finally completes abruptly;
\* and where a catch arm can raise, the finally bodies only have effects that
\* are not checked.
Calm(out) == Blocks(Stay \cup Raise \cup out, Stay \cup (out \ Unclaimed), { <<>>, Loud })
Rough(out) == Blocks(Raise \cup out, Raise \cup { <<Throw(E2)>> }, { <<>>, Quiet })

\* Two arms, the second with two types; exceptions that no arm claims.
Armed ==
    LET arms == <<Arm({E2}, <<Mark(4)>>), Arm({E1, AssertionError}, <<Mark(6)>>)>>
    IN  { Block(b, arms, f) : b \in Raise \cup Other \cup Unclaimed, f \in {Loud, Nested} }

Agreeing ==
    { Script(x) : x \in Shells(Calm(Other) \cup Rough({})) \cup Armed \cup Calm(Unclaimed) }
    \cup { Script(InFinal(x)) : x \in Blocks(Stay \cup Raise, Stay, { <<>>, Quiet }) }
    \cup { InFun(x) : x \in Shells(Calm({ <<Return(7)>> })) \cup Rough({ <<Return(7)>> }) }
    \cup { InLoop(x) : x \in Shells(Calm(Leave)) \cup Rough(Leave) }
    \cup { InSwitch(x) : x \in Calm(Outs) }
    \cup { InValue(x) : x \in Calm({ <<Yield(7)>> }) }
    \cup { Skipping }
    \cup { Plain(x) : x \in {None, E1} }

\* A catch arm that raises, with a finally of two host calls.
RaisingArm == { Script(x) : x \in Blocks({ <<Throw(E1)>> }, { <<Throw(E2)>> }, {Loud}) }
=============================================================================
