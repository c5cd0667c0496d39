--------------------------- MODULE ClosurePrograms ---------------------------
(***************************************************************************)
(* What the language says of the same programs: a declaration makes a      *)
(* variable each time it runs, seen until its block ends; a closure has    *)
(* the variables in sight where it was written; what is not in sight is a  *)
(* field of `this` or a variable of the script.                            *)
(***************************************************************************)
EXTENDS Closures

CONSTANT Units       \* the programs run

closureVars == <<unit>>

\* A machine is [env, store, script, fields, out, value]; env gives the names
\* in sight their places in the store.
Made(r, x, v) == [r EXCEPT !.env = With(@, x, Len(r.store) + 1), !.store = Append(@, v), !.value = v]
Sees(r, x) ==
    CASE x \in DOMAIN r.env -> r.store[r.env[x]]
      [] x \notin DOMAIN r.env /\ x \in unit.fields -> r.fields[x]
      [] OTHER -> IF x \in DOMAIN r.script THEN r.script[x] ELSE <<"missing">>
Assigned(r, x, v) ==
    CASE x \in DOMAIN r.env -> [r EXCEPT !.store[r.env[x]] = v, !.value = v]
      [] x \notin DOMAIN r.env /\ x \in unit.fields -> [r EXCEPT !.fields[x] = v, !.value = v]
      [] OTHER -> [r EXCEPT !.script = With(@, x, v), !.value = v]

RECURSIVE Says(_, _)
InBlock(r, body) == [FoldLeft(LAMBDA k, s : Says(s, k), Gives(r, Null), body) EXCEPT !.env = r.env]
Invoked(r, env, params, args, body) ==
    LET bind(k, i) == Made(k, params[i], Actual(args, i))
        inside == FoldLeft(bind, [r EXCEPT !.env = env], [i \in DOMAIN params |-> i])
    IN  [InBlock(inside, body) EXCEPT !.env = r.env]
Values(r, args) == FoldLeft(LAMBDA acc, a : LET k == Says(<<"do", a>>, acc[1]) IN <<k, Append(acc[2], k.value)>>, <<r, <<>>>>, args)
Denotes(e, r) ==
    LET a == Values(r, e[3])
        callee == Sees(r, e[2])
    IN  CASE e[1] = "int" -> Gives(r, e)
          [] e[1] = "var" -> Gives(r, Sees(r, e[2]))
          [] e[1] = "closure" -> Gives(r, <<"closure", e, r.env>>)
          [] e[1] = "call" -> IF e[2] \in Functions THEN Invoked(a[1], <<>>, unit.functions[e[2]].params, a[2], unit.functions[e[2]].body)
                              ELSE IF callee[1] # "closure" THEN Gives(a[1], <<"missing">>)
                              ELSE Invoked(a[1], callee[3], callee[2][2], a[2], callee[2][3])
Says(s, r) ==
    LET after == Denotes(s[Len(s)], r)
        v == after.value
    IN  CASE s[1] = "def" -> IF Len(s) = 2 THEN Made(r, s[2], Null) ELSE Made(after, s[2], v)
          [] s[1] = "field" -> [after EXCEPT !.script = With(@, s[2], v)]
          [] s[1] = "set" -> Assigned(after, s[2], v)
          [] s[1] = "inc" -> Assigned(r, s[2], Plus1(Sees(r, s[2])))
          [] s[1] = "print" -> Gives([after EXCEPT !.out = Append(@, IF v[1] = "closure" THEN <<"closure">> ELSE v)], Null)
          [] s[1] = "do" -> after
          [] s[1] = "if" -> LET c == Denotes(s[2], r) IN IF c.value \in {Null, <<"int", 0>>} THEN Gives(c, Null) ELSE InBlock(c, s[3])
          [] s[1] = "twice" -> Gives(InBlock(InBlock(r, s[2]), s[2]), Null)
SaidOutput ==
    InBlock([env |-> <<>>, store |-> <<>>, script |-> <<>>, fields |-> [x \in unit.fields |-> <<"int", 0>>], out |-> <<>>, value |-> Null],
            unit.main).out

NoUnit == [fields |-> {}, functions |-> <<>>, main |-> <<>>]
UnitInit == unit = NoUnit
WriteUnit == unit = NoUnit /\ unit' \in Units

\* A program prints what its text says: closures share the variables they
\* use with the code around them and with each other, a declaration that runs
\* again makes another variable, a call has its own parameters, and a name is
\* the one in sight.
RunsAsWritten == Accepted => Output = SaidOutput
=============================================================================
