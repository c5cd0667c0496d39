------------------------------ MODULE Closures ------------------------------
(***************************************************************************)
(* src/src/compiler.rs: where a name lives.  A function's names are slots  *)
(* of its frame, a script's are globals, a class's are fields of `this`; a *)
(* name that some closure of its scope captures is a cell, of which the    *)
(* slot or global holds the handle.  A body is lowered once, names resolved*)
(* as they are met; the code then runs on frames, globals and a heap of    *)
(* cells.                                                                  *)
(*                                                                         *)
(* Statements: <<"def", x, e>>, <<"def", x>>, <<"field", x, e>>,           *)
(* <<"set", x, e>>, <<"inc", x>>, <<"print", e>>, <<"if", e, body>>,       *)
(* <<"twice", body>> (a loop), <<"do", e>>.  Expressions: <<"int", n>>,    *)
(* <<"var", x>>, <<"closure", params, body>>, <<"call", f, args>>.         *)
(***************************************************************************)
EXTENDS Integers, Sequences, SequencesExt, FiniteSets

VARIABLE unit        \* [fields, functions, main]: a script has no fields

Defines(s) == s[1] \in {"def", "field"}
Blocks(s) == CASE s[1] = "if" -> <<s[3]>> [] s[1] = "twice" -> <<s[2]>> [] OTHER -> <<>>
Exprs(s) ==
    CASE Defines(s) -> IF Len(s) = 3 THEN <<s[3]>> ELSE <<>>
      [] s[1] = "set" -> <<s[3]>>
      [] s[1] \in {"print", "do", "if"} -> <<s[2]>>
      [] OTHER -> <<>>

-----------------------------------------------------------------------------
\* The walk over a body: the names it refers to, each <<name, free, captured>>.

\* collect_bound_stmts: declarations of a scope, its blocks' with them.
RECURSIVE Declaring(_)
Declaring(body) == UNION {(IF Defines(body[i]) THEN {body[i][2]} ELSE {})
                         \cup UNION {Declaring(b) : b \in ToSet(Blocks(body[i]))} : i \in DOMAIN body}

\* own: what the closures the walk is inside bind; {} outside one.
Reference(x, bound, depth, own) == <<x, x \notin bound, depth > 0 /\ x \notin own>>
RECURSIVE References(_, _, _, _)
References(node, bound, depth, own) ==      \* node: <<"body", statements>> or an expression
    LET refs(n) == References(n, bound, depth, own)
        named(s) == IF s[1] \in {"set", "inc"} THEN {Reference(s[2], bound, depth, own)} ELSE {}
        inner == ToSet(node[2]) \cup Declaring(node[3])
    IN  CASE node[1] = "body" -> UNION {named(s) \cup UNION {refs(e) : e \in ToSet(Exprs(s))}
                                               \cup UNION {refs(<<"body", b>>) : b \in ToSet(Blocks(s))} : s \in ToSet(node[2])}
          [] node[1] = "var" -> {Reference(node[2], bound, depth, own)}
          [] node[1] = "call" -> {Reference(node[2], bound, depth, own)} \cup UNION {refs(e) : e \in ToSet(node[3])}
          [] node[1] = "closure" -> References(<<"body", node[3]>>, bound \cup inner, depth + 1, own \cup inner)
          [] OTHER -> {}
Walked(params, body) == References(<<"body", body>>, ToSet(params) \cup Declaring(body), 0, {})
FreeVars(params, body) == {r[1] : r \in {w \in Walked(params, body) : w[2]}}

\* boxed_names: the scope's own names that a closure in it captures.
BoxedNames(params, body) == {r[1] : r \in {w \in Walked(params, body) : w[3]}} \cap (ToSet(params) \cup Declaring(body))

-----------------------------------------------------------------------------
\* Lowering.  A context is [slots, top, cells, vars]: the names with a slot
\* so far, whether the scope is the script's own, its cells, and the script's
\* variables.  A place is <<kind, name, boxed>>.
Functions == DOMAIN unit.functions
IsLocal(cx, x) == ~cx.top /\ x \in cx.slots
IsField(cx, x) == x \in unit.fields /\ ~IsLocal(cx, x)
NothingBinds(cx, x) == ~IsLocal(cx, x) /\ ~IsField(cx, x) /\ x \notin Functions /\ x \notin cx.vars
LoadFrom(cx, x) ==
    CASE IsField(cx, x) -> <<"field", x, FALSE>>
      [] ~IsField(cx, x) /\ NothingBinds(cx, x) -> <<"name", x, FALSE>>
      [] OTHER -> <<IF IsLocal(cx, x) THEN "slot" ELSE "global", x, x \in cx.cells>>
\* store_op_for: an assignment makes no slot.
StoreTo(cx, x) ==
    IF IsField(cx, x) THEN <<"field", x, FALSE>>
    ELSE <<IF IsLocal(cx, x) THEN "slot" ELSE "global", x, x \in cx.cells>>
DeclareSlot(cx, x) == IF cx.top THEN cx ELSE [cx EXCEPT !.slots = @ \cup {x}]
Captures(cx, params, body) ==
    LET free == FreeVars(params, body)
    IN  {x \in free : x \in cx.cells \/ IsLocal(cx, x)}
          \cup (IF unit.fields # {} /\ IsLocal(cx, "this") /\ free \cap (unit.fields \cup Functions) # {} THEN {"this"} ELSE {})

\* enter_cell_scope: the parameters to box, and the locals to give a cell.
EnterCellScope(cx, params, body, preBoxed) ==
    LET own == BoxedNames(params, body) \ preBoxed
    IN  [cx EXCEPT !.cells = own \cup preBoxed, !.slots = @ \cup own]
Prologue(params, body, preBoxed) ==
    [boxed |-> (BoxedNames(params, body) \ preBoxed) \cap ToSet(params),
     fresh |-> (BoxedNames(params, body) \ preBoxed) \ ToSet(params)]

RECURSIVE LowerStmt(_, _)
LowerBody(body, cx) ==      \* <<code, context>>
    FoldLeft(LAMBDA acc, s : LET r == LowerStmt(s, acc[2]) IN <<Append(acc[1], r[1]), r[2]>>, <<<<>>, cx>>, body)
LowerClosure(params, body, cx) ==
    LET caps == Captures(cx, params, body)
        boxed == caps \cap cx.cells
        inside == EnterCellScope([slots |-> ToSet(params) \cup caps, top |-> FALSE, cells |-> {}, vars |-> cx.vars], params, body, boxed)
    IN  <<"closure", [params |-> params, captures |-> [x \in caps |-> <<IF IsLocal(cx, x) THEN "slot" ELSE "global", x, FALSE>>],
                      prologue |-> Prologue(params, body, boxed), code |-> LowerBody(body, inside)[1]]>>
LowerExpr(e, cx) ==
    CASE e[1] = "int" -> e
      [] e[1] = "var" -> <<"load", LoadFrom(cx, e[2])>>
      [] e[1] = "closure" -> LowerClosure(e[2], e[3], cx)
      [] e[1] = "call" ->
           LET args == [i \in DOMAIN e[3] |-> LowerStmt(<<"do", e[3][i]>>, cx)[1][2]]
           IN  IF e[2] \in Functions THEN <<"function", e[2], args, unit.fields # {}>> ELSE <<"invoke", LoadFrom(cx, e[2]), args>>
LowerStmt(s, cx) ==
    LET in(e) == LowerExpr(e, cx)
        block == LowerBody(s[Len(s)], cx)
        declared == DeclareSlot(cx, s[2])
        where(x) == <<IF cx.top THEN "global" ELSE "slot", x, x \in cx.cells>>
    IN  CASE Defines(s) /\ Len(s) = 3 -> <<<<"decl", where(s[2]), in(s[3])>>, declared>>
          [] Defines(s) /\ Len(s) = 2 -> <<<<"bare", where(s[2])>>, declared>>
          [] s[1] = "set" -> <<<<"store", StoreTo(cx, s[2]), in(s[3])>>, cx>>
          [] s[1] = "inc" -> <<<<"add", LoadFrom(cx, s[2]), StoreTo(cx, s[2])>>, cx>>
          [] s[1] \in {"print", "do"} -> <<<<s[1], in(s[2])>>, cx>>
          [] s[1] = "if" -> <<<<"if", in(s[2]), block[1]>>, block[2]>>
          [] s[1] = "twice" -> <<<<"twice", block[1]>>, block[2]>>

\* function: its own names only; a method's frame starts with `this`.
LowerFunction(f, vars) ==
    LET d == unit.functions[f]
        cx == [slots |-> ToSet(d.params) \cup (IF unit.fields # {} THEN {"this"} ELSE {}), top |-> FALSE, cells |-> {}, vars |-> vars]
    IN  [params |-> d.params, prologue |-> Prologue(d.params, d.body, {}),
         code |-> LowerBody(d.body, EnterCellScope(cx, d.params, d.body, {}))[1]]
\* collect_script_vars: what the script's own statements declare or assign.
RECURSIVE ScriptVars(_)
ScriptVars(body) == UNION {(IF Defines(s) \/ s[1] = "set" THEN {s[2]} ELSE {}) \cup UNION {ScriptVars(b) : b \in ToSet(Blocks(s))}
                             : s \in ToSet(body)}
ScriptNames == IF unit.fields = {} THEN ScriptVars(unit.main) ELSE {}
CompiledMain ==
    LET cx == [slots |-> {}, top |-> TRUE, cells |-> BoxedNames(<<>>, unit.main), vars |-> ScriptNames]
        method == EnterCellScope([cx EXCEPT !.slots = {"this"}, !.top = FALSE], <<>>, unit.main, {})
    IN  [params |-> <<>>, prologue |-> Prologue(<<>>, unit.main, {}),
         code |-> LowerBody(unit.main, IF unit.fields = {} THEN cx ELSE method)[1]]

\* check_declarations: a name is declared once among the scopes in sight; a
\* statement's closures are checked with the scopes around the statement.
RECURSIVE ClosuresIn(_), Redeclares(_, _)
ClosuresIn(e) ==
    CASE e[1] = "closure" -> {e} \cup UNION {UNION {ClosuresIn(x) : x \in ToSet(Exprs(s))} : s \in ToSet(e[3])}
      [] e[1] = "call" -> UNION {ClosuresIn(x) : x \in ToSet(e[3])}
      [] OTHER -> {}
Redeclares(body, seen) ==
    \E i \in DOMAIN body :
      LET here == seen \cup {body[j][2] : j \in {k \in 1 .. i - 1 : Defines(body[k])}}
      IN  \/ \E c \in UNION {ClosuresIn(e) : e \in ToSet(Exprs(body[i]))} :
               ToSet(c[2]) \cap here # {} \/ Redeclares(c[3], here \cup ToSet(c[2]))
          \/ Defines(body[i]) /\ body[i][2] \in here
          \/ \E b \in ToSet(Blocks(body[i])) : Redeclares(b, here)
Accepted == /\ ~Redeclares(unit.main, {})
            /\ \A f \in Functions : ~Redeclares(unit.functions[f].body, ToSet(unit.functions[f].params))

-----------------------------------------------------------------------------
\* Running.  A value is <<"int", n>>, <<"null">>, <<"missing">>, <<"cell", id>>
\* or <<"closure", code, captured handles>>.  A machine is [slots, globals,
\* fields, heap, escaped, out, value].
Null == <<"null">>
At(map, x) == IF x \in DOMAIN map THEN map[x] ELSE Null
With(map, x, v) == [y \in DOMAIN map \cup {x} |-> IF y = x THEN v ELSE map[y]]
Raw(m, p) ==
    CASE p[1] = "slot" -> At(m.slots, p[2])
      [] p[1] = "global" -> At(m.globals, p[2])
      [] p[1] = "field" -> IF "this" \in DOMAIN m.slots THEN m.fields[p[2]] ELSE <<"missing">>
      [] p[1] = "name" -> IF p[2] \in DOMAIN m.globals THEN m.globals[p[2]] ELSE <<"missing">>
PutRaw(m, p, v) ==
    CASE p[1] = "slot" -> [m EXCEPT !.slots = With(@, p[2], v)]
      [] p[1] = "global" -> [m EXCEPT !.globals = With(@, p[2], v)]
      [] p[1] = "field" -> IF "this" \in DOMAIN m.slots THEN [m EXCEPT !.fields[p[2]] = v] ELSE m
IsCell(v) == v[1] = "cell"
CellGet(m, v) == IF IsCell(v) THEN m.heap[v[2]] ELSE v
Load(m, p) == IF p[3] THEN CellGet(m, Raw(m, p)) ELSE Raw(m, p)
Store(m, p, v) ==      \* GCELL_SET writes through a handle, and nothing else
    CASE ~p[3] -> PutRaw(m, p, v)
      [] p[3] /\ IsCell(Raw(m, p)) -> [m EXCEPT !.heap[Raw(m, p)[2]] = v]
      [] OTHER -> m
Gives(m, v) == [m EXCEPT !.value = v]
CellNew(m, p, v) ==
    PutRaw([m EXCEPT !.heap = Append(@, v)], p, <<"cell", Len(m.heap) + 1>>)

\* GCELL_RENEW: the cell in place is written over unless a closure has it.
CellReuse(m, p, v) == IF IsCell(Raw(m, p)) THEN Store(m, p, v) ELSE CellNew(m, p, v)
CellRenew(m, p, v) ==
    IF IsCell(Raw(m, p)) /\ Raw(m, p)[2] \notin m.escaped THEN Store(m, p, v) ELSE CellNew(m, p, v)
MarkCaptured(m, handles) == [m EXCEPT !.escaped = @ \cup {handles[x][2] : x \in {y \in DOMAIN handles : IsCell(handles[y])}}]
MakeClosure(m, c) ==
    LET handles == [x \in DOMAIN c.captures |-> Raw(m, c.captures[x])]
    IN  Gives(MarkCaptured(m, handles), <<"closure", c, handles>>)

\* The cells of a body's scope, before its first statement.
Entered(m, prologue, place) ==
    LET box(k, x) == CellNew(k, <<place, x, TRUE>>, IF x \in prologue.boxed THEN Raw(m, <<place, x, TRUE>>) ELSE Null)
    IN  FoldLeft(box, m, SetToSeq(prologue.boxed \cup prologue.fresh))
Actual(args, i) == IF i <= Len(args) THEN args[i] ELSE Null
Frame(params, args, captured) ==
    [x \in ToSet(params) \cup DOMAIN captured |->
       IF x \in ToSet(params) THEN Actual(args, CHOOSE i \in DOMAIN params : params[i] = x) ELSE captured[x]]

RECURSIVE Exec(_, _)
RunCode(m, code) == FoldLeft(LAMBDA k, s : Exec(s, k), Gives(m, Null), code)
Enter(m, body, args, captured) ==      \* a call: a frame of its own, and back
    LET inside == [m EXCEPT !.slots = Frame(body.params, args, captured)]
    IN  [RunCode(Entered(inside, body.prologue, "slot"), body.code) EXCEPT !.slots = m.slots]
Actuals(m, args) ==      \* <<machine, values>>
    FoldLeft(LAMBDA acc, a : LET k == Exec(<<"do", a>>, acc[1]) IN <<k, Append(acc[2], k.value)>>, <<m, <<>>>>, args)
Plus1(v) == IF v[1] = "int" THEN <<"int", v[2] + 1>> ELSE <<"missing">>
Invoke(callee, m, values) ==
    IF callee[1] = "closure" THEN Enter(m, callee[2], values, callee[3]) ELSE Gives(m, <<"missing">>)
CallFunction(f, method, m, values) ==      \* a method takes the `this` of the frame
    IF method /\ "this" \notin DOMAIN m.slots THEN Gives(m, <<"missing">>)
    ELSE Enter(m, LowerFunction(f, ScriptNames), values, [x \in IF method THEN {"this"} ELSE {} |-> Null])
Called(e, callee, a) == IF e[1] = "function" THEN CallFunction(e[2], e[4], a[1], a[2]) ELSE Invoke(callee, a[1], a[2])
Eval(e, m) ==
    CASE e[1] = "int" -> Gives(m, e)
      [] e[1] = "load" -> Gives(m, Load(m, e[2]))
      [] e[1] = "closure" -> MakeClosure(m, e[2])
      [] e[1] \in {"function", "invoke"} -> Called(e, IF e[1] = "invoke" THEN Load(m, e[2]) ELSE Null, Actuals(m, e[3]))
Declare(s, m) == Gives(IF s[2][3] THEN CellRenew(m, s[2], m.value) ELSE PutRaw(m, s[2], m.value), m.value)
Printed(v) == IF v[1] = "closure" THEN <<"closure">> ELSE v
With1(m, s, v) == Gives(Store(m, s[3], v), v)
Use(s, m) ==      \* what a statement does with the value it has
    CASE s[1] = "decl" -> Declare(s, m)
      [] s[1] = "store" -> Store(m, s[2], m.value)
      [] s[1] = "print" -> Gives([m EXCEPT !.out = Append(@, Printed(m.value))], Null)
      [] s[1] = "do" -> m
      [] s[1] = "if" -> IF m.value \in {Null, <<"int", 0>>} THEN Gives(m, Null) ELSE RunCode(m, s[3])
Exec(s, m) ==
    CASE s[1] = "bare" -> IF s[2][3] THEN Gives(CellNew(m, s[2], Null), Null) ELSE Gives(m, Load(m, s[2]))
      [] s[1] = "add" -> With1(m, s, Plus1(Load(m, s[2])))
      [] s[1] = "twice" -> Gives(RunCode(RunCode(m, s[2]), s[2]), Null)
      [] OTHER -> Use(s, Eval(IF s[1] = "if" THEN s[2] ELSE s[Len(s)], m))

RunMain(main) ==
    LET script == unit.fields = {}
        m == [slots |-> [x \in IF script THEN {} ELSE {"this"} |-> Null], globals |-> <<>>, fields |-> [x \in unit.fields |-> <<"int", 0>>],
              heap |-> <<>>, escaped |-> {}, out |-> <<>>, value |-> Null]
    IN  RunCode(Entered(m, main.prologue, IF script THEN "global" ELSE "slot"), main.code)
Output == RunMain(CompiledMain).out
=============================================================================
