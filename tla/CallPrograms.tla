---------------------------- MODULE CallPrograms ----------------------------
(***************************************************************************)
(* Groovy's choice, by what it is rather than how it is looked for: the    *)
(* closest declaration of the call's arity, else the closest that collects *)
(* the trailing arguments, else a null for the one parameter; a lone list  *)
(* that fits nothing is the argument list.                                 *)
(***************************************************************************)
EXTENDS Calls

CONSTANT WrittenCalls       \* <<declarations, arguments, spread>>

callVars == <<decls, args, spread>>

Total(types, vs) == SumSet({10 * i + ParamFit(types[i], vs[i]) : i \in DOMAIN vs})
Closest(among, types(_), vs) ==
    CHOOSE c \in among : \A e \in among : \/ Total(types(c), vs) < Total(types(e), vs)
                                          \/ Total(types(c), vs) = Total(types(e), vs) /\ c <= e
Chosen(vs) ==
    LET n == Len(vs)
        collected(c) == VariadicTypes(decls[c], n)
        exact == {c \in DOMAIN decls : Len(decls[c]) = n /\ Fits(decls[c], vs)}
        collecting == {c \in DOMAIN decls : TakesMore(decls[c], n) /\ Fits(collected(c), vs)}
        lone == {c \in DOMAIN decls : Len(decls[c]) = 1}
    IN  IF exact # {} THEN Runs(Closest(exact, LAMBDA c : decls[c], vs), vs)
        ELSE IF collecting # {} THEN LET c == Closest(collecting, collected, vs) IN Runs(c, Packed(c, vs))
        ELSE IF n = 0 /\ \E c \in lone : lone = {c} /\ ~IsPrimitive(decls[c][1]) THEN Runs(CHOOSE c \in lone : TRUE, <<Null>>)
        ELSE Raises
GroovyCall(vs) == IF Chosen(vs) = Raises /\ LoneList(vs) THEN Chosen(vs[1][2]) ELSE Chosen(vs)

CallInit == decls = <<>> /\ args = <<>> /\ spread = FALSE
WriteCall ==
    /\ decls = <<>>
    /\ \E w \in WrittenCalls : decls' = w[1] /\ args' = w[2] /\ spread' = w[3]

\* A method and a script function with the same declarations run the same one
\* for a call, the one Groovy's rule names, with a value for each parameter
\* and each value converted to its parameter's type: whatever the compiler
\* decided from the arguments it could see is what the arguments decide.
RunsTheDeclarationThatFits ==
    decls # <<>> =>
        LET right == GroovyCall(ValuesOf(args)) IN MethodCall(ValuesOf(args)) = right /\ FunctionCall(args) = right
=============================================================================
