------------------------------- MODULE Calls -------------------------------
(***************************************************************************)
(* Which declaration a call runs, and with which arguments: the selection  *)
(* of methods and constructors (src/src/host/params.rs), and that of the   *)
(* script's functions, which the compiler settles as far as it can see the *)
(* arguments and leaves the rest to GFN_CHECK, GCALL_TYPED and             *)
(* GCALL_SPREAD.                                                           *)
(*                                                                         *)
(* A value is <<kind>>, <<"list", items>> or <<"array", component, items>>;*)
(* an argument is <<value, literal>>, literal when the text shows its kind.*)
(* A declaration is the sequence of its parameters' types.                 *)
(***************************************************************************)
EXTENDS Integers, Sequences, SequencesExt, FiniteSets, FiniteSetsExt

VARIABLE decls, args, spread      \* the declarations of the name, and a call

IsInt(k) == k \in {"int", "long", "short", "byte"}
IsNumeric(k) == IsInt(k) \/ k \in {"double", "float", "big", "dec"}
IsPrimitive(ty) == ty \in {"int", "long", "short", "byte", "double", "float", "boolean", "char"}
Elem(ty) == CASE ty = "Object[]" -> "Object" [] ty = "int[]" -> "int" [] ty = "String[]" -> "String" [] OTHER -> ""
IsArrayType(ty) == Elem(ty) # ""

\* param_fit: the distance from a parameter; NoFit when the value does not fit.
NoFit == -1
Graded(exact, widens) == IF exact THEN 0 ELSE IF widens THEN 1 ELSE NoFit
ParamFit(ty, v) ==
    LET k == v[1]
    IN  CASE ty \in {"def", "Object"} -> IF k = "null" THEN 0 ELSE 2
          [] k = "null" /\ ty \notin {"def", "Object"} -> IF IsPrimitive(ty) THEN NoFit ELSE 1
          [] k # "null" /\ IsArrayType(ty) -> Graded(k = "array" /\ (v[2] = Elem(ty) \/ Elem(ty) = "Object"), FALSE)
          [] k # "null" /\ ty \in {"int", "Integer"} -> Graded(k = "int", k \in {"big", "short", "byte"})
          [] k # "null" /\ ty \in {"short", "Short"} -> Graded(k \in {"int", "short"}, k \in {"big", "byte"})
          [] k # "null" /\ ty \in {"byte", "Byte"} -> Graded(k \in {"int", "byte"}, k = "big")
          [] k # "null" /\ ty \in {"long", "Long"} -> Graded(k = "long", IsInt(k))
          [] k # "null" /\ ty \in {"double", "Double"} -> Graded(k = "double", IsNumeric(k))
          [] k # "null" /\ ty \in {"float", "Float"} -> Graded(k = "float", IsNumeric(k) /\ k # "double")
          [] k # "null" /\ ty = "BigDecimal" -> Graded(k = "dec", IsNumeric(k))
          [] k # "null" /\ ty = "BigInteger" -> Graded(k = "big", IsInt(k))
          [] k # "null" /\ ty = "Number" -> Graded(FALSE, IsNumeric(k))
          [] k # "null" /\ ty \in {"boolean", "char"} -> Graded(k = ty, FALSE)
          [] k # "null" /\ ty = "String" -> Graded(k = "string", FALSE)
          [] k # "null" /\ ty = "CharSequence" -> Graded(FALSE, k = "string")
          [] k # "null" /\ ty = "Closure" -> Graded(k = "closure", FALSE)
          [] k # "null" /\ ty \in {"List", "Collection"} -> Graded(FALSE, k = "list")
          [] OTHER -> 3
Fits(types, vs) == \A i \in 1 .. Len(types) : i <= Len(vs) => ParamFit(types[i], vs[i]) # NoFit
Distance(types, vs) == FoldLeft(LAMBDA sum, i : sum + ParamFit(types[i], vs[i]), 0, [i \in 1 .. Len(types) |-> i])

\* best_fit: one pass over the candidates (indexes), 0 when none fits.
NearerOrLater(d, best) == d <= best
Nearer(d, best) == d < best
BestFit(candidates, vs) ==
    LET weigh(best, c) ==
          IF ~Fits(decls[c], vs) \/ (best[1] # 0 /\ ~Nearer(Distance(decls[c], vs), best[2])) THEN best
          ELSE <<c, Distance(decls[c], vs)>>
    IN  FoldLeft(weigh, <<0, 0>>, candidates)[1]
OfArity(n) == SelectSeq([i \in DOMAIN decls |-> i], LAMBDA i : Len(decls[i]) = n)

\* as_type of the trailing arguments to the array a variadic parameter takes.
Converted(ty, v) == IF ty \in {"double", "float", "BigDecimal", "BigInteger"} /\ ParamFit(ty, v) = 1
                    THEN <<CASE ty = "BigDecimal" -> "dec" [] ty = "BigInteger" -> "big" [] OTHER -> ty>> ELSE v
Array(ty, vs) == <<"array", Elem(ty), vs>>
Packed(c, vs) ==
    LET fixed == Len(decls[c]) - 1
    IN  SubSeq(vs, 1, fixed) \o <<Array(Last(decls[c]), SubSeq(vs, fixed + 1, Len(vs)))>>
VariadicTypes(types, n) == [i \in 1 .. n |-> IF i < Len(types) THEN types[i] ELSE Elem(Last(types))]
TakesMore(types, n) == types # <<>> /\ IsArrayType(Last(types)) /\ n >= Len(types) - 1
BestVariadic(vs) ==
    LET weigh(best, c) ==
          LET types == VariadicTypes(decls[c], Len(vs))
          IN  IF ~TakesMore(decls[c], Len(vs)) \/ ~Fits(types, vs) \/ (best[1] # 0 /\ ~Nearer(Distance(types, vs), best[2])) THEN best
              ELSE <<c, Distance(types, vs)>>
    IN  FoldLeft(weigh, <<0, 0>>, [i \in DOMAIN decls |-> i])[1]

Received(types, vs) == [i \in DOMAIN vs |-> Converted(types[i], vs[i])]
Runs(c, vs) == <<"runs", c, Received(decls[c], vs)>>
Raises == <<"raises">>
Null == <<"null">>
Singles == SelectSeq(OfArity(1), LAMBDA c : ~IsArrayType(decls[c][1]) /\ \A e \in 1 .. c - 1 : decls[e] # decls[c])

\* select_call.
SelectCall(vs) ==
    CASE BestFit(OfArity(Len(vs)), vs) # 0 -> Runs(BestFit(OfArity(Len(vs)), vs), vs)
      [] BestFit(OfArity(Len(vs)), vs) = 0 /\ BestVariadic(vs) # 0 -> Runs(BestVariadic(vs), Packed(BestVariadic(vs), vs))
      [] OTHER -> IF vs = <<>> /\ Len(Singles) = 1 /\ ~IsPrimitive(decls[Singles[1]][1]) THEN Runs(Singles[1], <<Null>>) ELSE Raises

\* resolve_method_call: a lone list is tried as the argument list.
LoneList(vs) == Len(vs) = 1 /\ vs[1][1] = "list"
MethodCall(vs) ==
    IF SelectCall(vs) = Raises /\ LoneList(vs) THEN SelectCall(vs[1][2]) ELSE SelectCall(vs)

-----------------------------------------------------------------------------
\* A script function's call.  A call of a body with the wrong number of
\* values leaves its frame misaligned.
Invoke(c, vs) == IF Len(vs) = Len(decls[c]) THEN Runs(c, vs) ELSE <<"misaligned">>
Arities == {Len(decls[i]) : i \in DOMAIN decls}
Typed(n) == Len(OfArity(n)) > 1
ValuesOf(as) == [i \in DOMAIN as |-> as[i][1]]
\* FN_SIGS keeps one declaration of an arity: the last.
Signature(n) == IF OfArity(n) = <<>> THEN 0 ELSE Last(OfArity(n))
IntoSignature(items) == Signature(Len(items)) # 0 /\ Fits(decls[Signature(Len(items))], items)

\* GFN_CHECK.
FnCheck(vs) ==
    CASE Fits(decls[Signature(Len(vs))], vs) -> Invoke(Signature(Len(vs)), vs)
      [] ~Fits(decls[Signature(Len(vs))], vs) /\ LoneList(vs) ->
           IF IntoSignature(vs[1][2]) THEN Invoke(Signature(Len(vs[1][2])), vs[1][2]) ELSE Raises
      [] OTHER -> Raises

\* GCALL_TYPED.
RECURSIVE CallTyped(_)
CallTyped(vs) ==
    LET best == IF Typed(Len(vs)) THEN BestFit(OfArity(Len(vs)), vs) ELSE 0
    IN  CASE best # 0 -> Invoke(best, vs)
          [] best = 0 /\ LoneList(vs) ->
               IF Typed(Len(vs[1][2])) THEN CallTyped(vs[1][2])
               ELSE IF IntoSignature(vs[1][2]) THEN Invoke(Signature(Len(vs[1][2])), vs[1][2]) ELSE Raises
          [] OTHER -> Raises

\* GCALL_SPREAD: the count is known only now, and nothing else is weighed.
CallSpread(vs) ==
    CASE Typed(Len(vs)) -> CallTyped(vs)
      [] ~Typed(Len(vs)) /\ Cardinality(Arities) = 1 -> Invoke(1, vs)
      [] OTHER -> IF Len(vs) \in Arities THEN Invoke(OfArity(Len(vs))[1], vs) ELSE Raises

\* arg_statically_fits.
StaticallyFits(ty, a) ==
    LET k == IF a[2] THEN a[1][1] ELSE "unseen"
    IN  CASE ty \in {"def", "Object"} -> TRUE
          [] ty \in {"int", "Integer", "short", "Short", "byte", "Byte"} -> k = "int"
          [] ty \in {"long", "Long"} -> k \in {"int", "long"}
          [] ty \in {"double", "Double", "Number"} -> k \in {"int", "long", "double", "dec", "float"}
          [] ty = "BigDecimal" -> k \in {"int", "long", "double", "dec"}
          [] ty \in {"String", "CharSequence"} -> k = "string"
          [] ty = "boolean" -> k = "boolean"
          [] OTHER -> FALSE
NeedsCheck(as) ==
    Len(OfArity(Len(as))) = 1 /\ \E i \in DOMAIN as : ~StaticallyFits(decls[OfArity(Len(as))[1]][i], as[i])

\* varargs_args: the declaration whose array the call fills, 0 for none.
Variadic == SelectSeq([i \in DOMAIN decls |-> i], LAMBDA i : decls[i] # <<>> /\ IsArrayType(Last(decls[i])))
VarargsDecl(as) ==
    LET fillable == {c \in ToSet(Variadic) : Len(as) + 1 >= Len(decls[c])}
        longest == {c \in fillable : \A e \in fillable : Len(decls[e]) <= Len(decls[c])}
        c == Max(longest)
    IN  IF fillable = {} THEN 0
        ELSE IF /\ Len(as) # Len(decls[c])
                /\ \A e \in ToSet(Variadic) : Len(decls[e]) # Len(as)
                /\ Len(as) \in Arities THEN 0
        ELSE IF Len(as) = Len(decls[c]) /\ Last(as)[2] /\ Last(as)[1][1] \in {"null", "array"} THEN 0
        ELSE c
PackedArgs(as) ==
    LET vs == Packed(VarargsDecl(as), ValuesOf(as))
    IN  IF VarargsDecl(as) = 0 THEN as
        ELSE [i \in DOMAIN vs |-> IF i < Len(vs) THEN as[i] ELSE <<vs[i], TRUE>>]

\* fn_null_arg_ok.
NullArgOk == Len(OfArity(1)) = 1 /\ ~IsPrimitive(decls[OfArity(1)[1]][1])

\* call: the script declared the name.
FunctionCall(as) ==
    LET packed == PackedArgs(as)
        vs == ValuesOf(packed)
    IN  CASE spread -> CallSpread(ValuesOf(as))
          [] ~spread /\ Len(packed) \notin Arities -> IF as = <<>> /\ NullArgOk THEN Invoke(OfArity(1)[1], <<Null>>) ELSE CallTyped(vs)
          [] ~spread /\ Len(packed) \in Arities /\ Typed(Len(packed)) -> CallTyped(vs)
          [] OTHER -> IF NeedsCheck(packed) THEN FnCheck(vs) ELSE Invoke(OfArity(Len(packed))[1], vs)
=============================================================================
