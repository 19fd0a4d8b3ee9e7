--------------------------- MODULE TypeConvSafety --------------------------
(***************************************************************************)
(* What must hold of TypeConv, against the sizes the C compiler uses: the  *)
(* bindings are linked with code it compiled.                              *)
(***************************************************************************)
EXTENDS TypeConv

(* Sizes of C types on a 64-bit Unix.                                      *)
CBasic ==
  [void |-> 0, bool |-> 1, schar |-> 1, uchar |-> 1, wchar |-> 4, char16 |-> 2, char32 |-> 4,
   short |-> 2, ushort |-> 2, int |-> 4, uint |-> 4, long |-> 8, ulong |-> 8,
   longlong |-> 8, ulonglong |-> 8, float |-> 4, double |-> 8, longdouble |-> 16,
   complex |-> 8, complexdouble |-> 16]
LayoutFrom(f, e) ==
  CASE e.k = "builtin" ->
         [size |-> CBasic[e.b],
          align |-> CASE e.b = "void" -> 1 [] e.b = "complex" -> 4
                      [] e.b = "complexdouble" -> 8 [] OTHER -> CBasic[e.b]]
    [] e.k \in {"ptr", "func"} -> Word
    [] e.k = "ref" -> LayoutOf(Env[e.name])
    [] e.k = "array" -> [size |-> f[e.elt].size * e.len, align |-> f[e.elt].align]
    [] e.k = "record" ->
         LET p == Place(Each(f, e.fields))
         IN  [size |-> Pad(IF e.union THEN p.wide ELSE p.size, p.align), align |-> p.align]
CLayout[e \in Expr] == LayoutFrom(CLayout, e)
CMembers(e) == Each(CLayout, e.fields)

(* What Go has a type of the same layout for: not wchar_t and long double, *)
(* not a union whose largest member does not decide its alignment, not an  *)
(* array without elements, not a struct whose last member has no size (gc  *)
(* leaves a byte behind it).                                               *)
FitsUnion(e) ==
  \A i \in DOMAIN e.fields :
    \/ CMembers(e)[i] = CLayout[e]
    \/ \E j \in DOMAIN e.fields : /\ CMembers(e)[j] = CLayout[e]
                                  /\ CMembers(e)[i].size < CLayout[e].size
FitsStruct(e) == Place(CMembers(e)).size > 0 => CMembers(e)[Len(e.fields)].size > 0
Fits(f, e) ==
  CASE e.k = "builtin" -> e.b \notin {"wchar", "longdouble"}
    [] e.k = "array" -> e.len > 0 /\ f[e.elt]
    [] e.k = "record" -> /\ \A i \in DOMAIN e.fields : f[e.fields[i].type]
                         /\ IF e.union THEN FitsUnion(e) ELSE FitsStruct(e)
    [] OTHER -> TRUE
Expressible[e \in Expr] == Fits(Expressible, e)

(* A Go value has the size, the alignment and, in a struct, the field      *)
(* offsets of the C object, whatever function pointers with array          *)
(* parameters, records or failures came before it: the context of one      *)
(* declaration or field never reaches the next.                            *)
LayoutKept ==
  ~Failed(result) /\ expr.k # "func" /\ Expressible[expr] =>
    /\ result.lay = CLayout[expr]
    /\ expr.k = "record" /\ ~expr.union =>
         Place(Members(result.fields)).offs = Place(CMembers(expr)).offs

(* The signature s takes what a C function of type e is passed: arrays and *)
(* functions as pointers, records as themselves; its variadic parameter is *)
(* the last; either all of its parameters have names or none, which Go     *)
(* requires.  Inner has the same for function pointers among them.         *)
PassedSize(e) == IF e.k = "array" THEN 8 ELSE CLayout[e].size
Takes(inner, e, s) ==
  LET n == Len(e.params)
      More(i) == e.params[i].type.k = "variadic"
      PtrTo(i) == e.params[i].type.k = "ptr" /\ e.params[i].type.x.k = "func"
  IN  /\ s.k = "sig" /\ Len(s.params) = n
      /\ s.variadic = \E i \in 1..n : More(i)
      /\ \A i \in 1..n :
           LET t == s.params[i].type
           IN  IF More(i) THEN i = n /\ t = Slice
               ELSE /\ t.k # "array"
                    /\ Expressible[e.params[i].type] \/ e.params[i].type.k = "array"
                         => Sizeof(t) = PassedSize(e.params[i].type)
                    /\ PtrTo(i) => inner[e.params[i].type.x][t]
      /\ (s.ret = <<>>) = (e.ret = Builtin("void"))
      /\ \A i, j \in 1..n : s.params[i].named = s.params[j].named

(* The types conversions in a parameter list result in. *)
ParamTypes == {ToType[e]["Param"].type : e \in Expr}
TakesAll(f, e) == [s \in ParamTypes |-> e.k = "func" /\ Takes(f, e, s)]
Agrees[e \in Expr] == TakesAll(Agrees, e)

(* Every function that is bound takes its arguments as C passes them.      *)
ParamsPassed == expr.k = "func" /\ ~Failed(result) => Takes(Agrees, expr, result)
=============================================================================
