------------------------------ MODULE TypeConv -----------------------------
(***************************************************************************)
(* C types to Go types (cl/internal/convert/type.go, builtin.go).  The     *)
(* converter keeps a context, whether it is in the parameters of a         *)
(* function, in the fields of a record or in neither; function types and   *)
(* records set it, convert what they contain and put it back, also when    *)
(* that fails.  Each operator takes the context and returns it with the    *)
(* type.  Names are kept only as far as "has one".  A 64-bit platform.     *)
(***************************************************************************)
EXTENDS Integers, Sequences

CONSTANTS
  Inputs, \* declarations to convert: sequences of [type, method]
  Depth,  \* the C types that occur in them, each with how deep it is nested
  Env     \* named types that lookup finds: [sig, size, align]

Expr == DOMAIN Depth
Context == {"Normal", "Param", "Record"}

(* Expressions: Builtin(b), Ptr(x), Array(elt, len), Func(params, ret),    *)
(* Ref(name), Variadic, Record(union, fields); a field is [named, type],   *)
(* len is a number, or below zero when there is none or it is no integer.  *)
Builtin(b) == [k |-> "builtin", b |-> b]
Ptr(x) == [k |-> "ptr", x |-> x]
Array(elt, len) == [k |-> "array", elt |-> elt, len |-> len]
Func(params, ret) == [k |-> "func", params |-> params, ret |-> ret]
Ref(name) == [k |-> "ref", name |-> name]
Variadic == [k |-> "variadic"]
Record(union, fields) == [k |-> "record", union |-> union, fields |-> fields]
NoLen == -1
BadLen == -2

(* What C allows: "..." is the last parameter of a function and nothing    *)
(* else.                                                                   *)
Member == [named : BOOLEAN, type : Expr]
Value == {e \in Expr : e.k # "variadic"}
WellFormed(e) ==
  CASE e.k = "builtin"  -> e = Builtin(e.b)
    [] e.k = "ptr"      -> e = Ptr(e.x) /\ e.x \in Value
    [] e.k = "array"    -> e = Array(e.elt, e.len) /\ e.elt \in Value /\ e.len \in Int
    [] e.k = "func"     -> /\ e = Func(e.params, e.ret) /\ e.params \in Seq(Member) /\ e.ret \in Value
                           /\ \A i \in 1..Len(e.params) - 1 : e.params[i].type \in Value
    [] e.k = "ref"      -> e = Ref(e.name)
    [] e.k = "variadic" -> e = Variadic
    [] e.k = "record"   -> /\ e = Record(e.union, e.fields) /\ e.union \in BOOLEAN
                           /\ e.fields \in Seq([named : BOOLEAN, type : Value])
    [] OTHER            -> FALSE
Parts(e) ==
  CASE e.k = "ptr"    -> {e.x}
    [] e.k = "array"  -> {e.elt}
    [] e.k = "func"   -> {e.ret} \cup {e.params[i].type : i \in DOMAIN e.params}
    [] e.k = "record" -> {e.fields[i].type : i \in DOMAIN e.fields}
    [] OTHER          -> {}

(* A method has a receiver; a type that is a function type in Go has the   *)
(* size of a pointer.                                                      *)
Decl == {d \in [type : Value, method : BOOLEAN] :
           d.method => d.type.k = "func" /\ d.type.params # <<>>}
Layout == [size : Nat, align : {1, 2, 4, 8, 16}]
Word == [size |-> 8, align |-> 8]
LayoutOf(x) == [size |-> x.size, align |-> x.align]
ASSUME TypeConvAssumption ==
  /\ Depth \in [Expr -> Nat] /\ Builtin("void") \in Expr
  /\ \A e \in Expr : WellFormed(e) /\ \A d \in Parts(e) : Depth[d] < Depth[e]
  /\ Inputs \subseteq Seq(Decl)
  /\ \A n \in DOMAIN Env : /\ Env[n].sig \in BOOLEAN /\ LayoutOf(Env[n]) \in Layout
                           /\ Env[n].sig => LayoutOf(Env[n]) = Word

VARIABLES
  left,   \* declarations still to be converted
  ctx,    \* TypeConv.ctx
  expr,   \* the last type that was converted, without the receiver
  result  \* its Go type, or an error

vars == <<left, ctx, expr, result>>

-----------------------------------------------------------------------------
(* initBuiltinTypeMap; other kinds and flags are not found.                *)
BuiltinMap ==
  [void |-> "Void", bool |-> "bool", schar |-> "Char", uchar |-> "Char", wchar |-> "int16",
   char16 |-> "int16", char32 |-> "int32", short |-> "int16", ushort |-> "uint16",
   int |-> "Int", uint |-> "Uint", long |-> "Long", ulong |-> "Ulong",
   longlong |-> "LongLong", ulonglong |-> "UlongLong", float |-> "Float",
   double |-> "Double", longdouble |-> "Double", complex |-> "complex64",
   complexdouble |-> "complex128"]

(* Sizeof and alignment of go/types for the gc compiler: a struct ends on  *)
(* its alignment, and a last field without size takes a byte.              *)
GoBasic ==
  [Void |-> 0, bool |-> 1, Char |-> 1, int16 |-> 2, int32 |-> 4, uint16 |-> 2, Int |-> 4,
   Uint |-> 4, Long |-> 8, Ulong |-> 8, LongLong |-> 8, UlongLong |-> 8, Float |-> 4,
   Double |-> 8, complex64 |-> 8, complex128 |-> 16]
AtMost8(n) == IF n > 8 THEN 8 ELSE n
Pad(o, a) == o + ((a - (o % a)) % a)
MaxOf(a, b) == IF a > b THEN a ELSE b
(* Members one after the other, each on its alignment; wide is the size of *)
(* the largest.                                                            *)
PlaceNext(p, m) ==
  [size |-> Pad(p.size, m.align) + m.size, align |-> MaxOf(p.align, m.align),
   wide |-> MaxOf(p.wide, m.size), offs |-> Append(p.offs, Pad(p.size, m.align))]
Place(members) ==
  LET s[i \in 0..Len(members)] ==
        IF i = 0 THEN [size |-> 0, align |-> 1, wide |-> 0, offs |-> <<>>]
        ELSE PlaceNext(s[i - 1], members[i])
  IN  s[Len(members)]
BasicLayout(g) ==
  [size |-> GoBasic[g],
   align |-> IF g = "Void" THEN 1 ELSE IF g = "complex64" THEN 4 ELSE AtMost8(GoBasic[g])]
StructLayout(ms) ==
  LET p == Place(ms)
      last == p.size > 0 /\ ms[Len(ms)].size = 0
  IN  [size |-> Pad(IF last THEN p.size + 1 ELSE p.size, p.align), align |-> p.align]

(* Go types; each carries its layout.                                      *)
Basic(g) == [k |-> "basic", g |-> g, lay |-> BasicLayout(g)]
Pointer == [k |-> "pointer", lay |-> Word] \* c.Pointer
NewPointer(t) == [k |-> "ptr", x |-> t, lay |-> Word]
NewArray(t, n) ==
  [k |-> "array", elt |-> t, len |-> n, lay |-> [size |-> t.lay.size * n, align |-> t.lay.align]]
Signature(params, ret, variadic) ==
  [k |-> "sig", params |-> params, ret |-> ret, variadic |-> variadic, lay |-> Word]
Named(n) == [k |-> "named", name |-> n, lay |-> LayoutOf(Env[n])]
Slice == [k |-> "slice", lay |-> [size |-> 24, align |-> 8]]
Members(fields) == [i \in DOMAIN fields |-> fields[i].type.lay]
Struct(fields) == [k |-> "struct", fields |-> fields, lay |-> StructLayout(Members(fields))]
Err == [k |-> "error"]
Failed(t) == t.k = "error"
Sizeof(t) == t.lay.size

FindBuiltinType(b) == IF b \in DOMAIN BuiltinMap THEN Basic(BuiltinMap[b]) ELSE Err
IsVoidType(t) == t = Basic("Void")

-----------------------------------------------------------------------------
(* The handlers of ToType; f has the conversions of the parts of e, as     *)
(* functions of the context.                                               *)
Res(t, c) == [type |-> t, ctx |-> c]
Each(f, fields) == [i \in DOMAIN fields |-> f[fields[i].type]]

(* fieldListToVars, fieldToVar: the first field that fails ends it.  With  *)
(* hasNamedParam every variable gets a name.                               *)
FieldToVar(p, conv, named) ==
  LET r == conv[p.ctx]
  IN  IF p.failed THEN p
      ELSE [ctx |-> r.ctx, failed |-> Failed(r.type),
            vars |-> Append(p.vars, [named |-> named, type |-> r.type])]
FieldListToVars(conv, fields, hasNamed, c) ==
  LET s[i \in 0..Len(fields)] ==
        IF i = 0 THEN [ctx |-> c, failed |-> FALSE, vars |-> <<>>]
        ELSE FieldToVar(s[i - 1], conv[i], fields[i].named \/ hasNamed)
  IN  s[Len(fields)]

(* fieldListToParams.                                                      *)
HasNamedParam(params) ==
  \E i \in DOMAIN params : params[i].named \/ params[i].type.k = "variadic"
IsVariadic(params) == params # <<>> /\ params[Len(params)].type.k = "variadic"

(* ToSignature and retToResult; the receiver is the first parameter.       *)
(* Fault: the context is not put back.                                     *)
LeaveParam(f, e, recv, c) ==
  LET params == IF recv THEN Tail(e.params) ELSE e.params
      ps == FieldListToVars(Each(f, params), params, HasNamedParam(params), "Param")
      r == f[e.ret][ps.ctx]
      void == IsVoidType(r.type)
  IN  IF ps.failed \/ Failed(r.type) THEN Res(Err, c)
      ELSE Res(Signature(ps.vars, IF void THEN <<>> ELSE <<r.type>>, IsVariadic(params)), "Param")
ToSignature(f, e, recv, c) ==
  LET params == IF recv THEN Tail(e.params) ELSE e.params
      ps == FieldListToVars(Each(f, params), params, HasNamedParam(params), "Param")
      r == f[e.ret][ps.ctx]
      void == IsVoidType(r.type)
  IN  IF ps.failed \/ Failed(r.type) THEN Res(Err, c)
      ELSE Res(Signature(ps.vars, IF void THEN <<>> ELSE <<r.type>>, IsVariadic(params)), c)

(* RecordTypeToStruct: of a union the field with the largest size is left, *)
(* of several the first.  Fault: the context is not put back.              *)
Largest(vs) ==
  {i \in DOMAIN vs : \A j \in DOMAIN vs :
     LET si == Sizeof(vs[i].type) sj == Sizeof(vs[j].type)
     IN  sj < si \/ (sj = si /\ i <= j)}
UnionOf(vs) == IF vs = <<>> THEN <<>> ELSE <<vs[CHOOSE i \in Largest(vs) : TRUE]>>
StayInRecord(f, e, c) ==
  LET fs == FieldListToVars(Each(f, e.fields), e.fields, FALSE, "Record")
  IN  IF fs.failed THEN Res(Err, "Record")
      ELSE Res(Struct(IF e.union THEN UnionOf(fs.vars) ELSE fs.vars), "Record")
RecordTypeToStruct(f, e, c) ==
  LET fs == FieldListToVars(Each(f, e.fields), e.fields, FALSE, "Record")
  IN  IF fs.failed THEN Res(Err, c)
      ELSE Res(Struct(IF e.union THEN UnionOf(fs.vars) ELSE fs.vars), c)

(* handleArrayType: a parameter is passed as a pointer.                    *)
HandleArrayType(f, e, c) ==
  LET r == f[e.elt][c]
  IN  IF Failed(r.type) THEN r
      ELSE IF r.ctx = "Param" THEN Res(NewPointer(r.type), r.ctx)
      ELSE IF e.len < 0 THEN Res(Err, r.ctx)
      ELSE Res(NewArray(r.type, e.len), r.ctx)

(* handlePointerType: void* is c.Pointer, a pointer to a function is the   *)
(* function type or, in a record, c.Pointer.                               *)
HandlePointerType(f, e, c) ==
  LET r == f[e.x][c]
      base == r.type
      t == IF Failed(base) THEN Err
           ELSE IF IsVoidType(base) THEN Pointer
           ELSE IF r.ctx = "Param" /\ base.k = "named" /\ Env[base.name].sig THEN base
           ELSE IF base.k = "sig" THEN (IF r.ctx = "Record" THEN Pointer ELSE base)
           ELSE NewPointer(base)
  IN  Res(t, r.ctx)

Handle(f, e) ==
  [c \in Context |->
     CASE e.k = "builtin"  -> Res(FindBuiltinType(e.b), c)
       [] e.k = "ptr"      -> HandlePointerType(f, e, c)
       [] e.k = "array"    -> HandleArrayType(f, e, c)
       [] e.k = "func"     -> ToSignature(f, e, FALSE, c)
       [] e.k = "ref"      -> Res(IF e.name \in DOMAIN Env THEN Named(e.name) ELSE Err, c)
       [] e.k = "variadic" -> Res(Slice, c)
       [] e.k = "record"   -> RecordTypeToStruct(f, e, c)]
ToType[e \in Expr] == Handle(ToType, e)

-----------------------------------------------------------------------------
Init ==
  /\ left \in Inputs /\ ctx = "Normal"
  /\ expr = Builtin("void") /\ result = Basic("Void")

(* The package converts each declaration with its one TypeConv; a method's *)
(* first parameter is its receiver.                                        *)
ConvertDecl(r) == left' = Tail(left) /\ result' = r.type /\ ctx' = r.ctx
ConvertType ==
  /\ left # <<>> /\ ~Head(left).method
  /\ ConvertDecl(ToType[Head(left).type][ctx])
  /\ expr' = Head(left).type
ConvertMethod ==
  /\ left # <<>> /\ Head(left).method
  /\ ConvertDecl(ToSignature(ToType, Head(left).type, TRUE, ctx))
  /\ expr' = [Head(left).type EXCEPT !.params = Tail(@)]
Terminated == left = <<>> /\ UNCHANGED vars

Next == ConvertType \/ ConvertMethod \/ Terminated

Spec == Init /\ [][Next]_vars
=============================================================================
