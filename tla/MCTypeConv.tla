---------------------------- MODULE MCTypeConv -----------------------------
(***************************************************************************)
(* Instance of TypeConv: functions and records of two parameters or fields *)
(* out of scalars, arrays, pointers, named types, function pointers and    *)
(* records that contain the like.                                          *)
(***************************************************************************)
EXTENDS TypeConvSafety

F(t) == [named |-> TRUE, type |-> t]
U(t) == [named |-> FALSE, type |-> t]
CInt == Builtin("int")
Char == Builtin("schar")
Void == Builtin("void")

(* fn: a function type; fp: a function pointer; s: a struct of 12 bytes.   *)
MCEnv == [fn |-> [sig |-> TRUE, size |-> 8, align |-> 8], fp |-> [sig |-> TRUE, size |-> 8, align |-> 8],
          s |-> [sig |-> FALSE, size |-> 12, align |-> 4]]

Simple == {Builtin(b) : b \in {"int", "schar", "double", "longdouble", "int128"}}
Callback == Ptr(Func(<<U(Array(Char, 3))>>, Void))
Deep == Ptr(Func(<<F(Record(FALSE, <<F(Array(CInt, 3))>>)), F(Callback), F(Array(Char, NoLen))>>, Ptr(Void)))
Pieces == Simple \cup
  {Ptr(Void), Ptr(CInt), Ptr(Ref("fn")), Ptr(Ptr(Ref("s"))), Ref("s"), Ref("fp"), Ref("none"),
   Array(Char, 3), Array(Array(CInt, 3), 2), Array(CInt, NoLen), Array(CInt, BadLen), Callback, Deep,
   Array(Callback, 2), Ptr(Array(CInt, 3)), Record(FALSE, <<>>), Record(FALSE, <<F(Char), F(Array(CInt, 2))>>),
   Record(TRUE, <<F(Array(Char, 9)), F(Builtin("long"))>>),
   Record(TRUE, <<F(Array(Char, 8)), F(Builtin("long")), F(Callback)>>)}

Pairs == {<<F(a), F(b)>> : a \in Pieces, b \in Pieces}
Params == Pairs \cup {<<>>} \cup {<<U(a), v>> : a \in Pieces, v \in {F(CInt), U(CInt), U(Variadic)}}
Plain(e) == [type |-> e, method |-> FALSE]
Method(ps) == [type |-> Func(<<F(Ptr(Ref("s")))>> \o ps, Void), method |-> TRUE]
AllDecls == {Plain(e) : e \in Pieces} \cup {Method(ps) : ps \in Params}
         \cup {Plain(Func(ps, r)) : ps \in Params, r \in {Void, Ptr(Ref("fn"))}}
         \cup {Plain(Record(u, fs)) : u \in BOOLEAN, fs \in Pairs \cup {<<>>}}

(* Declarations one of which is in error or changes the context at depth.  *)
First == {Plain(Func(<<F(Ref("none"))>>, Void)), Plain(Record(FALSE, <<F(Array(CInt, NoLen))>>)),
          Plain(Record(FALSE, <<F(Deep), F(Ptr(Func(<<F(Ref("none"))>>, Void)))>>))}
MCInputs == {<<d>> : d \in AllDecls} \cup {<<f, Plain(e)>> : f \in First, e \in Pieces}
            \cup {<<f, Plain(Record(FALSE, ps))>> : f \in First, ps \in Pairs}

(* The types of the declarations and all that are inside them.             *)
MaxOfSet(S) == CHOOSE n \in S : \A m \in S : m <= n
RECURSIVE Inside(_)
Inside(e) == {e} \cup UNION {Inside(d) : d \in Parts(e)}
RECURSIVE Nesting(_)
Nesting(e) == IF Parts(e) = {} THEN 0 ELSE 1 + MaxOfSet({Nesting(d) : d \in Parts(e)})
MCExpr == {e \in UNION {Inside(d.type) : d \in AllDecls \cup First} : TRUE}
MCDepth == [e \in MCExpr |-> Nesting(e)]
=============================================================================
