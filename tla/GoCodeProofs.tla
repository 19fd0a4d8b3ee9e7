---------------------------- MODULE GoCodeProofs ----------------------------
(***************************************************************************)
(* The Go code of a package: its types keep the layout and the parameters  *)
(* of the C types (TypeConv), its lines keep their places (GoWrite).       *)
(*                                                                         *)
(* A C type is of any depth, so the functions of types are recursive: that *)
(* each has the value its definition says is shown first, by induction on  *)
(* the depth, with WFMin for the least type that lacks a property.  The    *)
(* same induction shows Kept of every type: in every context ToType puts   *)
(* the context back and fails or has the right Go type.                    *)
(***************************************************************************)
EXTENDS TypeConvSafety, GoWrite, WellFoundedInduction, TLAPS

-----------------------------------------------------------------------------
(* Induction on numbers and on the depth of a type.                        *)
LEMMA OnNat ==
  ASSUME NEW T, 0 \in T, \A n \in Nat : n \in T => n + 1 \in T
  PROVE  Nat \subseteq T
<1> SUFFICES ASSUME Nat \ T # {} PROVE FALSE
  OBVIOUS
<1> DEFINE U == Nat \ T
<1>1. U \subseteq Nat /\ U # {}
  OBVIOUS
<1>2. PICK n \in U : \A m \in U : ~ (<<m, n>> \in OpToRel(<, Nat))
  <2> HIDE DEF U
  <2> QED BY <1>1, WFMin, NatLessThanWellFounded
<1>3. n \in Nat /\ n # 0 /\ n - 1 \in Nat /\ n - 1 < n /\ (n - 1) + 1 = n
  <2>1. n \in Nat /\ n \notin T
    OBVIOUS
  <2> HIDE DEF U
  <2> QED BY <2>1
<1>4. n - 1 \notin U
  <2>1. <<n - 1, n>> \in OpToRel(<, Nat)
    BY <1>3 DEF OpToRel
  <2> QED BY <1>2, <2>1
<1>5. n - 1 \in T
  BY <1>3, <1>4
<1>6. n \in T
  BY <1>3, <1>5
<1> QED BY <1>2, <1>6

LEMMA DepthNat == \A e \in Expr : Depth[e] \in Nat
  BY TypeConvAssumption

LEMMA OnExpr ==
  ASSUME NEW T, \A e \in Expr : (\A d \in Expr : Depth[d] < Depth[e] => d \in T) => e \in T
  PROVE  Expr \subseteq T
<1> DEFINE U == {n \in Nat : \A e \in Expr : Depth[e] < n => e \in T}
<1>1. 0 \in U
  BY DepthNat
<1>2. ASSUME NEW n \in Nat, n \in U PROVE n + 1 \in U
  <2> SUFFICES ASSUME NEW e \in Expr, Depth[e] < n + 1 PROVE e \in T
    OBVIOUS
  <2>1. \A d \in Expr : Depth[d] < Depth[e] => d \in T
    BY <1>2, DepthNat
  <2> QED BY <2>1
<1>3. Nat \subseteq U
  <2> HIDE DEF U
  <2> QED BY <1>1, <1>2, OnNat
<1> SUFFICES ASSUME NEW e \in Expr PROVE e \in T
  OBVIOUS
<1>4. Depth[e] + 1 \in Nat /\ Depth[e] < Depth[e] + 1
  BY DepthNat
<1> QED BY <1>3, <1>4

-----------------------------------------------------------------------------
(* The functions of types that are recursive, by name.                     *)
Recursion(r, f, e) ==
  CASE r = "ToType" -> Handle(f, e)
    [] r = "CLayout" -> LayoutFrom(f, e)
    [] r = "Expressible" -> Fits(f, e)
    [] OTHER -> TakesAll(f, e)

SameBelow(f, g, n) == \A d \in Expr : Depth[d] < n => f[d] = g[d]

Kind == {"builtin", "ptr", "array", "func", "ref", "variadic", "record"}

(* What the assumption says of a type of each kind.                        *)
LEMMA Shapes ==
  ASSUME NEW e \in Expr
  PROVE  /\ e.k \in Kind
         /\ e.k = "ptr" => e.x \in Value
         /\ e.k = "array" => e.elt \in Value /\ e.len \in Int
         /\ e.k = "func" => /\ e.params \in Seq(Member) /\ e.ret \in Value
                            /\ \A i \in 1..Len(e.params) - 1 : e.params[i].type \in Value
         /\ e.k = "record" => e.fields \in Seq([named : BOOLEAN, type : Value]) /\ e.union \in BOOLEAN
         /\ \A d \in Parts(e) : Depth[d] < Depth[e]
<1>1. WellFormed(e) /\ \A d \in Parts(e) : Depth[d] < Depth[e]
  BY TypeConvAssumption
<1>2. e.k \in Kind
  BY <1>1 DEF WellFormed, Kind
<1>3. e.k = "ptr" => e.x \in Value
  BY <1>1 DEF WellFormed
<1>4. e.k = "array" => e.elt \in Value /\ e.len \in Int
  BY <1>1 DEF WellFormed
<1>5. e.k = "func" => /\ e.params \in Seq(Member) /\ e.ret \in Value
                      /\ \A i \in 1..Len(e.params) - 1 : e.params[i].type \in Value
  BY <1>1 DEF WellFormed
<1>6. e.k = "record" => e.fields \in Seq([named : BOOLEAN, type : Value]) /\ e.union \in BOOLEAN
  BY <1>1 DEF WellFormed
<1> QED BY <1>1, <1>2, <1>3, <1>4, <1>5, <1>6

LEMMA ValueExpr == ASSUME NEW d \in Value PROVE d \in Expr /\ d.k # "variadic"
  BY DEF Value

LEMMA PtrPart ==
  ASSUME NEW e \in Expr, e.k = "ptr" PROVE e.x \in Value /\ e.x \in Expr /\ Depth[e.x] < Depth[e]
<1>1. e.x \in Parts(e)
  BY DEF Parts
<1> QED BY <1>1, Shapes, ValueExpr

LEMMA ArrayPart ==
  ASSUME NEW e \in Expr, e.k = "array"
  PROVE  e.elt \in Value /\ e.elt \in Expr /\ Depth[e.elt] < Depth[e] /\ e.len \in Int
<1>1. e.elt \in Parts(e)
  BY DEF Parts
<1> QED BY <1>1, Shapes, ValueExpr

LEMMA FuncPart ==
  ASSUME NEW e \in Expr, e.k = "func"
  PROVE  /\ e.ret \in Value /\ e.ret \in Expr /\ Depth[e.ret] < Depth[e]
         /\ e.params \in Seq(Member) /\ DOMAIN e.params = 1..Len(e.params)
         /\ \A i \in 1..Len(e.params) :
              /\ e.params[i].type \in Expr /\ Depth[e.params[i].type] < Depth[e]
              /\ e.params[i].named \in BOOLEAN
         /\ \A i \in 1..Len(e.params) - 1 : e.params[i].type \in Value
<1>1. /\ e.params \in Seq(Member) /\ e.ret \in Value
      /\ \A i \in 1..Len(e.params) - 1 : e.params[i].type \in Value
  BY Shapes
<1>2. DOMAIN e.params = 1..Len(e.params) /\ \A i \in 1..Len(e.params) : e.params[i] \in Member
  BY <1>1
<1>3. \A i \in 1..Len(e.params) : e.params[i].type \in Expr /\ e.params[i].named \in BOOLEAN
  BY <1>2 DEF Member
<1>4. Parts(e) = {e.ret} \cup {e.params[i].type : i \in DOMAIN e.params}
  BY DEF Parts
<1>5. \A i \in 1..Len(e.params) : Depth[e.params[i].type] < Depth[e]
  BY <1>2, <1>4, Shapes
<1>6. Depth[e.ret] < Depth[e]
  BY <1>4, Shapes
<1> QED BY <1>1, <1>2, <1>3, <1>5, <1>6, ValueExpr

LEMMA Items == ASSUME NEW S, NEW s \in Seq(S) PROVE DOMAIN s = 1..Len(s) /\ \A i \in 1..Len(s) : s[i] \in S
  OBVIOUS

LEMMA RecordPart ==
  ASSUME NEW e \in Expr, e.k = "record"
  PROVE  /\ e.union \in BOOLEAN /\ e.fields \in Seq([named : BOOLEAN, type : Value])
         /\ DOMAIN e.fields = 1..Len(e.fields)
         /\ \A i \in 1..Len(e.fields) :
              /\ e.fields[i].type \in Value /\ e.fields[i].type \in Expr
              /\ Depth[e.fields[i].type] < Depth[e] /\ e.fields[i].named \in BOOLEAN
<1>1. e.fields \in Seq([named : BOOLEAN, type : Value]) /\ e.union \in BOOLEAN
  BY Shapes
<1>2. DOMAIN e.fields = 1..Len(e.fields)
      /\ \A i \in 1..Len(e.fields) : e.fields[i] \in [named : BOOLEAN, type : Value]
  <2> DEFINE F == [named : BOOLEAN, type : Value]
  <2>1. e.fields \in Seq(F)
    BY <1>1
  <2> HIDE DEF F
  <2>2. DOMAIN e.fields = 1..Len(e.fields) /\ \A i \in 1..Len(e.fields) : e.fields[i] \in F
    BY <2>1, Items
  <2> QED BY <2>2 DEF F
<1>3. \A i \in 1..Len(e.fields) : e.fields[i].type \in Value /\ e.fields[i].named \in BOOLEAN
  BY <1>2
<1>4. Parts(e) = {e.fields[i].type : i \in DOMAIN e.fields}
  BY DEF Parts
<1>5. \A i \in 1..Len(e.fields) : Depth[e.fields[i].type] < Depth[e]
  BY <1>2, <1>4, Shapes
<1> QED BY <1>1, <1>2, <1>3, <1>5, ValueExpr

(* Each of them looks only at what is nested in the type.                  *)
LEMMA EachSame ==
  ASSUME NEW f, NEW g, NEW fields, \A i \in DOMAIN fields : f[fields[i].type] = g[fields[i].type]
  PROVE  Each(f, fields) = Each(g, fields)
  BY DEF Each

LEMMA HandleSame ==
  ASSUME NEW e \in Expr, NEW f, NEW g, SameBelow(f, g, Depth[e])
  PROVE  Handle(f, e) = Handle(g, e)
<1> SUFFICES ASSUME NEW c \in Context PROVE Handle(f, e)[c] = Handle(g, e)[c]
  BY DEF Handle
<1>1. e.k \in Kind
  BY Shapes
<1>2. CASE e.k = "ptr"
  <2>1. f[e.x] = g[e.x]
    BY <1>2, PtrPart DEF SameBelow
  <2>2. HandlePointerType(f, e, c) = HandlePointerType(g, e, c)
    BY <2>1 DEF HandlePointerType
  <2> QED BY <1>2, <2>2 DEF Handle
<1>3. CASE e.k = "array"
  <2>1. f[e.elt] = g[e.elt]
    BY <1>3, ArrayPart DEF SameBelow
  <2>2. HandleArrayType(f, e, c) = HandleArrayType(g, e, c)
    BY <2>1 DEF HandleArrayType
  <2> QED BY <1>3, <2>2 DEF Handle
<1>4. CASE e.k = "func"
  <2>1. f[e.ret] = g[e.ret]
    BY <1>4, FuncPart DEF SameBelow
  <2>2. Each(f, e.params) = Each(g, e.params)
    <3>1. \A i \in DOMAIN e.params : f[e.params[i].type] = g[e.params[i].type]
      BY <1>4, FuncPart DEF SameBelow
    <3> QED BY <3>1, EachSame
  <2>3. ToSignature(f, e, FALSE, c) = ToSignature(g, e, FALSE, c)
    BY <2>1, <2>2 DEF ToSignature
  <2> QED BY <1>4, <2>3 DEF Handle
<1>5. CASE e.k = "record"
  <2>1. Each(f, e.fields) = Each(g, e.fields)
    <3>1. \A i \in DOMAIN e.fields : f[e.fields[i].type] = g[e.fields[i].type]
      BY <1>5, RecordPart DEF SameBelow
    <3> QED BY <3>1, EachSame
  <2>2. RecordTypeToStruct(f, e, c) = RecordTypeToStruct(g, e, c)
    BY <2>1 DEF RecordTypeToStruct
  <2> QED BY <1>5, <2>2 DEF Handle
<1>6. CASE e.k \in {"builtin", "ref", "variadic"}
  BY <1>6 DEF Handle
<1> QED BY <1>1, <1>2, <1>3, <1>4, <1>5, <1>6 DEF Kind

LEMMA LayoutSame ==
  ASSUME NEW e \in Expr, NEW f, NEW g, SameBelow(f, g, Depth[e])
  PROVE  LayoutFrom(f, e) = LayoutFrom(g, e)
<1>1. e.k \in Kind
  BY Shapes
<1>2. CASE e.k = "array"
  <2>1. f[e.elt] = g[e.elt]
    BY <1>2, ArrayPart DEF SameBelow
  <2> QED BY <1>2, <2>1 DEF LayoutFrom
<1>3. CASE e.k = "record"
  <2>1. Each(f, e.fields) = Each(g, e.fields)
    <3>1. \A i \in DOMAIN e.fields : f[e.fields[i].type] = g[e.fields[i].type]
      BY <1>3, RecordPart DEF SameBelow
    <3> QED BY <3>1, EachSame
  <2> QED BY <1>3, <2>1 DEF LayoutFrom
<1>4. CASE e.k \in {"builtin", "ref", "variadic", "ptr", "func"}
  BY <1>4 DEF LayoutFrom
<1> QED BY <1>1, <1>2, <1>3, <1>4 DEF Kind

LEMMA FitsSame ==
  ASSUME NEW e \in Expr, NEW f, NEW g, SameBelow(f, g, Depth[e])
  PROVE  Fits(f, e) = Fits(g, e)
<1>1. e.k \in Kind
  BY Shapes
<1>2. CASE e.k = "array"
  <2>1. f[e.elt] = g[e.elt]
    BY <1>2, ArrayPart DEF SameBelow
  <2> QED BY <1>2, <2>1 DEF Fits
<1>3. CASE e.k = "record"
  <2>1. \A i \in DOMAIN e.fields : f[e.fields[i].type] = g[e.fields[i].type]
    BY <1>3, RecordPart DEF SameBelow
  <2>2. (\A i \in DOMAIN e.fields : f[e.fields[i].type])
          = (\A i \in DOMAIN e.fields : g[e.fields[i].type])
    BY <2>1
  <2> QED BY <1>3, <2>2 DEF Fits
<1>4. CASE e.k \in {"builtin", "ref", "variadic", "ptr", "func"}
  BY <1>4 DEF Fits
<1> QED BY <1>1, <1>2, <1>3, <1>4 DEF Kind

LEMMA TakesSame ==
  ASSUME NEW e \in Expr, NEW f, NEW g, SameBelow(f, g, Depth[e])
  PROVE  TakesAll(f, e) = TakesAll(g, e)
<1> SUFFICES ASSUME NEW s, e.k = "func" PROVE Takes(f, e, s) = Takes(g, e, s)
  BY DEF TakesAll
<1>1. \A i \in 1..Len(e.params) :
         e.params[i].type.k = "ptr" => f[e.params[i].type.x] = g[e.params[i].type.x]
  <2> SUFFICES ASSUME NEW i \in 1..Len(e.params), e.params[i].type.k = "ptr"
               PROVE  f[e.params[i].type.x] = g[e.params[i].type.x]
    OBVIOUS
  <2>1. e.params[i].type \in Expr /\ Depth[e.params[i].type] < Depth[e]
    BY FuncPart
  <2>2. e.params[i].type.x \in Expr /\ Depth[e.params[i].type.x] < Depth[e.params[i].type]
    BY <2>1, PtrPart
  <2>3. Depth[e.params[i].type.x] < Depth[e]
    BY <2>1, <2>2, DepthNat
  <2> QED BY <2>2, <2>3 DEF SameBelow
<1> QED BY <1>1 DEF Takes

LEMMA RecursionSame ==
  ASSUME NEW r, NEW e \in Expr, NEW f, NEW g, SameBelow(f, g, Depth[e])
  PROVE  Recursion(r, f, e) = Recursion(r, g, e)
  BY HandleSame, LayoutSame, FitsSame, TakesSame DEF Recursion

Upto(r, f, n) ==
  f = [e \in Expr |-> f[e]] /\ \A e \in Expr : Depth[e] < n => f[e] = Recursion(r, f, e)

LEMMA UptoExists == ASSUME NEW r PROVE \A n \in Nat : \E f : Upto(r, f, n)
<1> DEFINE T == {n \in Nat : \E f : Upto(r, f, n)}
<1>1. 0 \in T
  <2>1. Upto(r, [e \in Expr |-> 0], 0)
    BY DepthNat DEF Upto
  <2> QED BY <2>1
<1>2. ASSUME NEW n \in Nat, n \in T PROVE n + 1 \in T
  <2>1. PICK f : Upto(r, f, n)
    BY <1>2
  <2> DEFINE g == [e \in Expr |-> Recursion(r, f, e)]
  <2>2. ASSUME NEW e \in Expr, Depth[e] < n + 1 PROVE g[e] = Recursion(r, g, e)
    <3>1. \A d \in Expr : Depth[d] < Depth[e] => f[d] = g[d]
      BY <2>1, <2>2, DepthNat DEF Upto
    <3>2. g[e] = Recursion(r, f, e)
      OBVIOUS
    <3> HIDE DEF g
    <3>3. SameBelow(f, g, Depth[e])
      BY <3>1 DEF SameBelow
    <3> QED BY <3>2, <3>3, RecursionSame
  <2>3. g = [e \in Expr |-> g[e]]
    OBVIOUS
  <2> HIDE DEF g
  <2>4. Upto(r, g, n + 1)
    BY <2>2, <2>3 DEF Upto
  <2> QED BY <2>4
<1> HIDE DEF T
<1>3. Nat \subseteq T
  BY <1>1, <1>2, OnNat
<1> QED BY <1>3 DEF T

LEMMA UptoUnique ==
  ASSUME NEW r, NEW f, NEW g, NEW m \in Nat, NEW n \in Nat, m <= n, Upto(r, f, m), Upto(r, g, n)
  PROVE  SameBelow(f, g, m)
<1> DEFINE T == {e \in Expr : Depth[e] < m => f[e] = g[e]}
<1>1. ASSUME NEW e \in Expr, \A d \in Expr : Depth[d] < Depth[e] => d \in T PROVE e \in T
  <2> SUFFICES ASSUME Depth[e] < m PROVE f[e] = g[e]
    OBVIOUS
  <2>1. SameBelow(f, g, Depth[e])
    BY <1>1, DepthNat DEF SameBelow
  <2>2. f[e] = Recursion(r, f, e) /\ g[e] = Recursion(r, g, e)
    BY DepthNat DEF Upto
  <2> QED BY <2>1, <2>2, RecursionSame
<1>2. Expr \subseteq T
  <2> HIDE DEF T
  <2> QED BY <1>1, OnExpr
<1> QED BY <1>2 DEF SameBelow

(* So each recursive definition has a solution.                            *)
LEMMA Solution == ASSUME NEW r PROVE \E f : f = [e \in Expr |-> Recursion(r, f, e)]
<1> DEFINE h(n) == CHOOSE f : Upto(r, f, n)
           f == [e \in Expr |-> h(Depth[e] + 1)[e]]
<1>1. \A n \in Nat : Upto(r, h(n), n)
  BY UptoExists
<1> HIDE DEF h
<1>2. ASSUME NEW e \in Expr PROVE f[e] = Recursion(r, f, e)
  <2>1. Depth[e] \in Nat /\ Depth[e] + 1 \in Nat /\ Depth[e] < Depth[e] + 1
    BY DepthNat
  <2>2. h(Depth[e] + 1)[e] = Recursion(r, h(Depth[e] + 1), e)
    BY <1>1, <2>1 DEF Upto
  <2>3. ASSUME NEW d \in Expr, Depth[d] < Depth[e] PROVE h(Depth[e] + 1)[d] = f[d]
    <3>1. Depth[d] \in Nat /\ Depth[d] + 1 \in Nat /\ Depth[d] + 1 <= Depth[e] + 1 /\ Depth[d] < Depth[d] + 1
      BY <2>1, <2>3, DepthNat
    <3>2. SameBelow(h(Depth[d] + 1), h(Depth[e] + 1), Depth[d] + 1)
      BY <1>1, <2>1, <3>1, UptoUnique
    <3>3. h(Depth[d] + 1)[d] = h(Depth[e] + 1)[d]
      BY <3>1, <3>2 DEF SameBelow
    <3> QED BY <3>3
  <2>4. f[e] = h(Depth[e] + 1)[e]
    OBVIOUS
  <2> HIDE DEF f
  <2>5. SameBelow(h(Depth[e] + 1), f, Depth[e])
    BY <2>3 DEF SameBelow
  <2> QED BY <2>2, <2>4, <2>5, RecursionSame
<1>3. f = [e \in Expr |-> f[e]]
  OBVIOUS
<1> HIDE DEF f
<1>4. f = [e \in Expr |-> Recursion(r, f, e)]
  BY <1>2, <1>3
<1> QED BY <1>4

LEMMA ToTypeDef == ToType = [e \in Expr |-> Handle(ToType, e)]
<1>1. \E f : f = [e \in Expr |-> Handle(f, e)]
  <2>1. \A f, e : Recursion("ToType", f, e) = Handle(f, e)
    BY DEF Recursion
  <2> QED BY <2>1, Solution
<1> QED BY <1>1 DEF ToType

LEMMA CLayoutDef == CLayout = [e \in Expr |-> LayoutFrom(CLayout, e)]
<1>1. \E f : f = [e \in Expr |-> LayoutFrom(f, e)]
  <2>1. \A f, e : Recursion("CLayout", f, e) = LayoutFrom(f, e)
    BY DEF Recursion
  <2> QED BY <2>1, Solution
<1> QED BY <1>1 DEF CLayout

LEMMA ExpressibleDef == Expressible = [e \in Expr |-> Fits(Expressible, e)]
<1>1. \E f : f = [e \in Expr |-> Fits(f, e)]
  <2>1. \A f, e : Recursion("Expressible", f, e) = Fits(f, e)
    BY DEF Recursion
  <2> QED BY <2>1, Solution
<1> QED BY <1>1 DEF Expressible

LEMMA AgreesDef == Agrees = [e \in Expr |-> TakesAll(Agrees, e)]
<1>1. \E f : f = [e \in Expr |-> TakesAll(f, e)]
  <2>1. \A f, e : Recursion("Agrees", f, e) = TakesAll(f, e)
    BY DEF Recursion
  <2> QED BY <2>1, Solution
<1> QED BY <1>1 DEF Agrees

-----------------------------------------------------------------------------
(* The loops over members.                                                 *)
LEMMA PlaceIs ==
  ASSUME NEW ms, Len(ms) \in Nat
  PROVE  \E s : /\ s = [i \in 0..Len(ms) |->
                         IF i = 0 THEN [size |-> 0, align |-> 1, wide |-> 0, offs |-> <<>>]
                         ELSE PlaceNext(s[i - 1], ms[i])]
                /\ Place(ms) = s[Len(ms)]
<1> DEFINE z == [size |-> 0, align |-> 1, wide |-> 0, offs |-> <<>>]
           Def(s, n) == s = [i \in 0..n |-> IF i = 0 THEN z ELSE PlaceNext(s[i - 1], ms[i])]
           T == {n \in Nat : \E s : Def(s, n)}
<1>1. 0 \in T
  <2>1. Def([i \in 0..0 |-> z], 0)
    OBVIOUS
  <2> QED BY <2>1
<1>2. ASSUME NEW n \in Nat, n \in T PROVE n + 1 \in T
  <2>1. PICK s : Def(s, n)
    BY <1>2
  <2> DEFINE t == [i \in 0..n + 1 |-> IF i = n + 1 THEN PlaceNext(s[n], ms[n + 1]) ELSE s[i]]
  <2>2. \A i \in 0..n : t[i] = s[i]
    OBVIOUS
  <2>3. \A i \in 1..n : s[i] = PlaceNext(s[i - 1], ms[i]) /\ i - 1 \in 0..n
    BY <2>1
  <2>4. s[0] = z
    BY <2>1
  <2>5. t[n + 1] = PlaceNext(s[n], ms[n + 1]) /\ (n + 1) - 1 = n
    OBVIOUS
  <2>6. t = [i \in 0..n + 1 |-> t[i]]
    OBVIOUS
  <2> HIDE DEF t, z
  <2>7. \A i \in 0..n + 1 : t[i] = IF i = 0 THEN z ELSE PlaceNext(t[i - 1], ms[i])
    <3> SUFFICES ASSUME NEW i \in 0..n + 1 PROVE t[i] = IF i = 0 THEN z ELSE PlaceNext(t[i - 1], ms[i])
      OBVIOUS
    <3>1. CASE i = 0
      BY <3>1, <2>2, <2>4
    <3>2. CASE i \in 1..n
      BY <3>2, <2>2, <2>3
    <3>3. CASE i = n + 1
      BY <3>3, <2>2, <2>5
    <3> QED BY <3>1, <3>2, <3>3
  <2>8. Def(t, n + 1)
    BY <2>6, <2>7
  <2> QED BY <2>8
<1>3. \E s : Def(s, Len(ms))
  <2> HIDE DEF T
  <2>1. Nat \subseteq T
    BY <1>1, <1>2, OnNat
  <2> QED BY <2>1 DEF T
<1>4. Place(ms) = (CHOOSE s : Def(s, Len(ms)))[Len(ms)]
  BY DEF Place
<1> QED BY <1>3, <1>4

LEMMA VarsIs ==
  ASSUME NEW conv, NEW fields, NEW hasNamed, NEW c, Len(fields) \in Nat
  PROVE  \E s : /\ s = [i \in 0..Len(fields) |->
                         IF i = 0 THEN [ctx |-> c, failed |-> FALSE, vars |-> <<>>]
                         ELSE FieldToVar(s[i - 1], conv[i], fields[i].named \/ hasNamed)]
                /\ FieldListToVars(conv, fields, hasNamed, c) = s[Len(fields)]
<1> DEFINE z == [ctx |-> c, failed |-> FALSE, vars |-> <<>>]
           G(p, i) == FieldToVar(p, conv[i], fields[i].named \/ hasNamed)
           Def(s, n) == s = [i \in 0..n |-> IF i = 0 THEN z ELSE G(s[i - 1], i)]
           T == {n \in Nat : \E s : Def(s, n)}
<1>4. FieldListToVars(conv, fields, hasNamed, c) = (CHOOSE s : Def(s, Len(fields)))[Len(fields)]
  BY DEF FieldListToVars
<1>5. SUFFICES \E s : Def(s, Len(fields))
  BY <1>4
<1> HIDE DEF G, z
<1>1. 0 \in T
  <2>1. Def([i \in 0..0 |-> z], 0)
    OBVIOUS
  <2> QED BY <2>1
<1>2. ASSUME NEW n \in Nat, n \in T PROVE n + 1 \in T
  <2>1. PICK s : Def(s, n)
    BY <1>2
  <2> DEFINE t == [i \in 0..n + 1 |-> IF i = n + 1 THEN G(s[n], n + 1) ELSE s[i]]
  <2>2. \A i \in 0..n : t[i] = s[i]
    OBVIOUS
  <2>3. \A i \in 1..n : s[i] = G(s[i - 1], i) /\ i - 1 \in 0..n
    BY <2>1
  <2>4. s[0] = z
    BY <2>1
  <2>5. t[n + 1] = G(s[n], n + 1) /\ (n + 1) - 1 = n
    OBVIOUS
  <2>6. t = [i \in 0..n + 1 |-> t[i]]
    OBVIOUS
  <2> HIDE DEF t
  <2>7. \A i \in 0..n + 1 : t[i] = IF i = 0 THEN z ELSE G(t[i - 1], i)
    <3> SUFFICES ASSUME NEW i \in 0..n + 1 PROVE t[i] = IF i = 0 THEN z ELSE G(t[i - 1], i)
      OBVIOUS
    <3>1. CASE i = 0
      BY <3>1, <2>2, <2>4
    <3>2. CASE i \in 1..n
      BY <3>2, <2>2, <2>3
    <3>3. CASE i = n + 1
      BY <3>3, <2>2, <2>5
    <3> QED BY <3>1, <3>2, <3>3
  <2>8. Def(t, n + 1)
    BY <2>6, <2>7
  <2> QED BY <2>8
<1> QED
  <2> HIDE DEF T
  <2>1. Nat \subseteq T
    BY <1>1, <1>2, OnNat
  <2> QED BY <2>1 DEF T

(* What the loop over fields leaves: the variables of all of them, if each *)
(* conversion puts the context back and none fails.                        *)
VarOf(conv, fields, hasNamed, c) ==
  [i \in 1..Len(fields) |-> [named |-> fields[i].named \/ hasNamed, type |-> conv[i][c].type]]

LEMMA AppendFun ==
  ASSUME NEW n \in Nat, NEW g, NEW v, v = g[n + 1]
  PROVE  Append([i \in 1..n |-> g[i]], v) = [i \in 1..n + 1 |-> g[i]]
  OBVIOUS

LEMMA VarsResult ==
  ASSUME NEW conv, NEW fields, NEW hasNamed, NEW c, Len(fields) \in Nat,
         \A i \in 1..Len(fields) : conv[i][c].ctx = c
  PROVE  LET F == FieldListToVars(conv, fields, hasNamed, c)
         IN  /\ F.ctx = c
             /\ F.failed \/ (/\ F.vars = VarOf(conv, fields, hasNamed, c)
                             /\ \A i \in 1..Len(fields) : ~Failed(conv[i][c].type))
<1> DEFINE n == Len(fields)
           z == [ctx |-> c, failed |-> FALSE, vars |-> <<>>]
           nm(i) == fields[i].named \/ hasNamed
           v == [i \in 1..n |-> [named |-> nm(i), type |-> conv[i][c].type]]
           OK(p, i) == /\ p.ctx = c
                       /\ p.failed \/ (/\ p.vars = [j \in 1..i |-> v[j]]
                                       /\ \A j \in 1..i : ~Failed(conv[j][c].type))
<1>1. PICK s : /\ s = [i \in 0..n |-> IF i = 0 THEN z ELSE FieldToVar(s[i - 1], conv[i], nm(i))]
               /\ FieldListToVars(conv, fields, hasNamed, c) = s[n]
  BY VarsIs
<1>2. s[0] = z /\ \A i \in 1..n : s[i] = FieldToVar(s[i - 1], conv[i], nm(i))
  <2> DEFINE G(p, i) == FieldToVar(p, conv[i], nm(i))
  <2>1. s = [i \in 0..n |-> IF i = 0 THEN z ELSE G(s[i - 1], i)]
    BY <1>1
  <2> HIDE DEF z, G
  <2>2. s[0] = z /\ \A i \in 1..n : s[i] = G(s[i - 1], i)
    BY <2>1
  <2> QED BY <2>2 DEF G
<1>3. OK(z, 0)
  OBVIOUS
<1>4. ASSUME NEW i \in Nat, i + 1 \in 1..n, NEW p, OK(p, i)
      PROVE  OK(FieldToVar(p, conv[i + 1], nm(i + 1)), i + 1)
  <2>1. conv[i + 1][c].ctx = c /\ p.ctx = c
    BY <1>4
  <2>2. CASE p.failed
    BY <2>1, <2>2 DEF FieldToVar
  <2>3. CASE ~p.failed
    <3> DEFINE w == [named |-> nm(i + 1), type |-> conv[i + 1][c].type]
    <3>1. FieldToVar(p, conv[i + 1], nm(i + 1))
            = [ctx |-> c, failed |-> Failed(conv[i + 1][c].type), vars |-> Append(p.vars, w)]
      BY <2>1, <2>3 DEF FieldToVar
    <3>2. w = v[i + 1]
      BY <1>4
    <3> HIDE DEF w, v, nm
    <3>3. Append(p.vars, w) = [j \in 1..i + 1 |-> v[j]]
      BY <1>4, <2>3, <3>2, AppendFun
    <3>4. \A j \in 1..i + 1 : j \in 1..i \/ j = i + 1
      BY <1>4
    <3> QED BY <1>4, <2>3, <3>1, <3>3, <3>4
  <2> QED BY <2>2, <2>3
<1> DEFINE T == {i \in Nat : i <= n => OK(s[i], i)}
<1> HIDE DEF OK, v, nm, z
<1>5. 0 \in T
  BY <1>2, <1>3
<1>6. ASSUME NEW i \in Nat, i \in T PROVE i + 1 \in T
  <2> SUFFICES ASSUME i + 1 <= n PROVE OK(s[i + 1], i + 1)
    OBVIOUS
  <2>1. OK(s[i], i) /\ i + 1 \in 1..n /\ (i + 1) - 1 = i
    BY <1>6
  <2>2. s[i + 1] = FieldToVar(s[i], conv[i + 1], nm(i + 1))
    BY <1>2, <2>1
  <2> QED BY <1>4, <2>1, <2>2
<1>7. OK(s[n], n)
  <2> HIDE DEF T
  <2>1. Nat \subseteq T
    BY <1>5, <1>6, OnNat
  <2> QED BY <2>1 DEF T
<1>8. [j \in 1..n |-> v[j]] = VarOf(conv, fields, hasNamed, c)
  BY DEF v, nm, VarOf
<1> QED BY <1>1, <1>7, <1>8 DEF OK

-----------------------------------------------------------------------------
(* Padding.                                                                *)
Align == {1, 2, 4, 8, 16}
IsLayout(l) == l = LayoutOf(l) /\ l.size \in Nat /\ l.align \in Align

LEMMA Pads ==
  ASSUME NEW a \in Align, NEW o \in Nat
  PROVE  Pad(o, a) \in Nat /\ Pad(Pad(o, a), a) = Pad(o, a) /\ Pad(0, a) = 0
<1>1. CASE a = 1
  BY <1>1 DEF Pad
<1>2. CASE a = 2
  BY <1>2 DEF Pad
<1>3. CASE a = 4
  BY <1>3 DEF Pad
<1>4. CASE a = 8
  BY <1>4 DEF Pad
<1>5. CASE a = 16
  BY <1>5 DEF Pad
<1> QED BY <1>1, <1>2, <1>3, <1>4, <1>5 DEF Align

NoMember == [size |-> 0, align |-> 1, wide |-> 0, offs |-> <<>>]
Placed(p) == p.size \in Nat /\ p.wide \in Nat /\ p.align \in Align

LEMMA PlaceResult ==
  ASSUME NEW ms, Len(ms) \in Nat, \A i \in 1..Len(ms) : IsLayout(ms[i])
  PROVE  Placed(Place(ms)) /\ (Len(ms) = 0 => Place(ms) = NoMember)
                           /\ (Len(ms) = 1 => Place(ms) = PlaceNext(NoMember, ms[1]))
<1> DEFINE n == Len(ms)
<1>1. PICK s : /\ s = [i \in 0..n |-> IF i = 0 THEN NoMember ELSE PlaceNext(s[i - 1], ms[i])]
               /\ Place(ms) = s[n]
  BY PlaceIs DEF NoMember
<1>2. s[0] = NoMember /\ \A i \in 1..n : s[i] = PlaceNext(s[i - 1], ms[i])
  BY <1>1
<1>3. ASSUME NEW p, Placed(p), NEW m, IsLayout(m) PROVE Placed(PlaceNext(p, m))
  <2>1. /\ p.size \in Nat /\ p.wide \in Nat /\ p.align \in Align
        /\ m.size \in Nat /\ m.align \in Align
    BY <1>3 DEF Placed, IsLayout
  <2>2. Pad(p.size, m.align) \in Nat
    BY <2>1, Pads
  <2>3. MaxOf(p.wide, m.size) \in Nat
    BY <2>1 DEF MaxOf
  <2>4. MaxOf(p.align, m.align) \in Align
    BY <2>1 DEF MaxOf
  <2> QED BY <2>1, <2>2, <2>3, <2>4 DEF Placed, PlaceNext
<1> DEFINE T == {i \in Nat : i <= n => Placed(s[i])}
<1>4. 0 \in T
  BY <1>2 DEF Placed, NoMember, Align
<1>5. ASSUME NEW i \in Nat, i \in T PROVE i + 1 \in T
  <2> SUFFICES ASSUME i + 1 <= n PROVE Placed(s[i + 1])
    OBVIOUS
  <2>1. Placed(s[i]) /\ i + 1 \in 1..n /\ (i + 1) - 1 = i
    BY <1>5
  <2>2. s[i + 1] = PlaceNext(s[i], ms[i + 1])
    BY <1>2, <2>1
  <2> QED BY <1>3, <2>1, <2>2
<1>6. Placed(s[n])
  <2> HIDE DEF T
  <2>1. Nat \subseteq T
    BY <1>4, <1>5, OnNat
  <2> QED BY <2>1 DEF T
<1>7. n = 1 => s[1] = PlaceNext(s[0], ms[1])
  BY <1>2
<1> QED BY <1>1, <1>2, <1>6, <1>7

-----------------------------------------------------------------------------
(* What the conversion of a type promises in each context: it puts the     *)
(* context back, and unless it fails the Go type is the right one for it.  *)
Sized(e, c) == e.k # "variadic" /\ (c = "Param" => e.k # "array")
Right(e, c, t) ==
  /\ t.k # "error"
  /\ IsVoidType(t) <=> e = Builtin("void")
  /\ t.k = "named" => t.name \in DOMAIN Env /\ t.lay = LayoutOf(Env[t.name])
  /\ t.k = "sig" => t.lay = Word
  /\ Sized(e, c) => IsLayout(CLayout[e]) /\ (Expressible[e] => t.lay = CLayout[e])
  /\ c = "Param" /\ e.k # "variadic" => t.k # "array"
  /\ c = "Param" /\ e.k = "array" => t.lay.size = 8
  /\ e.k = "variadic" => t = Slice
  /\ e.k = "func" => t.k = "sig" /\ Takes(Agrees, e, t)
  /\ c = "Param" /\ e.k = "ptr" => (e.x.k = "func" => Agrees[e.x][t])
  /\ e.k = "record" /\ ~e.union /\ Expressible[e] => Members(t.fields) = CMembers(e)
RightResult(e, c, r) == r.ctx = c /\ (Failed(r.type) \/ Right(e, c, r.type))
Kept(e) == \A c \in Context : RightResult(e, c, ToType[e][c])

LEMMA HandleIs ==
  ASSUME NEW e \in Expr, NEW c \in Context
  PROVE  /\ e.k = "builtin" => ToType[e][c] = Res(FindBuiltinType(e.b), c)
         /\ e.k = "ptr" => ToType[e][c] = HandlePointerType(ToType, e, c)
         /\ e.k = "array" => ToType[e][c] = HandleArrayType(ToType, e, c)
         /\ e.k = "func" => ToType[e][c] = ToSignature(ToType, e, FALSE, c)
         /\ e.k = "ref" => ToType[e][c] = Res(IF e.name \in DOMAIN Env THEN Named(e.name) ELSE Err, c)
         /\ e.k = "variadic" => ToType[e][c] = Res(Slice, c)
         /\ e.k = "record" => ToType[e][c] = RecordTypeToStruct(ToType, e, c)
<1>1. ToType[e] = Handle(ToType, e)
  BY ToTypeDef
<1> QED BY <1>1 DEF Handle

LEMMA LayoutIs ==
  ASSUME NEW e \in Expr PROVE CLayout[e] = LayoutFrom(CLayout, e) /\ Expressible[e] = Fits(Expressible, e)
  BY CLayoutDef, ExpressibleDef

LEMMA BuiltinLayouts ==
  ASSUME NEW b \in DOMAIN BuiltinMap
  PROVE  LET l == [size |-> CBasic[b],
                   align |-> CASE b = "void" -> 1 [] b = "complex" -> 4
                               [] b = "complexdouble" -> 8 [] OTHER -> CBasic[b]]
         IN  /\ l.size \in Nat /\ l.align \in Align
             /\ b \notin {"wchar", "longdouble"} => BasicLayout(BuiltinMap[b]) = l
             /\ BuiltinMap[b] = "Void" <=> b = "void"
<1>1. b \in {"void", "bool", "schar", "uchar", "wchar", "char16", "char32", "short", "ushort", "int",
             "uint", "long", "ulong", "longlong", "ulonglong", "float", "double", "longdouble",
             "complex", "complexdouble"}
  BY DEF BuiltinMap
<1>2. CASE b \in {"void", "bool", "schar", "uchar", "wchar"}
  BY <1>2 DEF BuiltinMap, CBasic, BasicLayout, GoBasic, AtMost8, Align
<1>3. CASE b \in {"char16", "char32", "short", "ushort", "int"}
  BY <1>3 DEF BuiltinMap, CBasic, BasicLayout, GoBasic, AtMost8, Align
<1>4. CASE b \in {"uint", "long", "ulong", "longlong", "ulonglong"}
  BY <1>4 DEF BuiltinMap, CBasic, BasicLayout, GoBasic, AtMost8, Align
<1>5. CASE b \in {"float", "double", "longdouble", "complex", "complexdouble"}
  BY <1>5 DEF BuiltinMap, CBasic, BasicLayout, GoBasic, AtMost8, Align
<1> QED BY <1>1, <1>2, <1>3, <1>4, <1>5

LEMMA BasicKinds == \A g : /\ Basic(g).k = "basic" /\ Basic(g).lay = BasicLayout(g)
                           /\ Basic(g) = Basic("Void") => g = "Void"
  BY DEF Basic

LEMMA BuiltinKept == ASSUME NEW e \in Expr, e.k = "builtin" PROVE Kept(e)
<1> SUFFICES ASSUME NEW c \in Context PROVE RightResult(e, c, ToType[e][c])
  BY DEF Kept
<1>1. ToType[e][c] = Res(FindBuiltinType(e.b), c)
  BY HandleIs
<1>2. e = Builtin(e.b)
  BY TypeConvAssumption DEF WellFormed
<1>3. CASE e.b \notin DOMAIN BuiltinMap
  BY <1>1, <1>3 DEF FindBuiltinType, RightResult, Res, Failed, Err
<1>4. CASE e.b \in DOMAIN BuiltinMap
  <2> DEFINE t == Basic(BuiltinMap[e.b])
             b == e.b
             l == [size |-> CBasic[b],
                   align |-> CASE b = "void" -> 1 [] b = "complex" -> 4
                               [] b = "complexdouble" -> 8 [] OTHER -> CBasic[b]]
  <2>1. ToType[e][c] = Res(t, c)
    BY <1>1, <1>4 DEF FindBuiltinType
  <2>2. LayoutFrom(CLayout, e) = l
    BY DEF LayoutFrom
  <2>3. CLayout[e] = l
    BY <2>2, LayoutIs
  <2>4. Expressible[e] = (b \notin {"wchar", "longdouble"})
    <3>1. Fits(Expressible, e) = (b \notin {"wchar", "longdouble"})
      BY DEF Fits
    <3> QED BY <3>1, LayoutIs
  <2>5. /\ l.size \in Nat /\ l.align \in Align
        /\ b \notin {"wchar", "longdouble"} => BasicLayout(BuiltinMap[b]) = l
        /\ BuiltinMap[b] = "Void" <=> b = "void"
    BY <1>4, BuiltinLayouts
  <2>6. t.k = "basic" /\ t.lay = BasicLayout(BuiltinMap[b]) /\ (t = Basic("Void") <=> BuiltinMap[b] = "Void")
    BY BasicKinds
  <2>7. e = Builtin("void") <=> b = "void"
    BY <1>2 DEF Builtin
  <2>8. IsLayout(l)
    BY <2>5 DEF IsLayout, LayoutOf
  <2> HIDE DEF t, l
  <2>9. Right(e, c, t)
    BY <2>3, <2>4, <2>5, <2>6, <2>7, <2>8 DEF Right, IsVoidType, b
  <2> QED BY <2>1, <2>9 DEF RightResult, Res
<1> QED BY <1>3, <1>4

LEMMA EnvLayout ==
  ASSUME NEW n \in DOMAIN Env
  PROVE  /\ IsLayout(LayoutOf(Env[n]))
         /\ Env[n].sig => LayoutOf(Env[n]) = Word
<1>1. LayoutOf(Env[n]) \in Layout /\ (Env[n].sig => LayoutOf(Env[n]) = Word)
  BY TypeConvAssumption
<1>2. IsLayout(LayoutOf(Env[n]))
  BY <1>1 DEF Layout, IsLayout, LayoutOf, Align
<1> QED BY <1>1, <1>2

LEMMA NotVoid == ASSUME NEW t, t.k # "basic" PROVE ~IsVoidType(t)
  BY BasicKinds DEF IsVoidType

LEMMA NotBuiltin == ASSUME NEW e, e.k # "builtin" PROVE e # Builtin("void")
  BY DEF Builtin

LEMMA RefKept == ASSUME NEW e \in Expr, e.k = "ref" PROVE Kept(e)
<1> SUFFICES ASSUME NEW c \in Context PROVE RightResult(e, c, ToType[e][c])
  BY DEF Kept
<1>1. ToType[e][c] = Res(IF e.name \in DOMAIN Env THEN Named(e.name) ELSE Err, c)
  BY HandleIs
<1>2. CASE e.name \notin DOMAIN Env
  BY <1>1, <1>2 DEF RightResult, Res, Failed, Err
<1>3. CASE e.name \in DOMAIN Env
  <2> DEFINE t == Named(e.name)
  <2>1. /\ t.k = "named" /\ t.name = e.name /\ t.lay = LayoutOf(Env[e.name])
    BY DEF Named
  <2>2. CLayout[e] = LayoutOf(Env[e.name])
    <3>1. LayoutFrom(CLayout, e) = LayoutOf(Env[e.name])
      BY DEF LayoutFrom
    <3> QED BY <3>1, LayoutIs
  <2>3. IsLayout(LayoutOf(Env[e.name]))
    BY <1>3, EnvLayout
  <2> HIDE DEF t
  <2>4. Right(e, c, t)
    BY <1>3, <2>1, <2>2, <2>3, NotVoid, NotBuiltin DEF Right
  <2> QED BY <1>1, <1>3, <2>4 DEF RightResult, Res, t
<1> QED BY <1>2, <1>3

LEMMA VariadicKept == ASSUME NEW e \in Expr, e.k = "variadic" PROVE Kept(e)
<1> SUFFICES ASSUME NEW c \in Context PROVE RightResult(e, c, ToType[e][c])
  BY DEF Kept
<1>1. ToType[e][c] = Res(Slice, c)
  BY HandleIs
<1>2. Slice.k = "slice"
  BY DEF Slice
<1>3. Right(e, c, Slice)
  BY <1>2, NotVoid, NotBuiltin DEF Right, Sized
<1> QED BY <1>1, <1>3 DEF RightResult, Res

LEMMA WordLayout == IsLayout(Word)
  BY DEF IsLayout, LayoutOf, Word, Align

LEMMA PtrKept == ASSUME NEW e \in Expr, e.k = "ptr", Kept(e.x) PROVE Kept(e)
<1> SUFFICES ASSUME NEW c \in Context PROVE RightResult(e, c, ToType[e][c])
  BY DEF Kept
<1> DEFINE r == ToType[e.x][c]
           base == r.type
<1>1. ToType[e][c] = HandlePointerType(ToType, e, c)
  BY HandleIs
<1>2. e.x \in Expr /\ e.x \in Value /\ e.x.k # "variadic"
  BY PtrPart, ValueExpr
<1>3. RightResult(e.x, c, r)
  BY DEF Kept
<1>4. r.ctx = c /\ (Failed(base) \/ Right(e.x, c, base))
  BY <1>3 DEF RightResult
<1>5. CLayout[e] = Word
  <2>1. LayoutFrom(CLayout, e) = Word
    BY DEF LayoutFrom
  <2> QED BY <2>1, LayoutIs
<1>6. ASSUME NEW t, t.k \in {"pointer", "ptr", "named", "sig"}, t.lay = Word,
             t.k = "named" => t.name \in DOMAIN Env /\ t.lay = LayoutOf(Env[t.name]),
             c = "Param" => (e.x.k = "func" => Agrees[e.x][t])
      PROVE  Right(e, c, t)
  BY <1>5, <1>6, WordLayout, NotVoid, NotBuiltin DEF Right
<1> HIDE DEF r
<1>7. ASSUME e.x.k = "func", Right(e.x, c, base), c = "Param" PROVE Agrees[e.x][base]
  <2>1. base \in ParamTypes
    BY <1>2, <1>7 DEF ParamTypes, r
  <2>2. Takes(Agrees, e.x, base)
    BY <1>7 DEF Right
  <2>3. Agrees[e.x] = TakesAll(Agrees, e.x)
    BY <1>2, AgreesDef
  <2> HIDE DEF base
  <2>4. TakesAll(Agrees, e.x)[base] = (e.x.k = "func" /\ Takes(Agrees, e.x, base))
    BY <2>1 DEF TakesAll
  <2> QED BY <1>7, <2>2, <2>3, <2>4
<1>8. CASE Failed(base)
  BY <1>1, <1>4, <1>8 DEF HandlePointerType, RightResult, Res, Failed, Err, r
<1>9. CASE Right(e.x, c, base)
  <2>0. ~Failed(base)
    BY <1>9 DEF Right, Failed
  <2>1. CASE IsVoidType(base)
    <3>1. ToType[e][c] = Res(Pointer, c)
      BY <1>1, <1>4, <2>0, <2>1 DEF HandlePointerType, r
    <3>2. Pointer.k = "pointer" /\ Pointer.lay = Word
      BY DEF Pointer
    <3>3. e.x.k # "func"
      BY <1>9, <2>1, NotVoid DEF Right, Basic, IsVoidType
    <3>4. Right(e, c, Pointer)
      BY <1>6, <3>2, <3>3
    <3> QED BY <3>1, <3>4 DEF RightResult, Res
  <2>2. CASE ~IsVoidType(base) /\ c = "Param" /\ base.k = "named" /\ Env[base.name].sig
    <3>1. ToType[e][c] = Res(base, c)
      BY <1>1, <1>4, <2>0, <2>2 DEF HandlePointerType, r
    <3>2. base.name \in DOMAIN Env /\ base.lay = LayoutOf(Env[base.name])
      BY <1>9, <2>2 DEF Right
    <3>3. base.lay = Word
      BY <2>2, <3>2, EnvLayout
    <3>4. e.x.k # "func"
      BY <1>9, <2>2 DEF Right
    <3>5. Right(e, c, base)
      <4>1. base.k \in {"pointer", "ptr", "named", "sig"}
        BY <2>2
      <4>2. base.k = "named" => base.name \in DOMAIN Env /\ base.lay = LayoutOf(Env[base.name])
        BY <3>2
      <4> HIDE DEF base
      <4> QED BY <1>6, <4>1, <4>2, <3>3, <3>4
    <3> QED BY <3>1, <3>5 DEF RightResult, Res
  <2>3. CASE ~IsVoidType(base) /\ base.k = "sig" /\ c = "Record"
    <3>1. ToType[e][c] = Res(Pointer, c)
      BY <1>1, <1>4, <2>0, <2>3 DEF HandlePointerType, r
    <3>2. Pointer.k = "pointer" /\ Pointer.lay = Word
      BY DEF Pointer
    <3>4. Right(e, c, Pointer)
      BY <1>6, <2>3, <3>2
    <3> QED BY <3>1, <3>4 DEF RightResult, Res
  <2>4. CASE ~IsVoidType(base) /\ base.k = "sig" /\ c # "Record"
    <3>1. ToType[e][c] = Res(base, c)
      BY <1>1, <1>4, <2>0, <2>4 DEF HandlePointerType, r
    <3>2. base.lay = Word
      BY <1>9, <2>4 DEF Right
    <3>4. Right(e, c, base)
      BY <1>6, <1>7, <1>9, <2>4, <3>2
    <3> QED BY <3>1, <3>4 DEF RightResult, Res
  <2>5. CASE ~IsVoidType(base) /\ base.k # "sig" /\ ~(c = "Param" /\ base.k = "named" /\ Env[base.name].sig)
    <3>1. ToType[e][c] = Res(NewPointer(base), c)
      BY <1>1, <1>4, <2>0, <2>5 DEF HandlePointerType, r
    <3>2. NewPointer(base).k = "ptr" /\ NewPointer(base).lay = Word
      BY DEF NewPointer
    <3>3. e.x.k # "func"
      BY <1>9, <2>5 DEF Right
    <3>4. Right(e, c, NewPointer(base))
      BY <1>6, <3>2, <3>3
    <3> QED BY <3>1, <3>4 DEF RightResult, Res
  <2> QED BY <2>1, <2>2, <2>3, <2>4, <2>5
<1> QED BY <1>4, <1>8, <1>9

LEMMA Product == ASSUME NEW a \in Nat, NEW b \in Nat PROVE a * b \in Nat
  OBVIOUS

LEMMA ArrayKept == ASSUME NEW e \in Expr, e.k = "array", Kept(e.elt) PROVE Kept(e)
<1> SUFFICES ASSUME NEW c \in Context PROVE RightResult(e, c, ToType[e][c])
  BY DEF Kept
<1> DEFINE r == ToType[e.elt][c]
           t == r.type
           l == CLayout[e.elt]
<1>1. ToType[e][c] = HandleArrayType(ToType, e, c)
  BY HandleIs
<1>2. e.elt \in Expr /\ e.elt \in Value /\ e.elt.k # "variadic" /\ e.len \in Int
  BY ArrayPart, ValueExpr
<1>3. r.ctx = c /\ (Failed(t) \/ Right(e.elt, c, t))
  BY DEF Kept, RightResult
<1>4. CLayout[e] = [size |-> l.size * e.len, align |-> l.align]
  <2>1. LayoutFrom(CLayout, e) = [size |-> l.size * e.len, align |-> l.align]
    BY DEF LayoutFrom
  <2> QED BY <2>1, LayoutIs
<1>5. Expressible[e] => e.len > 0 /\ Expressible[e.elt]
  <2>1. Fits(Expressible, e) = (e.len > 0 /\ Expressible[e.elt])
    BY DEF Fits
  <2> QED BY <2>1, LayoutIs
<1>6. CASE Failed(t)
  <2>1. ToType[e][c] = r
    BY <1>1, <1>6 DEF HandleArrayType
  <2> QED BY <1>3, <1>6, <2>1 DEF RightResult
<1>7. CASE ~Failed(t) /\ c = "Param"
  <2>1. ToType[e][c] = Res(NewPointer(t), c)
    BY <1>1, <1>3, <1>7 DEF HandleArrayType
  <2>2. NewPointer(t).k = "ptr" /\ NewPointer(t).lay = Word /\ Word.size = 8
    BY DEF NewPointer, Word
  <2> HIDE DEF t
  <2>3. Right(e, c, NewPointer(t))
    BY <1>7, <2>2, NotVoid, NotBuiltin DEF Right, Sized
  <2> QED BY <2>1, <2>3 DEF RightResult, Res
<1>8. CASE ~Failed(t) /\ c # "Param" /\ e.len < 0
  <2>1. ToType[e][c] = Res(Err, c)
    BY <1>1, <1>3, <1>8 DEF HandleArrayType
  <2> QED BY <2>1 DEF RightResult, Res, Failed, Err
<1>9. CASE ~Failed(t) /\ c # "Param" /\ ~(e.len < 0)
  <2> DEFINE g == NewArray(t, e.len)
  <2>1. ToType[e][c] = Res(g, c)
    BY <1>1, <1>3, <1>9 DEF HandleArrayType
  <2>2. g.k = "array" /\ g.lay = [size |-> t.lay.size * e.len, align |-> t.lay.align]
    BY DEF NewArray
  <2>3. IsLayout(l) /\ (Expressible[e.elt] => t.lay = l)
    BY <1>2, <1>3, <1>9 DEF Right, Sized
  <2> HIDE DEF g, t, l
  <2>4. l.size * e.len \in Nat
    <3>1. l.size \in Nat /\ e.len \in Nat
      BY <1>2, <1>9, <2>3 DEF IsLayout
    <3> QED BY <3>1, Product
  <2>5. IsLayout(CLayout[e])
    BY <1>4, <2>3, <2>4 DEF IsLayout, LayoutOf
  <2>6. Expressible[e] => g.lay = CLayout[e]
    BY <1>4, <1>5, <2>2, <2>3
  <2>7. Right(e, c, g)
    BY <1>9, <2>2, <2>5, <2>6, NotVoid, NotBuiltin DEF Right
  <2> QED BY <2>1, <2>7 DEF RightResult, Res
<1> QED BY <1>6, <1>7, <1>8, <1>9

-----------------------------------------------------------------------------
(* A signature, of a function type or of a method without its receiver.    *)
FuncType(e) ==
  /\ e.k = "func" /\ e.params \in Seq(Member) /\ e.ret \in Value
  /\ \A i \in 1..Len(e.params) - 1 : e.params[i].type \in Value
SigResult(e, c, r) ==
  /\ r.ctx = c
  /\ Failed(r.type) \/ (r.type.k = "sig" /\ r.type.lay = Word /\ Takes(Agrees, e, r.type))

LEMMA SignatureKept ==
  ASSUME NEW e, FuncType(e), \A i \in 1..Len(e.params) : Kept(e.params[i].type), Kept(e.ret), NEW c
  PROVE  SigResult(e, c, ToSignature(ToType, e, FALSE, c))
<1> DEFINE n == Len(e.params)
           conv == Each(ToType, e.params)
           hn == HasNamedParam(e.params)
           ps == FieldListToVars(conv, e.params, hn, "Param")
           r == ToType[e.ret]["Param"]
           ret == IF IsVoidType(r.type) THEN <<>> ELSE <<r.type>>
           s == Signature(ps.vars, ret, IsVariadic(e.params))
           typ(i) == e.params[i].type
           go(i) == ToType[typ(i)]["Param"].type
<1>1. n \in Nat /\ DOMAIN e.params = 1..n /\ \A i \in 1..n : e.params[i] \in Member
  BY DEF FuncType
<1>2. \A i \in 1..n : typ(i) \in Expr /\ e.params[i].named \in BOOLEAN
  BY <1>1 DEF Member
<1>3. "Param" \in Context
  BY DEF Context
<1>4. \A i \in 1..n : conv[i] = ToType[typ(i)]
  BY <1>1 DEF Each
<1>5. \A i \in 1..n : conv[i]["Param"].ctx = "Param"
  BY <1>3, <1>4 DEF Kept, RightResult
<1>6. /\ ps.ctx = "Param"
      /\ ps.failed \/ (/\ ps.vars = VarOf(conv, e.params, hn, "Param")
                       /\ \A i \in 1..n : ~Failed(conv[i]["Param"].type))
  <2> HIDE DEF conv, hn
  <2> QED BY <1>1, <1>5, VarsResult
<1>7. ToSignature(ToType, e, FALSE, c)
        = IF ps.failed \/ Failed(r.type) THEN Res(Err, c) ELSE Res(s, c)
  BY <1>6 DEF ToSignature
<1>8. CASE ps.failed \/ Failed(r.type)
  <2>1. ToSignature(ToType, e, FALSE, c) = Res(Err, c)
    BY <1>7, <1>8
  <2>2. Res(Err, c).ctx = c /\ Failed(Res(Err, c).type)
    BY DEF Res, Failed, Err
  <2> QED BY <2>1, <2>2 DEF SigResult
<1>9. CASE ~ps.failed /\ ~Failed(r.type)
  <2>1. ToSignature(ToType, e, FALSE, c) = Res(s, c)
    BY <1>7, <1>9
  <2>2. /\ s.k = "sig" /\ s.lay = Word /\ s.ret = ret /\ s.params = ps.vars
        /\ s.variadic = IsVariadic(e.params)
    BY DEF Signature
  <2>3. s.params = [i \in 1..n |-> [named |-> e.params[i].named \/ hn, type |-> conv[i]["Param"].type]]
    BY <1>6, <1>9, <2>2 DEF VarOf
  <2>4. Len(s.params) = n
    BY <1>1, <2>3
  <2>5. \A i \in 1..n : /\ s.params[i].type = go(i)
                        /\ s.params[i].named = (e.params[i].named \/ hn)
    BY <1>4, <2>3
  <2>6. \A i \in 1..n : Right(typ(i), "Param", go(i))
    BY <1>3, <1>4, <1>6, <1>9 DEF Kept, RightResult
  <2>7. Right(e.ret, "Param", r.type)
    BY <1>3, <1>9 DEF Kept, RightResult
  <2>8. (s.ret = <<>>) = (e.ret = Builtin("void"))
    <3>1. IsVoidType(r.type) <=> e.ret = Builtin("void")
      BY <2>7 DEF Right
    <3>2. <<r.type>> # <<>>
      OBVIOUS
    <3> QED BY <2>2, <3>1, <3>2
  <2>9. ASSUME NEW i \in 1..n, typ(i).k = "variadic" PROVE i = n
    BY <1>1, <2>9, ValueExpr DEF FuncType
  <2>10. s.variadic = \E i \in 1..n : typ(i).k = "variadic"
    <3>1. n = 0 <=> e.params = <<>>
      BY <1>1 DEF FuncType
    <3>2. IsVariadic(e.params) <=> n # 0 /\ typ(n).k = "variadic"
      BY <3>1 DEF IsVariadic
    <3>3. n # 0 => n \in 1..n
      BY <1>1
    <3>4. (n # 0 /\ typ(n).k = "variadic") <=> \E i \in 1..n : typ(i).k = "variadic"
      BY <1>1, <3>3, <2>9
    <3>5. s.variadic = (e.params # <<>> /\ typ(n).k = "variadic")
      BY <2>2 DEF IsVariadic
    <3> QED BY <3>1, <3>4, <3>5
  <2>11. \A i, j \in 1..n : s.params[i].named = s.params[j].named
    <3>1. CASE hn
      BY <2>5, <3>1
    <3>2. CASE ~hn
      <4>1. \A i \in 1..n : ~e.params[i].named
        BY <1>1, <3>2 DEF HasNamedParam
      <4> QED BY <2>5, <3>2, <4>1
    <3> QED BY <3>1, <3>2
  <2>12. ASSUME NEW i \in 1..n, typ(i).k # "variadic", Expressible[typ(i)] \/ typ(i).k = "array"
         PROVE  Sizeof(go(i)) = PassedSize(typ(i))
    <3>1. Right(typ(i), "Param", go(i))
      BY <2>6
    <3>2. CASE typ(i).k = "array"
      BY <3>1, <3>2 DEF Right, Sizeof, PassedSize
    <3>3. CASE typ(i).k # "array"
      BY <3>1, <3>3, <2>12 DEF Right, Sized, Sizeof, PassedSize
    <3> QED BY <3>2, <3>3
  <2>13. ASSUME NEW i \in 1..n
         PROVE  /\ typ(i).k = "variadic" => go(i) = Slice
                /\ typ(i).k # "variadic" => go(i).k # "array"
                /\ typ(i).k = "ptr" /\ typ(i).x.k = "func" => Agrees[typ(i).x][go(i)]
    <3>1. Right(typ(i), "Param", go(i))
      BY <2>6
    <3> HIDE DEF go, typ
    <3> QED BY <3>1 DEF Right
  <2>14. \A i \in 1..n :
           LET t == s.params[i].type
           IN  IF e.params[i].type.k = "variadic" THEN i = n /\ t = Slice
               ELSE /\ t.k # "array"
                    /\ Expressible[e.params[i].type] \/ e.params[i].type.k = "array"
                         => Sizeof(t) = PassedSize(e.params[i].type)
                    /\ e.params[i].type.k = "ptr" /\ e.params[i].type.x.k = "func"
                         => Agrees[e.params[i].type.x][t]
    <3> SUFFICES ASSUME NEW i \in 1..n
                 PROVE  LET t == go(i)
                        IN  IF typ(i).k = "variadic" THEN i = n /\ t = Slice
                            ELSE /\ t.k # "array"
                                 /\ Expressible[typ(i)] \/ typ(i).k = "array"
                                      => Sizeof(t) = PassedSize(typ(i))
                                 /\ typ(i).k = "ptr" /\ typ(i).x.k = "func"
                                      => Agrees[typ(i).x][t]
      BY <2>5
    <3> HIDE DEF go, typ
    <3> QED BY <2>9, <2>12, <2>13
  <2> HIDE DEF s
  <2>15. Takes(Agrees, e, s)
    BY <2>2, <2>4, <2>8, <2>10, <2>11, <2>14 DEF Takes
  <2>16. Res(s, c).ctx = c /\ Res(s, c).type = s
    BY DEF Res
  <2> QED BY <2>1, <2>2, <2>15, <2>16 DEF SigResult
<1> QED BY <1>8, <1>9

LEMMA FuncKept ==
  ASSUME NEW e \in Expr, e.k = "func", \A i \in 1..Len(e.params) : Kept(e.params[i].type), Kept(e.ret)
  PROVE  Kept(e)
<1> SUFFICES ASSUME NEW c \in Context PROVE RightResult(e, c, ToType[e][c])
  BY DEF Kept
<1> DEFINE r == ToType[e][c]
<1>1. r = ToSignature(ToType, e, FALSE, c)
  BY HandleIs
<1>2. FuncType(e)
  BY FuncPart DEF FuncType
<1>3. SigResult(e, c, r)
  BY <1>1, <1>2, SignatureKept
<1>4. CLayout[e] = Word
  <2>1. LayoutFrom(CLayout, e) = Word
    BY DEF LayoutFrom
  <2> QED BY <2>1, LayoutIs
<1> HIDE DEF r
<1>5. ASSUME NEW t, t.k = "sig", t.lay = Word, Takes(Agrees, e, t) PROVE Right(e, c, t)
  BY <1>4, <1>5, WordLayout, NotVoid, NotBuiltin DEF Right
<1>6. RightResult(e, c, r)
  BY <1>3, <1>5 DEF SigResult, RightResult
<1> QED BY <1>6 DEF r

-----------------------------------------------------------------------------
(* The largest field of a union.                                           *)
LEMMA LargestExists ==
  ASSUME NEW vs, NEW n \in Nat, n # 0, DOMAIN vs = 1..n, \A i \in 1..n : Sizeof(vs[i].type) \in Nat
  PROVE  \E i \in 1..n : i \in Largest(vs)
<1> DEFINE z(i) == Sizeof(vs[i].type)
           Best(m, i) == \A j \in 1..m : z(j) < z(i) \/ (z(j) = z(i) /\ i <= j)
           T == {m \in Nat : m # 0 /\ m <= n => \E i \in 1..m : Best(m, i)}
<1>0. \A i \in 1..n : z(i) \in Nat
  OBVIOUS
<1>1. 0 \in T
  OBVIOUS
<1>2. ASSUME NEW m \in Nat, m \in T PROVE m + 1 \in T
  <2> SUFFICES ASSUME m + 1 <= n PROVE \E i \in 1..m + 1 : Best(m + 1, i)
    OBVIOUS
  <2>0. \A j \in 1..m + 1 : (j \in 1..m \/ j = m + 1) /\ j \in 1..n
    OBVIOUS
  <2> HIDE DEF z
  <2>1. CASE m = 0
    BY <1>0, <2>0, <2>1
  <2>2. CASE m # 0
    <3>1. PICK i \in 1..m : Best(m, i)
      BY <1>2, <2>2
    <3>2. i \in 1..n /\ m + 1 \in 1..n /\ z(i) \in Nat /\ z(m + 1) \in Nat /\ i \in 1..m + 1
      BY <1>0
    <3>3. CASE z(i) < z(m + 1)
      <4>1. Best(m + 1, m + 1)
        <5> SUFFICES ASSUME NEW j \in 1..m + 1
                     PROVE  z(j) < z(m + 1) \/ (z(j) = z(m + 1) /\ m + 1 <= j)
          OBVIOUS
        <5>1. z(j) \in Nat
          BY <1>0, <2>0
        <5>2. CASE j \in 1..m
          <6>1. z(j) < z(i) \/ z(j) = z(i)
            BY <3>1, <5>2
          <6> QED BY <3>2, <3>3, <5>1, <6>1
        <5>3. CASE j = m + 1
          BY <5>3
        <5> QED BY <2>0, <5>2, <5>3
      <4> QED BY <4>1
    <3>4. CASE ~(z(i) < z(m + 1))
      <4>1. Best(m + 1, i)
        <5> SUFFICES ASSUME NEW j \in 1..m + 1
                     PROVE  z(j) < z(i) \/ (z(j) = z(i) /\ i <= j)
          OBVIOUS
        <5>1. CASE j \in 1..m
          BY <3>1, <5>1
        <5>2. CASE j = m + 1
          <6>1. z(j) <= z(i)
            BY <3>2, <3>4, <5>2
          <6>2. i <= j
            BY <5>2
          <6> QED BY <3>2, <5>2, <6>1, <6>2
        <5> QED BY <2>0, <5>1, <5>2
      <4> QED BY <3>2, <4>1
    <3> QED BY <3>3, <3>4
  <2> QED BY <2>1, <2>2
<1>3. n \in T
  <2> HIDE DEF T
  <2> QED BY <1>1, <1>2, OnNat
<1>4. PICK i \in 1..n : Best(n, i)
  BY <1>3
<1>5. i \in Largest(vs)
  BY <1>4 DEF Largest
<1> QED BY <1>5

LEMMA OneMember ==
  ASSUME NEW l, IsLayout(l), l.size \in Nat
  PROVE  /\ PlaceNext(NoMember, l).size = l.size
         /\ PlaceNext(NoMember, l).align = l.align
<1>1. l.size \in Nat /\ l.align \in Align
  BY DEF IsLayout
<1>2. Pad(0, l.align) = 0
  BY <1>1, Pads
<1>3. MaxOf(1, l.align) = l.align
  BY <1>1 DEF MaxOf, Align
<1> QED BY <1>1, <1>2, <1>3 DEF PlaceNext, NoMember

LEMMA MembersLen == ASSUME NEW fs, NEW n \in Nat, DOMAIN fs = 1..n, NEW f
                    PROVE  Len(Each(f, fs)) = n /\ \A i \in 1..n : Each(f, fs)[i] = f[fs[i].type]
  BY DEF Each

(* A C record as the compiler lays it out.                                 *)
LEMMA RecordLayout ==
  ASSUME NEW e \in Expr, e.k = "record", \A i \in 1..Len(e.fields) : IsLayout(CLayout[e.fields[i].type])
  PROVE  LET p == Place(CMembers(e)) IN
         /\ Placed(p) /\ (Len(e.fields) = 0 => p = NoMember)
         /\ CLayout[e] = [size |-> Pad(IF e.union THEN p.wide ELSE p.size, p.align), align |-> p.align]
         /\ IsLayout(CLayout[e])
<1> DEFINE n == Len(e.fields)
           p == Place(CMembers(e))
           o == IF e.union THEN p.wide ELSE p.size
<1>1. n \in Nat /\ DOMAIN e.fields = 1..n
  BY RecordPart
<1>2. Len(CMembers(e)) = n /\ \A i \in 1..n : IsLayout(CMembers(e)[i])
  BY <1>1, MembersLen DEF CMembers
<1>3. Placed(p) /\ (n = 0 => p = NoMember)
  BY <1>1, <1>2, PlaceResult
<1>4. CLayout[e] = [size |-> Pad(o, p.align), align |-> p.align]
  <2>1. LayoutFrom(CLayout, e) = [size |-> Pad(o, p.align), align |-> p.align]
    BY DEF LayoutFrom, CMembers
  <2> QED BY <2>1, LayoutIs
<1>5. o \in Nat /\ p.align \in Align
  BY <1>3 DEF Placed
<1> HIDE DEF o, p
<1>6. Pad(o, p.align) \in Nat
  BY <1>5, Pads
<1>7. IsLayout(CLayout[e])
  BY <1>4, <1>5, <1>6 DEF IsLayout, LayoutOf
<1> QED BY <1>3, <1>4, <1>7 DEF o, p

LEMMA RecordFits ==
  ASSUME NEW e \in Expr, e.k = "record", Expressible[e]
  PROVE  /\ \A i \in 1..Len(e.fields) : Expressible[e.fields[i].type]
         /\ e.union => FitsUnion(e)
         /\ ~e.union => FitsStruct(e)
<1>1. Fits(Expressible, e)
  BY LayoutIs
<1> QED BY <1>1, RecordPart DEF Fits

(* A Go struct of variables with the layouts of the C members.             *)
LEMMA StructKept ==
  ASSUME NEW e \in Expr, e.k = "record", ~e.union, FitsStruct(e), NEW vs,
         Members(vs) = CMembers(e), \A i \in 1..Len(e.fields) : IsLayout(CLayout[e.fields[i].type])
  PROVE  StructLayout(Members(vs)) = CLayout[e]
<1> DEFINE n == Len(e.fields)
           cm == CMembers(e)
           p == Place(cm)
<1>1. n \in Nat /\ DOMAIN e.fields = 1..n
  BY RecordPart
<1>2. Len(cm) = n
  BY <1>1, MembersLen DEF CMembers
<1>3. CLayout[e] = [size |-> Pad(p.size, p.align), align |-> p.align] /\ p.size \in Nat
  BY RecordLayout DEF Placed
<1>4. ~(p.size > 0 /\ cm[Len(cm)].size = 0)
  BY <1>2 DEF FitsStruct
<1> HIDE DEF p, cm
<1>5. StructLayout(cm) = [size |-> Pad(p.size, p.align), align |-> p.align]
  BY <1>4 DEF StructLayout, p
<1> QED BY <1>3, <1>5 DEF cm

(* Of a union one variable, the largest.                                   *)
LEMMA UnionKept ==
  ASSUME NEW e \in Expr, e.k = "record", e.union, FitsUnion(e), NEW vs,
         DOMAIN vs = 1..Len(e.fields),
         \A i \in 1..Len(e.fields) : /\ vs[i].type.lay = CLayout[e.fields[i].type]
                                     /\ IsLayout(CLayout[e.fields[i].type]),
         Len(e.fields) = 0 => vs = <<>>, Len(e.fields) # 0 => vs # <<>>
  PROVE  StructLayout(Members(UnionOf(vs))) = CLayout[e]
<1> DEFINE n == Len(e.fields)
           cm == CMembers(e)
           p == Place(cm)
           L == CLayout[e]
<1>1. n \in Nat /\ DOMAIN e.fields = 1..n
  BY RecordPart
<1>2. \A i \in 1..n : cm[i] = CLayout[e.fields[i].type]
  BY <1>1, MembersLen DEF CMembers
<1>3. /\ L = [size |-> Pad(p.wide, p.align), align |-> p.align]
      /\ Placed(p) /\ IsLayout(L) /\ (n = 0 => p = NoMember)
  BY RecordLayout
<1>4. \A i \in 1..n : Sizeof(vs[i].type) = cm[i].size /\ cm[i].size \in Nat
  BY <1>2 DEF Sizeof, IsLayout
<1>5. CASE n = 0
  <2>1. UnionOf(vs) = <<>>
    BY <1>5 DEF UnionOf
  <2> DEFINE ms == Members(<<>>)
  <2>2. Len(ms) = 0
    BY DEF Members
  <2> HIDE DEF ms
  <2>3. Place(ms) = NoMember
    BY <2>2, PlaceResult
  <2>4. StructLayout(ms) = [size |-> Pad(0, 1), align |-> 1]
    BY <2>3 DEF StructLayout, NoMember
  <2>5. L = [size |-> Pad(0, 1), align |-> 1]
    BY <1>3, <1>5 DEF NoMember
  <2> QED BY <2>1, <2>4, <2>5 DEF ms
<1>6. CASE n # 0
  <2> DEFINE k == CHOOSE i \in Largest(vs) : TRUE
  <2>1. \E i \in 1..n : i \in Largest(vs)
    BY <1>1, <1>4, <1>6, LargestExists
  <2>2. k \in Largest(vs)
    BY <2>1
  <2>3. UnionOf(vs) = <<vs[k]>>
    BY <1>6 DEF UnionOf
  <2> HIDE DEF k
  <2>4. /\ k \in 1..n
        /\ \A j \in 1..n : \/ Sizeof(vs[j].type) < Sizeof(vs[k].type)
                           \/ Sizeof(vs[j].type) = Sizeof(vs[k].type)
    BY <2>2 DEF Largest
  <2>5. \A j \in 1..n : cm[j].size <= cm[k].size
    BY <1>4, <2>4
  <2>6. cm[k] = L
    <3>1. cm[k] = L \/ \E j \in 1..n : cm[j] = L /\ cm[k].size < L.size
      BY <1>1, <2>4 DEF FitsUnion
    <3>2. ASSUME NEW j \in 1..n, cm[j] = L, cm[k].size < L.size PROVE FALSE
      <4>1. cm[j].size <= cm[k].size /\ cm[j].size \in Nat /\ cm[k].size \in Nat
        BY <1>4, <2>4, <2>5
      <4> HIDE DEF cm, L
      <4> QED BY <4>1, <3>2
    <3> QED BY <3>1, <3>2
  <2>7. vs[k].type.lay = L
    BY <1>2, <2>4, <2>6
  <2> DEFINE ms == Members(<<vs[k]>>)
             q == Place(ms)
  <2> HIDE DEF L, cm, p
  <2>8. Len(ms) = 1 /\ ms[1] = L
    BY <2>7 DEF Members
  <2> HIDE DEF ms
  <2>9. q = PlaceNext(NoMember, L)
    BY <1>3, <2>8, PlaceResult
  <2>10. L.size \in Nat /\ L.align \in Align
    BY <1>3 DEF IsLayout
  <2>11. q.size = L.size /\ q.align = L.align
    BY <1>3, <2>9, <2>10, OneMember
  <2>12. StructLayout(ms) = [size |-> Pad(L.size, L.align), align |-> L.align]
    <3>1. ~(q.size > 0 /\ ms[Len(ms)].size = 0)
      BY <2>8, <2>10, <2>11
    <3> QED BY <2>11, <3>1 DEF StructLayout
  <2>13. Pad(L.size, L.align) = L.size
    <3>1. L.size = Pad(p.wide, p.align) /\ L.align = p.align
      BY <1>3
    <3>2. p.wide \in Nat /\ p.align \in Align
      BY <1>3 DEF Placed
    <3> QED BY <3>1, <3>2, Pads
  <2>14. L = [size |-> L.size, align |-> L.align]
    BY <1>3 DEF IsLayout, LayoutOf
  <2> QED BY <2>3, <2>12, <2>13, <2>14 DEF ms, L
<1> QED BY <1>5, <1>6

LEMMA NoVars == ASSUME NEW v, v = [i \in 1..0 |-> v[i]] PROVE v = <<>>
  OBVIOUS

LEMMA RecordKept ==
  ASSUME NEW e \in Expr, e.k = "record", \A i \in 1..Len(e.fields) : Kept(e.fields[i].type)
  PROVE  Kept(e)
<1> SUFFICES ASSUME NEW c \in Context PROVE RightResult(e, c, ToType[e][c])
  BY DEF Kept
<1> DEFINE n == Len(e.fields)
           conv == Each(ToType, e.fields)
           fs == FieldListToVars(conv, e.fields, FALSE, "Record")
           typ(i) == e.fields[i].type
           go(i) == ToType[typ(i)]["Record"].type
           F == IF e.union THEN UnionOf(fs.vars) ELSE fs.vars
           t == Struct(F)
<1>1. /\ n \in Nat /\ DOMAIN e.fields = 1..n /\ e.union \in BOOLEAN
      /\ \A i \in 1..n : typ(i) \in Expr /\ typ(i).k # "variadic"
  BY RecordPart, ValueExpr
<1>2. "Record" \in Context
  BY DEF Context
<1>3. \A i \in 1..n : conv[i] = ToType[typ(i)]
  BY <1>1 DEF Each
<1>4. \A i \in 1..n : conv[i]["Record"].ctx = "Record"
  BY <1>2, <1>3 DEF Kept, RightResult
<1>5. fs.failed \/ (/\ fs.vars = VarOf(conv, e.fields, FALSE, "Record")
                    /\ \A i \in 1..n : ~Failed(conv[i]["Record"].type))
  <2> HIDE DEF conv
  <2> QED BY <1>1, <1>4, VarsResult
<1>6. ToType[e][c] = IF fs.failed THEN Res(Err, c) ELSE Res(t, c)
  <2>1. ToType[e][c] = RecordTypeToStruct(ToType, e, c)
    BY HandleIs
  <2> QED BY <2>1 DEF RecordTypeToStruct
<1>7. CASE fs.failed
  <2>1. ToType[e][c] = Res(Err, c)
    BY <1>6, <1>7
  <2>2. Res(Err, c).ctx = c /\ Failed(Res(Err, c).type)
    BY DEF Res, Failed, Err
  <2> QED BY <2>1, <2>2 DEF RightResult
<1>8. CASE ~fs.failed
  <2>1. ToType[e][c] = Res(t, c)
    BY <1>6, <1>8
  <2>2. \A i \in 1..n : Right(typ(i), "Record", go(i))
    BY <1>2, <1>3, <1>5, <1>8 DEF Kept, RightResult
  <2>3. \A i \in 1..n : /\ IsLayout(CLayout[typ(i)])
                        /\ Expressible[typ(i)] => go(i).lay = CLayout[typ(i)]
    <3> SUFFICES ASSUME NEW i \in 1..n
                 PROVE  IsLayout(CLayout[typ(i)]) /\ (Expressible[typ(i)] => go(i).lay = CLayout[typ(i)])
      OBVIOUS
    <3>1. Right(typ(i), "Record", go(i)) /\ typ(i).k # "variadic"
      BY <1>1, <2>2
    <3> HIDE DEF typ, go
    <3> QED BY <3>1 DEF Right, Sized
  <2>4. fs.vars = [i \in 1..n |-> [named |-> e.fields[i].named \/ FALSE, type |-> go(i)]]
    BY <1>3, <1>5, <1>8 DEF VarOf
  <2> DEFINE vs == fs.vars
  <2> HIDE DEF go, conv, fs
  <2>5. DOMAIN vs = 1..n /\ \A i \in 1..n : vs[i].type = go(i)
    BY <2>4
  <2>6. (n = 0 => vs = <<>>) /\ (n # 0 => vs # <<>>)
    <3>1. vs = [i \in 1..n |-> vs[i]]
      BY <2>4
    <3>2. n # 0 => 1 \in DOMAIN vs
      BY <1>1, <2>5
    <3>3. vs = <<>> => 1 \notin DOMAIN vs
      OBVIOUS
    <3> HIDE DEF vs
    <3>4. n = 0 => vs = <<>>
      BY <3>1, NoVars
    <3> QED BY <3>2, <3>3, <3>4
  <2>7. t.k = "struct" /\ t.fields = F /\ t.lay = StructLayout(Members(F))
    BY DEF Struct
  <2>8. IsLayout(CLayout[e]) /\ \A i \in 1..n : IsLayout(CLayout[typ(i)])
    BY <2>3, RecordLayout
  <2>9. ASSUME Expressible[e], ~e.union PROVE t.lay = CLayout[e] /\ Members(t.fields) = CMembers(e)
    <3>1. FitsStruct(e) /\ \A i \in 1..n : Expressible[typ(i)]
      BY <2>9, RecordFits
    <3>2. \A i \in 1..n : vs[i].type.lay = CLayout[typ(i)]
      BY <2>3, <2>5, <3>1
    <3> HIDE DEF vs
    <3>3. Members(vs) = CMembers(e)
      BY <1>1, <2>5, <3>2 DEF Members, CMembers, Each
    <3>4. StructLayout(Members(vs)) = CLayout[e]
      BY <2>8, <2>9, <3>1, <3>3, StructKept
    <3>5. F = vs
      BY <2>9 DEF vs
    <3> QED BY <2>7, <3>3, <3>4, <3>5
  <2>10. ASSUME Expressible[e], e.union PROVE t.lay = CLayout[e]
    <3>1. FitsUnion(e) /\ \A i \in 1..n : Expressible[typ(i)]
      BY <2>10, RecordFits
    <3>2. \A i \in 1..n : vs[i].type.lay = CLayout[typ(i)]
      BY <2>3, <2>5, <3>1
    <3> HIDE DEF vs
    <3>3. StructLayout(Members(UnionOf(vs))) = CLayout[e]
      BY <2>5, <2>6, <2>8, <2>10, <3>1, <3>2, UnionKept
    <3>4. F = UnionOf(vs)
      BY <2>10 DEF vs
    <3> QED BY <2>7, <3>3, <3>4
  <2>11. Expressible[e] => t.lay = CLayout[e] /\ (~e.union => Members(t.fields) = CMembers(e))
    BY <1>1, <2>9, <2>10
  <2>12. t.k = "struct"
    BY <2>7
  <2> HIDE DEF t
  <2>13. Right(e, c, t)
    BY <2>8, <2>11, <2>12, NotVoid, NotBuiltin DEF Right
  <2> QED BY <2>1, <2>13 DEF RightResult, Res
<1> QED BY <1>7, <1>8

LEMMA KeptAll == \A e \in Expr : Kept(e)
<1> DEFINE T == {e \in Expr : Kept(e)}
<1>1. ASSUME NEW e \in Expr, \A d \in Expr : Depth[d] < Depth[e] => d \in T PROVE e \in T
  <2>0. \A d \in Expr : Depth[d] < Depth[e] => Kept(d)
    BY <1>1
  <2>1. e.k \in Kind
    BY Shapes
  <2>2. CASE e.k \in {"builtin", "ref", "variadic"}
    BY <2>2, BuiltinKept, RefKept, VariadicKept
  <2>3. CASE e.k = "ptr"
    BY <2>0, <2>3, PtrPart, PtrKept
  <2>4. CASE e.k = "array"
    BY <2>0, <2>4, ArrayPart, ArrayKept
  <2>5. CASE e.k = "func"
    <3>1. Kept(e.ret) /\ \A i \in 1..Len(e.params) : Kept(e.params[i].type)
      BY <2>0, <2>5, FuncPart
    <3> QED BY <2>5, <3>1, FuncKept
  <2>6. CASE e.k = "record"
    <3>1. \A i \in 1..Len(e.fields) : Kept(e.fields[i].type)
      BY <2>0, <2>6, RecordPart
    <3> QED BY <2>6, <3>1, RecordKept
  <2> QED BY <2>1, <2>2, <2>3, <2>4, <2>5, <2>6 DEF Kind
<1> HIDE DEF T
<1>2. Expr \subseteq T
  BY <1>1, OnExpr
<1> QED BY <1>2 DEF T

-----------------------------------------------------------------------------
(* The context between declarations is "Normal"; this makes both           *)
(* properties inductive.                                                   *)
IInv == left \in Seq(Decl) /\ ctx = "Normal" /\ LayoutKept /\ ParamsPassed

LEMMA Inductive == Spec => []IInv
<1>1. Init => IInv
  <2> SUFFICES ASSUME Init PROVE IInv
    OBVIOUS
  <2>1. left \in Seq(Decl) /\ ctx = "Normal"
    BY TypeConvAssumption DEF Init
  <2>2. expr = Builtin("void") /\ result = Basic("Void") /\ expr \in Expr
    BY TypeConvAssumption DEF Init
  <2>3. expr.k = "builtin" /\ expr.b = "void"
    BY <2>2 DEF Builtin
  <2>4. result.lay = CLayout[expr]
    <3>1. LayoutFrom(CLayout, expr) = [size |-> 0, align |-> 1]
      BY <2>3 DEF LayoutFrom, CBasic
    <3>2. CLayout[expr] = [size |-> 0, align |-> 1]
      BY <2>2, <3>1, LayoutIs
    <3>3. result.lay = [size |-> 0, align |-> 1]
      BY <2>2 DEF Basic, BasicLayout, GoBasic
    <3> QED BY <3>2, <3>3
  <2> QED BY <2>1, <2>3, <2>4 DEF IInv, LayoutKept, ParamsPassed
<1>2. ASSUME IInv, [Next]_vars PROVE IInv'
  <2> USE <1>2
  <2>1. CASE UNCHANGED vars
    BY <2>1 DEF IInv, LayoutKept, ParamsPassed, vars
  <2>2. CASE Terminated
    BY <2>2 DEF IInv, LayoutKept, ParamsPassed, vars, Terminated
  <2>3. ASSUME left # <<>> PROVE Head(left) \in Decl /\ Tail(left) \in Seq(Decl)
    BY <2>3 DEF IInv
  <2>4. CASE ConvertType
    <3> DEFINE e == Head(left).type
               r == ToType[e]["Normal"]
    <3>1. left # <<>> /\ left' = Tail(left) /\ result' = r.type /\ ctx' = r.ctx /\ expr' = e
      BY <2>4 DEF ConvertType, ConvertDecl, IInv
    <3>2. e \in Value /\ left' \in Seq(Decl)
      BY <2>3, <3>1 DEF Decl
    <3>3. e \in Expr /\ e.k # "variadic" /\ "Normal" \in Context
      BY <3>2, ValueExpr DEF Context
    <3>4. RightResult(e, "Normal", r)
      BY <3>3, KeptAll DEF Kept
    <3> HIDE DEF r
    <3>5. r.ctx = "Normal" /\ (Failed(r.type) \/ Right(e, "Normal", r.type))
      BY <3>4 DEF RightResult
    <3> HIDE DEF e
    <3>6. LayoutKept'
      <4>1. CASE Failed(r.type)
        BY <3>1, <4>1 DEF LayoutKept, Failed
      <4>2. CASE Right(e, "Normal", r.type)
        <5>1. Expressible[e] => r.type.lay = CLayout[e]
          BY <3>3, <4>2 DEF Right, Sized
        <5>2. e.k = "record" /\ ~e.union /\ Expressible[e] => Members(r.type.fields) = CMembers(e)
          BY <4>2 DEF Right
        <5> QED BY <3>1, <5>1, <5>2 DEF LayoutKept
      <4> QED BY <3>5, <4>1, <4>2
    <3>7. ParamsPassed'
      <4>1. CASE Failed(r.type)
        BY <3>1, <4>1 DEF ParamsPassed, Failed
      <4>2. CASE Right(e, "Normal", r.type)
        <5>1. e.k = "func" => Takes(Agrees, e, r.type)
          BY <4>2 DEF Right
        <5> QED BY <3>1, <5>1 DEF ParamsPassed
      <4> QED BY <3>5, <4>1, <4>2
    <3> QED BY <3>1, <3>2, <3>5, <3>6, <3>7 DEF IInv
  <2>5. CASE ConvertMethod
    <3> DEFINE d == Head(left)
               e == d.type
               m == [e EXCEPT !.params = Tail(@)]
               r == ToSignature(ToType, m, FALSE, "Normal")
    <3>1. d \in Decl /\ d.method /\ left # <<>> /\ left' = Tail(left) /\ left' \in Seq(Decl) /\ expr' = m
      BY <2>3, <2>5 DEF ConvertMethod, ConvertDecl
    <3>2. e \in Value /\ e.k = "func" /\ e.params # <<>>
      BY <3>1 DEF Decl
    <3>3. e \in Expr /\ WellFormed(e)
      BY <3>2, ValueExpr, TypeConvAssumption
    <3> HIDE DEF e
    <3>4. e = Func(e.params, e.ret) /\ e.params \in Seq(Member)
      BY <3>2, <3>3 DEF WellFormed
    <3>5. m.k = "func" /\ m.params = Tail(e.params) /\ m.ret = e.ret
      BY <3>4 DEF Func
    <3>6. r = ToSignature(ToType, e, TRUE, "Normal")
      <4> HIDE DEF m
      <4> QED BY <3>5 DEF ToSignature
    <3>7. result' = r.type /\ ctx' = r.ctx
      <4>1. /\ result' = ToSignature(ToType, e, TRUE, "Normal").type
            /\ ctx' = ToSignature(ToType, e, TRUE, "Normal").ctx
        BY <2>5 DEF ConvertMethod, ConvertDecl, IInv, e
      <4> QED BY <3>6, <4>1
    <3> HIDE DEF m, r, d
    <3>8. /\ m.params \in Seq(Member) /\ Len(m.params) = Len(e.params) - 1
          /\ \A i \in 1..Len(m.params) : m.params[i] = e.params[i + 1] /\ i + 1 \in 1..Len(e.params)
      BY <3>2, <3>4, <3>5
    <3>9. \A i \in 1..Len(e.params) - 1 : e.params[i].type \in Value
      BY <3>2, <3>3, FuncPart
    <3>10. FuncType(m)
      <4>1. ASSUME NEW i \in 1..Len(m.params) - 1 PROVE m.params[i].type \in Value
        <5>1. i \in 1..Len(m.params) /\ i + 1 \in 1..Len(e.params) - 1
          BY <3>4, <3>8
        <5> QED BY <3>8, <3>9, <5>1
      <4>2. m.ret \in Value
        BY <3>2, <3>3, <3>5, FuncPart
      <4> QED BY <3>5, <3>8, <4>1, <4>2 DEF FuncType
    <3>11. Kept(m.ret) /\ \A i \in 1..Len(m.params) : Kept(m.params[i].type)
      <4>1. e.ret \in Expr /\ \A i \in 1..Len(e.params) : e.params[i].type \in Expr
        BY <3>2, <3>3, FuncPart
      <4> QED BY <3>5, <3>8, <4>1, KeptAll
    <3>12. SigResult(m, "Normal", r)
      BY <3>10, <3>11, SignatureKept DEF r
    <3>13. LayoutKept' /\ ParamsPassed' /\ ctx' = "Normal"
      BY <3>1, <3>5, <3>7, <3>12 DEF SigResult, LayoutKept, ParamsPassed, Failed
    <3> QED BY <3>1, <3>13 DEF IInv
  <2> QED BY <2>1, <2>2, <2>4, <2>5 DEF Next
<1> QED BY <1>1, <1>2, PTL DEF Spec

(* Every type that Go can express has the size, the alignment and the      *)
(* field offsets of the C type: the handlers put the context of each       *)
(* declaration and field back, arrays become pointers in parameters and    *)
(* nowhere else, and a union keeps its largest member.                     *)
THEOREM LayoutKeptAlways == Spec => []LayoutKept
<1>1. IInv => LayoutKept
  BY DEF IInv
<1> QED BY <1>1, Inductive, PTL

(* Every function and method that is bound, and every function pointer     *)
(* among its parameters, takes what C passes it.                           *)
THEOREM ParamsPassedAlways == Spec => []ParamsPassed
<1>1. IInv => ParamsPassed
  BY DEF IInv
<1> QED BY <1>1, Inductive, PTL

-----------------------------------------------------------------------------
(* The lines of a Go file.  The invariant: each anchor begins where the    *)
(* one before it ends, and the cursor is where the last one ends.          *)
Ends(i) == anchors[i].pos + anchors[i].lines
WalkOK ==
  /\ phase \in {"walk", "written", "panic"}
  /\ decls \in Seq(GoDecl) /\ pending \in Seq(Nat)
  /\ next \in Nat /\ anchors \in Seq([pos : Nat, lines : Nat \ {0}])
  /\ lines \in Seq(Nat)
Cursor ==
  /\ Base <= next
  /\ \A i \in DOMAIN anchors : Base <= anchors[i].pos /\ Ends(i) <= next
  /\ anchors # <<>> => Ends(Len(anchors)) = next
Written == phase = "written" => Len(lines) = next - Base
WalkInv == WalkOK /\ Cursor /\ LinesKept /\ Written /\ phase # "panic"

(* The anchors of a declaration are line counts.                           *)
LEMMA AnchorsType == \A d \in GoDecl : Anchors(d) \in Seq(Nat)
<1> SUFFICES ASSUME NEW d \in GoDecl PROVE Anchors(d) \in Seq(Nat)
  OBVIOUS
<1>1. d.doc \in Seq(Nat) /\ Ifaces(d) \in Seq(Nat)
  BY DEF Ifaces, GoDecl
<1>2. <<1>> \in Seq(Nat) /\ <<1, 1>> \in Seq(Nat) /\ <<>> \in Seq(Nat)
  OBVIOUS
<1>3. <<1>> \o Ifaces(d) \in Seq(Nat)
  BY <1>1, <1>2
<1>4. (IF d.type THEN <<1>> \o Ifaces(d) ELSE <<>>) \in Seq(Nat)
  BY <1>2, <1>3
<1>5. (IF d.body THEN <<1, 1>> ELSE <<>>) \in Seq(Nat)
  BY <1>2
<1>6. (IF d.type THEN <<1>> \o Ifaces(d) ELSE <<>>)
         \o (IF d.body THEN <<1, 1>> ELSE <<>>) \in Seq(Nat)
  BY <1>4, <1>5
<1>7. (IF d.kind = "gen" THEN <<1>> \o Ifaces(d)
       ELSE (IF d.type THEN <<1>> \o Ifaces(d) ELSE <<>>)
            \o (IF d.body THEN <<1, 1>> ELSE <<>>)) \in Seq(Nat)
  BY <1>3, <1>6
<1> QED
  BY <1>1, <1>7 DEF Anchors

LEMMA InitWalkInv == ASSUME WriteInit PROVE WalkInv
<1>1. file.doc \in Seq(Nat) /\ file.decls \in Seq(GoDecl)
  BY GoWriteAssumption DEF WriteInit
<1>2. <<1>> \o file.doc \in Seq(Nat)
  BY <1>1
<1> QED
  BY <1>1, <1>2, GoWriteAssumption DEF WriteInit, WalkInv, WalkOK, Cursor, LinesKept, Written

(* The table anchorDecls makes is one SetLines accepts.                    *)
LEMMA TableOk ==
  ASSUME NEW n \in Nat
  PROVE  LET t == [i \in 1..n |-> i - 1]
         IN  t \in Seq(Nat) /\ Len(t) = n /\ SetLinesOk(t, n)
<1> DEFINE t == [i \in 1..n |-> i - 1]
<1>1. t \in Seq(Nat) /\ Len(t) = n
  OBVIOUS
<1>2. SetLinesOk(t, n)
  BY <1>1 DEF SetLinesOk
<1> QED
  BY <1>1, <1>2

LEMMA Appended ==
  ASSUME NEW S, NEW s \in Seq(S), NEW e \in S
  PROVE  /\ Append(s, e) \in Seq(S) /\ Len(s) \in Nat
         /\ Len(Append(s, e)) = Len(s) + 1
         /\ DOMAIN s = 1..Len(s) /\ DOMAIN Append(s, e) = 1..Len(s) + 1
         /\ \A i \in 1..Len(s) : Append(s, e)[i] = s[i] /\ s[i] \in S
         /\ Append(s, e)[Len(s) + 1] = e
  OBVIOUS

LEMMA AnchorWalkInv == ASSUME WalkInv, Anchor PROVE WalkInv'
<1> DEFINE a == [pos |-> next, lines |-> Head(pending)]
           n == Len(anchors)
<1>1. Head(pending) \in Nat \ {0} /\ Tail(pending) \in Seq(Nat)
  BY DEF WalkInv, WalkOK, Anchor
<1>2. /\ a \in [pos : Nat, lines : Nat \ {0}] /\ a.pos = next /\ a.lines = Head(pending)
      /\ anchors \in Seq([pos : Nat, lines : Nat \ {0}]) /\ next \in Nat
  BY <1>1 DEF WalkInv, WalkOK
<1>3. anchors' = Append(anchors, a) /\ next' = next + a.lines /\ phase' = phase
  BY <1>2 DEF Anchor
<1>4. Base \in Nat /\ Base <= next
  BY GoWriteAssumption DEF WalkInv, Cursor
<1> HIDE DEF a
<1>5. /\ anchors' \in Seq([pos : Nat, lines : Nat \ {0}]) /\ n \in Nat
      /\ Len(anchors') = n + 1
      /\ DOMAIN anchors = 1..n /\ DOMAIN anchors' = 1..n + 1
      /\ \A i \in 1..n : anchors'[i] = anchors[i]
      /\ \A i \in 1..n : anchors[i].pos \in Nat /\ anchors[i].lines \in Nat
      /\ anchors'[n + 1] = a
  <2> DEFINE R == [pos : Nat, lines : Nat \ {0}]
  <2>1. /\ Append(anchors, a) \in Seq(R) /\ Len(anchors) \in Nat
        /\ Len(Append(anchors, a)) = Len(anchors) + 1
        /\ DOMAIN anchors = 1..Len(anchors)
        /\ DOMAIN Append(anchors, a) = 1..Len(anchors) + 1
        /\ \A i \in 1..Len(anchors) : Append(anchors, a)[i] = anchors[i] /\ anchors[i] \in R
        /\ Append(anchors, a)[Len(anchors) + 1] = a
    <3>1. anchors \in Seq(R) /\ a \in R
      BY <1>2
    <3> HIDE DEF R
    <3> QED
      BY <3>1, Appended
  <2>2. \A r \in R : r.pos \in Nat /\ r.lines \in Nat
    OBVIOUS
  <2> HIDE DEF R
  <2>3. \A i \in 1..Len(anchors) : anchors[i].pos \in Nat /\ anchors[i].lines \in Nat
    BY <2>1, <2>2
  <2> QED
    BY <1>3, <2>1, <2>3 DEF n, R
<1> HIDE DEF n
<1>6. \A i \in 1..n : Base <= anchors[i].pos /\ anchors[i].pos + anchors[i].lines <= next
  BY <1>5 DEF WalkInv, Cursor, Ends
<1>7. n # 0 => anchors[n].pos + anchors[n].lines = next
  <2>1. n # 0 => anchors # <<>>
    BY <1>5
  <2> QED
    BY <2>1 DEF WalkInv, Cursor, Ends, n
<1>8. a.lines \in Nat /\ next' \in Nat /\ next <= next'
  BY <1>2, <1>3
<1>9. WalkOK'
  BY <1>1, <1>3, <1>5, <1>8 DEF WalkInv, WalkOK, Anchor
<1>10. Cursor'
  <2>1. ASSUME NEW i \in 1..n + 1
        PROVE  Base <= anchors'[i].pos /\ anchors'[i].pos + anchors'[i].lines <= next'
    <3>1. CASE i \in 1..n
      <4>1. /\ anchors'[i] = anchors[i] /\ Base <= anchors[i].pos
            /\ anchors[i].pos + anchors[i].lines <= next
            /\ anchors[i].pos \in Nat /\ anchors[i].lines \in Nat
        BY <1>5, <1>6, <3>1
      <4> QED
        BY <1>2, <1>4, <1>8, <4>1
    <3>2. CASE i = n + 1
      BY <1>2, <1>3, <1>4, <1>5, <1>8, <3>2
    <3> QED
      BY <1>5, <3>1, <3>2
  <2>2. anchors'[Len(anchors')].pos + anchors'[Len(anchors')].lines = next'
    BY <1>2, <1>3, <1>5
  <2>3. Base <= next'
    BY <1>2, <1>4, <1>8
  <2> QED
    BY <1>5, <2>1, <2>2, <2>3 DEF Cursor, Ends
<1>11. LinesKept'
  <2> SUFFICES ASSUME NEW i \in 1..n
               PROVE  anchors'[i + 1].pos = anchors'[i].pos + anchors'[i].lines
    <3>1. 1..Len(anchors') - 1 = 1..n
      BY <1>5
    <3> QED
      BY <3>1 DEF LinesKept
  <2>1. CASE i < n
    <3>1. i + 1 \in 1..n /\ i \in 1..n - 1
      BY <1>5, <2>1
    <3> QED
      BY <1>5, <3>1 DEF WalkInv, LinesKept, n
  <2>2. CASE i = n
    BY <1>2, <1>5, <1>7, <2>2
  <2> QED
    BY <1>5, <2>1, <2>2
<1> QED
  BY <1>3, <1>9, <1>10, <1>11 DEF WalkInv, Written, Anchor

LEMMA NextWalkInv == ASSUME WalkInv, [WriteNext]_writeVars PROVE WalkInv'
<1>1. CASE NextDecl
  <2>1. Head(decls) \in GoDecl /\ Tail(decls) \in Seq(GoDecl)
    BY <1>1 DEF WalkInv, WalkOK, NextDecl
  <2>2. Anchors(Head(decls)) \in Seq(Nat)
    BY <2>1, AnchorsType
  <2>3. WalkOK'
    BY <1>1, <2>1, <2>2 DEF WalkInv, WalkOK, NextDecl
  <2> QED
    BY <1>1, <2>3 DEF WalkInv, NextDecl, Cursor, LinesKept, Written, Ends
<1>2. CASE Skip
  <2>1. WalkOK'
    BY <1>2 DEF WalkInv, WalkOK, Skip
  <2> QED
    BY <1>2, <2>1 DEF WalkInv, Skip, Cursor, LinesKept, Written, Ends
<1>3. CASE Anchor
  BY <1>3, AnchorWalkInv
<1>4. CASE Register
  <2>1. next - Base \in Nat
    BY GoWriteAssumption DEF WalkInv, WalkOK, Cursor
  <2>2. /\ lines' \in Seq(Nat) /\ Len(lines') = next - Base
        /\ phase' = "written"
    BY <1>4, <2>1, TableOk DEF Register
  <2>3. UNCHANGED <<file, decls, pending, next, anchors>>
    BY <1>4 DEF Register
  <2>4. WalkOK'
    BY <2>2, <2>3 DEF WalkInv, WalkOK
  <2> QED
    BY <2>2, <2>3, <2>4 DEF WalkInv, Cursor, LinesKept, Written, Ends
<1>5. CASE UNCHANGED writeVars
  BY <1>5 DEF writeVars, WalkInv, WalkOK, Cursor, LinesKept, Written, Ends
<1> QED
  BY <1>1, <1>2, <1>3, <1>4, <1>5 DEF WriteNext, WriteDone

LEMMA WalkInductive == WriteSpec => []WalkInv
<1>1. WriteInit => WalkInv
  BY InitWalkInv
<1>2. WalkInv /\ [WriteNext]_writeVars => WalkInv'
  BY NextWalkInv
<1> QED
  BY <1>1, <1>2, PTL DEF WriteSpec

(* Comments keep their lines in every Go file: newPos and skipLines give   *)
(* each anchor the line after the one before it.                           *)
THEOREM LinesAlwaysKept == WriteSpec => []LinesKept
<1>1. WalkInv => LinesKept
  BY DEF WalkInv
<1> QED
  BY <1>1, WalkInductive, PTL

(* SetLines never refuses the table, and no anchor lies beyond it.         *)
THEOREM AlwaysInTable == WriteSpec => []InTable
<1>1. WalkInv => InTable
  <2> SUFFICES ASSUME WalkInv, phase = "written", NEW i \in DOMAIN anchors
               PROVE  Base <= anchors[i].pos /\ Ends(i) <= Base + Len(lines)
    BY DEF InTable, WalkInv, Ends
  <2>1. Len(lines) = next - Base /\ next \in Nat /\ Base \in Nat
    BY GoWriteAssumption DEF WalkInv, Written, WalkOK
  <2> QED
    BY <2>1 DEF WalkInv, Cursor
<1> QED
  BY <1>1, WalkInductive, PTL
=============================================================================
