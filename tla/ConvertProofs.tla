---------------------------- MODULE ConvertProofs ---------------------------
(***************************************************************************)
(* What holds of Convert for every value of its constants: the package     *)
(* stays well typed, a type is initialised in the Go file that declares    *)
(* it, and no two types share a Go name; in the second part, that a C name *)
(* becomes one Go type, tracked while it is incomplete and defined once;   *)
(* in the third, that no Go name is declared twice and llcppg.pub is true; *)
(* in the fourth, that a typedef is built after the type it names.         *)
(*                                                                         *)
(* The invariant is a predicate on package records, Sound, and there is    *)
(* one lemma for each method of Package: it keeps a sound package sound.   *)
(***************************************************************************)
EXTENDS ConvertSafety, TLAPS

Defs == {"undef", "struct", "opaque", "alias", "enum"}
Errs == {"none", "defined", "func", "method", "third", "redeclared", "redefined"}

(* s is a package record *)
IsPkg(s) ==
  s = [info |-> s.info, count |-> s.count, scope |-> s.scope, types |-> s.types,
       methods |-> s.methods, incs |-> s.incs, tracked |-> s.tracked, pubs |-> s.pubs,
       cur |-> s.cur, uses |-> s.uses, err |-> s.err]

CountOK(count) == \A g \in DOMAIN count : count[g] \in Nat \ {0}

ScopeOK(scope) == \A g \in DOMAIN scope : scope[g].node \in Node /\ scope[g].how \in {"decl", "subst"}

IsTypeDecl(t) ==
  /\ t = [go |-> t.go, file |-> t.file, def |-> t.def, inits |-> t.inits, of |-> t.of, at |-> t.at]
  /\ t.file \in GoFile /\ t.at \in GoFile /\ t.def \in Defs
  /\ t.inits \in Nat /\ t.of \in Node \cup {NoNode}

TypesOK(types) ==
  /\ types = [n \in DOMAIN types |-> types[n]]
  /\ DOMAIN types \subseteq Node
  /\ \A n \in DOMAIN types : IsTypeDecl(types[n])

(* The list and the map of incomplete types hold declared types only. *)
Entry == [node : Node, ref : CName \cup {NoName}]
ListOK(incs, types) ==
  /\ incs \in Seq(Entry)
  /\ \A i \in 1..Len(incs) : incs[i].node \in DOMAIN types
MapOK(tracked, types) ==
  /\ DOMAIN tracked \subseteq CName
  /\ \A c \in DOMAIN tracked : tracked[c] \in DOMAIN types

(* What the scope holds for a name that n declares. *)
Own(n) == [node |-> n, how |-> "decl"]

(* The Go name of a type is bound to that type and will not be substituted. *)
OwnName(types, scope) ==
  \A n \in DOMAIN types :
     /\ types[n].go \in DOMAIN scope
     /\ scope[types[n].go] = Own(n)

OwnFile(types) == \A n \in DOMAIN types : types[n].inits > 0 => types[n].at = types[n].file

Sound(s) ==
  /\ IsPkg(s)
  /\ DOMAIN s.info \subseteq Node /\ DOMAIN s.pubs \subseteq CName
  /\ CountOK(s.count) /\ ScopeOK(s.scope)
  /\ s.cur \in GoFile /\ s.err \in Errs
  /\ TypesOK(s.types) /\ OwnName(s.types, s.scope) /\ OwnFile(s.types)
  /\ ListOK(s.incs, s.types) /\ MapOK(s.tracked, s.types)

(* q is s with more declared: the current file is the same, a type that was *)
(* declared still is, where it was or in the current file, and no entry of  *)
(* the list of incomplete types is lost.                                    *)
Extends(s, q) ==
  /\ q.cur = s.cur
  /\ DOMAIN s.types \subseteq DOMAIN q.types
  /\ \A n \in DOMAIN s.types : q.types[n].file \in {s.types[n].file, s.cur}
  /\ \A i \in 1..Len(s.incs) : i \in 1..Len(q.incs)

LEMMA ExtendsRefl == \A s : Extends(s, s)
  BY DEF Extends

LEMMA ExtendsTrans ==
  ASSUME NEW s, NEW q, NEW r, Extends(s, q), Extends(q, r)
  PROVE  Extends(s, r)
  BY DEF Extends

-----------------------------------------------------------------------------
(* The helpers on Go maps, and what they preserve. *)

LEMMA BindDomain ==
  \A f, k, v, x : x \in DOMAIN Bind(f, k, v) <=> x \in DOMAIN f \/ x = k
  BY DEF Bind

LEMMA BindAt ==
  \A f, k, v : Bind(f, k, v)[k] = v /\ \A x \in DOMAIN f : x # k => Bind(f, k, v)[x] = f[x]
  BY DEF Bind

LEMMA UnbindDomain ==
  \A f, k, x : x \in DOMAIN Unbind(f, k) <=> x \in DOMAIN f /\ x # k
  BY DEF Unbind

LEMMA UnbindAt ==
  \A f, k : \A x \in DOMAIN f \ {k} : Unbind(f, k)[x] = f[x]
  BY DEF Unbind

LEMMA CountBind ==
  ASSUME NEW count, NEW g, NEW k \in Nat \ {0}, CountOK(count)
  PROVE  CountOK(Bind(count, g, k))
<1>1. ASSUME NEW x \in DOMAIN count \cup {g} PROVE Bind(count, g, k)[x] \in Nat \ {0}
  BY BindAt DEF CountOK
<1> QED BY <1>1, BindDomain DEF CountOK

LEMMA ScopeBind ==
  ASSUME NEW scope, NEW g, NEW node \in Node, NEW how \in {"decl", "subst"}, ScopeOK(scope)
  PROVE  ScopeOK(Bind(scope, g, [node |-> node, how |-> how]))
  BY DEF ScopeOK, Bind

LEMMA TypesBind ==
  ASSUME NEW types, NEW n \in Node, NEW t, IsTypeDecl(t), TypesOK(types)
  PROVE  TypesOK(Bind(types, n, t))
<1>1. DOMAIN Bind(types, n, t) \subseteq Node
  <2>1. DOMAIN types \subseteq Node
    BY DEF TypesOK
  <2> QED BY <2>1, BindDomain
<1>2. ASSUME NEW m \in DOMAIN Bind(types, n, t)
      PROVE  IsTypeDecl(Bind(types, n, t)[m])
  <2>1. CASE m = n
    BY <2>1, BindAt
  <2>2. CASE m # n
    BY <2>2, BindDomain, BindAt DEF TypesOK
  <2> QED BY <2>1, <2>2
<1>3. Bind(types, n, t) = [m \in DOMAIN Bind(types, n, t) |-> Bind(types, n, t)[m]]
  BY DEF Bind
<1> QED BY <1>1, <1>2, <1>3 DEF TypesOK

(* Pending entries stay declared as long as no type is lost. *)
LEMMA PendingMono ==
  ASSUME NEW incs, NEW tracked, NEW types, NEW more, DOMAIN types \subseteq DOMAIN more,
         ListOK(incs, types), MapOK(tracked, types)
  PROVE  ListOK(incs, more) /\ MapOK(tracked, more)
  BY DEF ListOK, MapOK

-----------------------------------------------------------------------------
(* The primitive updates of a package. *)

(* A registration changes the symbol table and nothing else. *)
LEMMA RegisterSound ==
  ASSUME NEW s, NEW node \in Node, NEW g, Sound(s)
  PROVE  /\ Sound(Register(s, node, g))
         /\ Extends(s, Register(s, node, g))
         /\ Register(s, node, g).tracked = s.tracked
         /\ Register(s, node, g).types = s.types
<1> DEFINE q == Register(s, node, g)
           k == Users(s, g) + 1
           v == SuffixCount(g, k)
<1>1. k \in Nat \ {0}
  BY DEF Users, Sound, CountOK
<1>2. q = [s EXCEPT !.count = Bind(s.count, g, k), !.info = Bind(s.info, node, v)]
  BY DEF Register
<1> HIDE DEF q, k, v
<1>3. /\ IsPkg(q) /\ q.types = s.types /\ q.tracked = s.tracked /\ q.scope = s.scope
      /\ q.cur = s.cur /\ q.incs = s.incs /\ q.pubs = s.pubs /\ q.err = s.err
  BY <1>2 DEF Sound, IsPkg
<1>4. q.count = Bind(s.count, g, k) /\ q.info = Bind(s.info, node, v)
  BY <1>2 DEF Sound, IsPkg
<1>5. CountOK(q.count)
  BY <1>1, <1>4, CountBind DEF Sound
<1>6. DOMAIN q.info \subseteq Node
  <2>1. q.info = Bind(s.info, node, v)
    BY <1>4
  <2> QED BY <2>1, BindDomain DEF Sound
<1>7. Sound(q)
  BY <1>3, <1>5, <1>6 DEF Sound
<1>8. Extends(s, q)
  BY <1>3 DEF Extends
<1> QED BY <1>3, <1>7, <1>8 DEF q

LEMMA CollectSound ==
  ASSUME NEW s, NEW c \in CName, NEW nm, Sound(s)
  PROVE  /\ Sound(CollectNameMapping(s, c, nm))
         /\ Extends(s, CollectNameMapping(s, c, nm))
         /\ CollectNameMapping(s, c, nm).tracked = s.tracked
<1> DEFINE v == IF c = nm THEN NoName ELSE nm
           q == [s EXCEPT !.pubs = Bind(s.pubs, c, v)]
<1>1. CASE c \in Private
  BY <1>1, ExtendsRefl DEF CollectNameMapping
<1>2. CASE c \notin Private
  <2>1. CollectNameMapping(s, c, nm) = q
    BY <1>2 DEF CollectNameMapping
  <2> HIDE DEF v
  <2>2. /\ IsPkg(q) /\ q.types = s.types /\ q.tracked = s.tracked /\ q.scope = s.scope
        /\ q.cur = s.cur /\ q.incs = s.incs /\ q.info = s.info /\ q.err = s.err
        /\ q.count = s.count
    BY DEF Sound, IsPkg
  <2>3. q.pubs = Bind(s.pubs, c, v)
    BY DEF Sound, IsPkg
  <2> HIDE DEF q
  <2>4. DOMAIN q.pubs \subseteq CName
    <3>1. DOMAIN s.pubs \subseteq CName
      BY DEF Sound
    <3> QED BY <2>3, <3>1, BindDomain
  <2>5. Sound(q)
    BY <2>2, <2>4 DEF Sound
  <2> QED BY <2>1, <2>2, <2>5 DEF Extends
<1> QED BY <1>1, <1>2

LEMMA FailSound ==
  ASSUME NEW s, NEW e \in Errs \ {"none"}, Sound(s)
  PROVE  Sound(Fail(s, e)) /\ Extends(s, Fail(s, e)) /\ Failed(Fail(s, e))
<1> DEFINE q == Fail(s, e)
<1>1. q = [s EXCEPT !.err = e]
  BY DEF Fail
<1> HIDE DEF q
<1>2. /\ IsPkg(q) /\ q.info = s.info /\ q.count = s.count /\ q.scope = s.scope /\ q.types = s.types
      /\ q.incs = s.incs /\ q.tracked = s.tracked /\ q.pubs = s.pubs /\ q.cur = s.cur /\ q.err = e
  BY <1>1 DEF Sound, IsPkg
<1>3. Sound(q)
  BY <1>2 DEF Sound
<1> QED BY <1>2, <1>3 DEF Extends, Failed, q

(* A new name is bound to its node, and no type loses its name to it. *)
LEMMA InsertSound ==
  ASSUME NEW s, NEW node \in Node, NEW nm, Sound(s)
  PROVE  /\ Sound(Insert(s, nm, node)) /\ Extends(s, Insert(s, nm, node))
         /\ ~Failed(Insert(s, nm, node)) =>
              /\ nm \in DOMAIN Insert(s, nm, node).scope
              /\ Insert(s, nm, node).scope[nm] = Own(node)
              /\ Insert(s, nm, node).types = s.types
<1> DEFINE obj == [node |-> node, how |-> "decl"]
           q == [s EXCEPT !.scope = Bind(s.scope, nm, obj)]
<1>1. CASE nm \in DOMAIN s.scope
  <2>1. Insert(s, nm, node) = Fail(s, "redeclared")
    BY <1>1 DEF Insert
  <2>2. "redeclared" \in Errs \ {"none"}
    BY DEF Errs
  <2> QED BY <2>1, <2>2, FailSound
<1>2. CASE nm \notin DOMAIN s.scope
  <2>1. Insert(s, nm, node) = q
    BY <1>2 DEF Insert
  <2> HIDE DEF obj
  <2>2. /\ IsPkg(q) /\ q.info = s.info /\ q.count = s.count /\ q.types = s.types
        /\ q.incs = s.incs /\ q.tracked = s.tracked /\ q.pubs = s.pubs /\ q.cur = s.cur
        /\ q.err = s.err /\ q.scope = Bind(s.scope, nm, obj)
    BY DEF Sound, IsPkg
  <2> HIDE DEF q
  <2>3. ScopeOK(q.scope)
    BY <2>2, ScopeBind DEF Sound, obj
  <2>4. OwnName(q.types, q.scope)
    <3>1. ASSUME NEW n \in DOMAIN s.types
          PROVE  /\ s.types[n].go \in DOMAIN s.scope
                 /\ s.scope[s.types[n].go] = Own(n)
      BY DEF Sound, OwnName
    <3>2. ASSUME NEW n \in DOMAIN s.types
          PROVE  /\ s.types[n].go \in DOMAIN q.scope
                 /\ q.scope[s.types[n].go] = s.scope[s.types[n].go]
      BY <3>1, <2>2, <1>2, BindDomain, BindAt
    <3>3. OwnName(s.types, q.scope)
      BY <3>1, <3>2, Zenon DEF OwnName
    <3>4. q.types = s.types
      BY <2>2
    <3> QED BY <3>3, <3>4
  <2>5. Sound(q)
    BY <2>2, <2>3, <2>4 DEF Sound
  <2>6. Extends(s, q)
    BY <2>2 DEF Extends
  <2>7. nm \in DOMAIN q.scope /\ q.scope[nm] = obj
    BY <2>2, BindDomain, BindAt
  <2> QED BY <2>1, <2>2, <2>5, <2>6, <2>7 DEF obj, Own
<1> QED BY <1>1, <1>2

(* Substitution never touches the Go name of a type. *)
LEMMA SubstSound ==
  ASSUME NEW s, NEW node \in Node, NEW c, Sound(s)
  PROVE  /\ Sound(SubstObj(s, c, node)) /\ Extends(s, SubstObj(s, c, node))
         /\ SubstObj(s, c, node).types = s.types
         /\ SubstObj(s, c, node).tracked = s.tracked
<1> DEFINE obj == [node |-> node, how |-> "subst"]
           q == [s EXCEPT !.scope = Bind(s.scope, c, obj)]
<1>1. CASE Failed(s)
  BY <1>1, ExtendsRefl DEF SubstObj
<1>2. CASE ~Failed(s) /\ c \in DOMAIN s.scope /\ s.scope[c].how = "decl"
  <2>1. SubstObj(s, c, node) = Fail(s, "redefined")
    BY <1>2 DEF SubstObj
  <2>2. "redefined" \in Errs \ {"none"}
    BY DEF Errs
  <2>3. Fail(s, "redefined").types = s.types /\ Fail(s, "redefined").tracked = s.tracked
    BY DEF Fail, Sound, IsPkg
  <2> QED BY <2>1, <2>2, <2>3, FailSound
<1>3. CASE ~Failed(s) /\ ~(c \in DOMAIN s.scope /\ s.scope[c].how = "decl")
  <2>1. SubstObj(s, c, node) = q
    BY <1>3 DEF SubstObj
  <2> HIDE DEF obj
  <2>2. /\ IsPkg(q) /\ q.info = s.info /\ q.count = s.count /\ q.types = s.types
        /\ q.incs = s.incs /\ q.tracked = s.tracked /\ q.pubs = s.pubs /\ q.cur = s.cur
        /\ q.err = s.err /\ q.scope = Bind(s.scope, c, obj)
    BY DEF Sound, IsPkg
  <2> HIDE DEF q
  <2>3. ScopeOK(q.scope)
    BY <2>2, ScopeBind DEF Sound, obj
  <2>4. OwnName(q.types, q.scope)
    <3>1. ASSUME NEW n \in DOMAIN s.types
          PROVE  /\ s.types[n].go \in DOMAIN s.scope
                 /\ s.scope[s.types[n].go] = Own(n)
      BY DEF Sound, OwnName
    <3>2. ASSUME NEW n \in DOMAIN s.types PROVE s.types[n].go # c
      <4>1. s.scope[s.types[n].go].how = "decl"
        <5>1. s.scope[s.types[n].go] = Own(n)
          BY <3>1
        <5>2. Own(n).how = "decl"
          BY DEF Own
        <5> QED BY <5>1, <5>2
      <4> QED BY <3>1, <4>1, <1>3, Zenon
    <3>3. ASSUME NEW n \in DOMAIN s.types
          PROVE  /\ s.types[n].go \in DOMAIN q.scope
                 /\ q.scope[s.types[n].go] = s.scope[s.types[n].go]
      BY <3>1, <3>2, <2>2, BindDomain, BindAt
    <3>4. OwnName(s.types, q.scope)
      BY <3>1, <3>3, Zenon DEF OwnName
    <3>5. q.types = s.types
      BY <2>2
    <3> QED BY <3>4, <3>5
  <2>5. Sound(q)
    BY <2>2, <2>3, <2>4 DEF Sound
  <2>6. Extends(s, q)
    BY <2>2 DEF Extends
  <2> QED BY <2>1, <2>2, <2>5, <2>6
<1> QED BY <1>1, <1>2, <1>3

(* A declared type has its own Go name and lives in the current file. *)
LEMMA EmptyTypeDeclSound ==
  ASSUME NEW s, NEW node \in Node, NEW nm, Sound(s)
  PROVE  /\ Sound(EmptyTypeDecl(s, nm, node)) /\ Extends(s, EmptyTypeDecl(s, nm, node))
         /\ ~Failed(EmptyTypeDecl(s, nm, node)) =>
              /\ node \in DOMAIN EmptyTypeDecl(s, nm, node).types
              /\ EmptyTypeDecl(s, nm, node).types[node].file = s.cur
<1> DEFINE i == Insert(s, nm, node)
           t == [go |-> nm, file |-> s.cur, def |-> "undef", inits |-> 0, of |-> NoNode, at |-> s.cur]
           q == [i EXCEPT !.types = Bind(i.types, node, t)]
<1>1. Sound(i) /\ Extends(s, i)
  BY InsertSound
<1>2. CASE Failed(i)
  BY <1>1, <1>2 DEF EmptyTypeDecl
<1>3. CASE ~Failed(i)
  <2>1. EmptyTypeDecl(s, nm, node) = q
    BY <1>3 DEF EmptyTypeDecl
  <2>2. nm \in DOMAIN i.scope /\ i.scope[nm] = Own(node)
    BY <1>3, InsertSound
  <2> HIDE DEF i
  <2>3. IsTypeDecl(t) /\ t.go = nm /\ t.inits = 0 /\ t.file = s.cur
    BY <1>1 DEF IsTypeDecl, Sound, Defs
  <2> HIDE DEF t
  <2>4. /\ IsPkg(q) /\ q.info = i.info /\ q.count = i.count /\ q.scope = i.scope
        /\ q.incs = i.incs /\ q.tracked = i.tracked /\ q.pubs = i.pubs /\ q.cur = i.cur
        /\ q.err = i.err /\ q.types = Bind(i.types, node, t)
    BY <1>1 DEF Sound, IsPkg
  <2> HIDE DEF q
  <2>5. TypesOK(q.types)
    BY <1>1, <2>3, <2>4, TypesBind DEF Sound
  <2>6. DOMAIN i.types \subseteq DOMAIN q.types /\ node \in DOMAIN q.types /\ q.types[node] = t
    BY <2>4, BindDomain, BindAt
  <2>7. ASSUME NEW n \in DOMAIN q.types, n # node
        PROVE  n \in DOMAIN i.types /\ q.types[n] = i.types[n]
    BY <2>4, <2>7, BindDomain, BindAt
  <2>8. OwnName(q.types, q.scope)
    <3>1. OwnName(i.types, i.scope)
      BY <1>1 DEF Sound
    <3> QED BY <3>1, <2>2, <2>3, <2>4, <2>6, <2>7 DEF OwnName
  <2>9. OwnFile(q.types)
    <3>1. OwnFile(i.types)
      BY <1>1 DEF Sound
    <3> QED BY <3>1, <2>3, <2>6, <2>7 DEF OwnFile
  <2>10. ListOK(q.incs, q.types) /\ MapOK(q.tracked, q.types)
    BY <1>1, <2>4, <2>6, PendingMono DEF Sound
  <2>11. Sound(q)
    BY <1>1, <2>4, <2>5, <2>8, <2>9, <2>10 DEF Sound
  <2>12. Extends(i, q)
    <3>1. i.cur = s.cur
      BY <1>1 DEF Extends
    <3> QED BY <3>1, <2>3, <2>4, <2>6, <2>7 DEF Extends
  <2>13. Extends(s, q)
    BY <1>1, <2>12, ExtendsTrans
  <2>14. q.types[node].file = s.cur
    BY <2>3, <2>6
  <2> QED BY <2>1, <2>6, <2>11, <2>13, <2>14
<1> QED BY <1>2, <1>3

(* Changing what Sound does not speak of, or the current file, is harmless. *)
LEMMA UsesSound ==
  ASSUME NEW s, NEW uses, Sound(s)
  PROVE  /\ Sound([s EXCEPT !.uses = uses]) /\ Extends(s, [s EXCEPT !.uses = uses])
         /\ [s EXCEPT !.uses = uses].scope = s.scope
         /\ [s EXCEPT !.uses = uses].tracked = s.tracked
<1> DEFINE q == [s EXCEPT !.uses = uses]
<1>1. /\ IsPkg(q) /\ q.info = s.info /\ q.count = s.count /\ q.scope = s.scope /\ q.types = s.types
      /\ q.incs = s.incs /\ q.tracked = s.tracked /\ q.pubs = s.pubs /\ q.cur = s.cur /\ q.err = s.err
  BY DEF Sound, IsPkg
<1> HIDE DEF q
<1>2. Sound(q) /\ Extends(s, q)
  BY <1>1 DEF Sound, Extends
<1> QED BY <1>1, <1>2 DEF q

LEMMA MethodsSound ==
  ASSUME NEW s, NEW methods, Sound(s)
  PROVE  Sound([s EXCEPT !.methods = methods])
<1> DEFINE q == [s EXCEPT !.methods = methods]
<1>1. /\ IsPkg(q) /\ q.info = s.info /\ q.count = s.count /\ q.scope = s.scope /\ q.types = s.types
      /\ q.incs = s.incs /\ q.tracked = s.tracked /\ q.pubs = s.pubs /\ q.cur = s.cur /\ q.err = s.err
  BY DEF Sound, IsPkg
<1> HIDE DEF q
<1>2. Sound(q)
  BY <1>1 DEF Sound
<1> QED BY <1>2 DEF q

LEMMA CurSound ==
  ASSUME NEW s, NEW f \in GoFile, Sound(s)
  PROVE  /\ Sound([s EXCEPT !.cur = f])
         /\ [s EXCEPT !.cur = f].cur = f
         /\ [s EXCEPT !.cur = f].types = s.types
         /\ [s EXCEPT !.cur = f].incs = s.incs
<1> DEFINE q == [s EXCEPT !.cur = f]
<1>1. /\ IsPkg(q) /\ q.info = s.info /\ q.count = s.count /\ q.scope = s.scope /\ q.types = s.types
      /\ q.incs = s.incs /\ q.tracked = s.tracked /\ q.pubs = s.pubs /\ q.cur = f /\ q.err = s.err
  BY DEF Sound, IsPkg
<1> HIDE DEF q
<1>2. Sound(q)
  BY <1>1 DEF Sound
<1> QED BY <1>1, <1>2 DEF q

LEMMA RestoreSound ==
  ASSUME NEW s, NEW node \in DOMAIN s.types, Sound(s)
  PROVE  /\ Sound(RestoreFile(s, node))
         /\ RestoreFile(s, node).cur = s.types[node].file
         /\ RestoreFile(s, node).types = s.types
         /\ RestoreFile(s, node).incs = s.incs
<1>1. s.types[node].file \in GoFile
  BY DEF Sound, TypesOK, IsTypeDecl
<1> QED BY <1>1, CurSound DEF RestoreFile

LEMMA CompleteSound ==
  ASSUME NEW s, NEW c, Sound(s)
  PROVE  Sound(Complete(s, c))
<1> DEFINE q == [s EXCEPT !.tracked = Unbind(s.tracked, c)]
<1>1. /\ IsPkg(q) /\ q.info = s.info /\ q.count = s.count /\ q.scope = s.scope /\ q.types = s.types
      /\ q.incs = s.incs /\ q.pubs = s.pubs /\ q.cur = s.cur /\ q.err = s.err
  BY DEF Sound, IsPkg
<1>2. q.tracked = Unbind(s.tracked, c)
  BY DEF Sound, IsPkg
<1>3. Complete(s, c) = q
  BY DEF Complete
<1> HIDE DEF q
<1>4. MapOK(q.tracked, q.types)
  <2>1. MapOK(s.tracked, s.types)
    BY DEF Sound
  <2> QED BY <2>1, <1>1, <1>2, UnbindDomain, UnbindAt DEF MapOK
<1>5. Sound(q)
  BY <1>1, <1>4 DEF Sound
<1> QED BY <1>3, <1>5

LEMMA ClearSound ==
  ASSUME NEW s, Sound(s)
  PROVE  Sound(Clear(s))
<1> DEFINE r == [s EXCEPT !.incs = <<>>]
           q == [r EXCEPT !.tracked = Empty]
<1>0. /\ IsPkg(r) /\ r.info = s.info /\ r.count = s.count /\ r.scope = s.scope /\ r.types = s.types
      /\ r.incs = <<>> /\ r.pubs = s.pubs /\ r.cur = s.cur /\ r.err = s.err
  BY DEF Sound, IsPkg
<1>4. Clear(s) = q
  BY DEF Clear
<1> HIDE DEF r
<1>1. /\ IsPkg(q) /\ q.info = s.info /\ q.count = s.count /\ q.scope = s.scope /\ q.types = s.types
      /\ q.incs = <<>> /\ q.tracked = Empty /\ q.pubs = s.pubs /\ q.cur = s.cur /\ q.err = s.err
  BY <1>0 DEF IsPkg
<1> HIDE DEF q
<1>2. ListOK(q.incs, q.types) /\ MapOK(q.tracked, q.types)
  BY <1>1 DEF ListOK, MapOK, Empty
<1>3. Sound(q)
  BY <1>1, <1>2 DEF Sound
<1> QED BY <1>3, <1>4

(* A declared type becomes pending under its C name. *)
LEMMA AddIncompleteSound ==
  ASSUME NEW s, NEW node \in Node, node.name \in CName, NEW ref \in CName \cup {NoName},
         Sound(s), ~Failed(s) => node \in DOMAIN s.types
  PROVE  /\ Sound(AddIncomplete(s, node, ref)) /\ Extends(s, AddIncomplete(s, node, ref))
         /\ ~Failed(AddIncomplete(s, node, ref)) =>
               node.name \in DOMAIN AddIncomplete(s, node, ref).tracked
<1> DEFINE e == [node |-> node, ref |-> ref]
           l == Append(s.incs, e)
           r == [s EXCEPT !.incs = l]
           q == [r EXCEPT !.tracked = Bind(s.tracked, node.name, node)]
<1>1. CASE Failed(s)
  BY <1>1, ExtendsRefl DEF AddIncomplete
<1>2. CASE ~Failed(s)
  <2>1. AddIncomplete(s, node, ref) = q
    BY <1>2 DEF AddIncomplete
  <2>2. e \in Entry /\ e.node = node
    BY DEF Entry
  <2> HIDE DEF e, l
  <2>0. /\ IsPkg(r) /\ r.info = s.info /\ r.count = s.count /\ r.scope = s.scope /\ r.types = s.types
        /\ r.pubs = s.pubs /\ r.cur = s.cur /\ r.err = s.err /\ r.incs = l
    BY DEF Sound, IsPkg
  <2> HIDE DEF r
  <2>3. /\ IsPkg(q) /\ q.info = s.info /\ q.count = s.count /\ q.scope = s.scope /\ q.types = s.types
        /\ q.pubs = s.pubs /\ q.cur = s.cur /\ q.err = s.err
    BY <2>0 DEF IsPkg
  <2>4. q.incs = l /\ q.tracked = Bind(s.tracked, node.name, node)
    BY <2>0 DEF IsPkg
  <2> HIDE DEF q
  <2>5. ListOK(q.incs, s.types)
    <3>1. ListOK(s.incs, s.types)
      BY DEF Sound
    <3>2. ListOK(l, s.types)
      BY <3>1, <2>2, <1>2 DEF ListOK, l
    <3> QED BY <3>2, <2>4
  <2>6. MapOK(q.tracked, s.types)
    <3>1. MapOK(s.tracked, s.types)
      BY DEF Sound
    <3> QED BY <3>1, <2>4, <1>2, BindDomain, BindAt DEF MapOK
  <2>7. Sound(q)
    BY <2>3, <2>5, <2>6 DEF Sound
  <2>8. Extends(s, q)
    <3>1. \A i \in 1..Len(s.incs) : i \in 1..Len(l)
      BY DEF l, Sound, ListOK
    <3> QED BY <3>1, <2>3, <2>4 DEF Extends
  <2>9. node.name \in DOMAIN q.tracked
    BY <2>4, BindDomain
  <2> QED BY <2>1, <2>7, <2>8, <2>9
<1> QED BY <1>1, <1>2

(* Initialisation happens in the current file, which must be the type's. *)
LEMMA InitTypeSound ==
  ASSUME NEW s, NEW node, NEW def \in Defs, NEW of, Sound(s),
         ~Failed(s) => /\ node \in DOMAIN s.types /\ s.types[node].file = s.cur
                       /\ of \in Node \cup {NoNode}
  PROVE  Sound(InitType(s, node, def, of)) /\ InitType(s, node, def, of).incs = s.incs
<1> DEFINE o == s.types[node]
           t == [go |-> o.go, file |-> o.file, def |-> def, inits |-> o.inits + 1, of |-> of,
                 at |-> s.cur]
           types == Bind(s.types, node, t)
           q == [s EXCEPT !.types = types]
<1>1. CASE Failed(s)
  BY <1>1 DEF InitType
<1>2. CASE ~Failed(s)
  <2>1. InitType(s, node, def, of) = q
    BY <1>2 DEF InitType
  <2>2. IsTypeDecl(s.types[node]) /\ s.cur \in GoFile
    BY <1>2 DEF Sound, TypesOK
  <2>3. IsTypeDecl(t) /\ t.go = s.types[node].go /\ t.at = t.file
    BY <2>2, <1>2 DEF IsTypeDecl
  <2> HIDE DEF t
  <2>4. DOMAIN s.types \subseteq DOMAIN types /\ types[node] = t
    BY BindDomain, BindAt
  <2>5. ASSUME NEW n \in DOMAIN types, n # node
        PROVE  n \in DOMAIN s.types /\ types[n] = s.types[n]
    BY <2>5, BindDomain, BindAt
  <2>6. TypesOK(types)
    BY <1>2, <2>3, TypesBind DEF Sound, TypesOK
  <2> HIDE DEF types
  <2>7. /\ IsPkg(q) /\ q.info = s.info /\ q.count = s.count /\ q.scope = s.scope
        /\ q.incs = s.incs /\ q.tracked = s.tracked
        /\ q.pubs = s.pubs /\ q.cur = s.cur /\ q.err = s.err
        /\ q.types = types
    BY DEF Sound, IsPkg
  <2> HIDE DEF q
  <2>8. OwnName(types, s.scope)
    <3>1. OwnName(s.types, s.scope)
      BY DEF Sound
    <3>2. node \in DOMAIN s.types
      BY <1>2
    <3> QED BY <3>1, <3>2, <2>3, <2>4, <2>5 DEF OwnName
  <2>9. OwnFile(types)
    <3>1. OwnFile(s.types)
      BY DEF Sound
    <3> QED BY <3>1, <2>3, <2>4, <2>5 DEF OwnFile
  <2>10. ListOK(s.incs, types) /\ MapOK(s.tracked, types)
    BY <2>4, PendingMono DEF Sound
  <2>11. Sound(q)
    BY <2>6, <2>7, <2>8, <2>9, <2>10 DEF Sound
  <2> QED BY <2>1, <2>7, <2>11
<1> QED BY <1>1, <1>2

-----------------------------------------------------------------------------
(* Registration and references. *)

LEMMA TypeNodeFacts ==
  \A c \in CName : TypeNode(c) \in Node /\ TypeNode(c).name = c
  BY DEF TypeNode, Node, Kind

LEMMA RegisterNodeSound ==
  ASSUME NEW s, NEW node \in Node, NEW g, NEW origin, Sound(s)
  PROVE  /\ Sound(RegisterNode(s, node, g, origin).pkg)
         /\ Extends(s, RegisterNode(s, node, g, origin).pkg)
<1>1. CASE node \in DOMAIN s.info
  <2>1. RegisterNode(s, node, g, origin).pkg = s
    BY <1>1 DEF RegisterNode
  <2> QED BY <2>1, ExtendsRefl
<1>2. CASE node \notin DOMAIN s.info
  <2>1. RegisterNode(s, node, g, origin).pkg = Register(s, node, g)
    BY <1>2 DEF RegisterNode
  <2> QED BY <2>1, RegisterSound
<1> QED BY <1>1, <1>2

LEMMA ImplicitSound ==
  ASSUME NEW s, NEW c \in CName, Sound(s)
  PROVE  /\ Sound(ImplicitForwardDecl(s, c)) /\ Extends(s, ImplicitForwardDecl(s, c))
         /\ ~Failed(ImplicitForwardDecl(s, c)) => c \in DOMAIN ImplicitForwardDecl(s, c).tracked
<1> DEFINE n == TypeNode(c)
           r == RegisterNode(s, n, TypeGo[c], TRUE)
           d == EmptyTypeDecl(r.pkg, r.name, n)
           q == AddIncomplete(d, n, NoName)
<1>1. CASE c \in DOMAIN s.tracked
  BY <1>1, ExtendsRefl DEF ImplicitForwardDecl
<1>2. CASE c \notin DOMAIN s.tracked
  <2>1. ImplicitForwardDecl(s, c) = q
    BY <1>2 DEF ImplicitForwardDecl
  <2>2. n \in Node /\ n.name = c
    BY TypeNodeFacts
  <2>3. Sound(r.pkg) /\ Extends(s, r.pkg)
    BY <2>2, RegisterNodeSound
  <2>4. Sound(d) /\ Extends(r.pkg, d) /\ (~Failed(d) => n \in DOMAIN d.types)
    BY <2>2, <2>3, EmptyTypeDeclSound
  <2>5. Sound(q) /\ Extends(d, q) /\ (~Failed(q) => c \in DOMAIN q.tracked)
    BY <2>2, <2>4, AddIncompleteSound
  <2>6. Extends(s, q)
    BY <2>3, <2>4, <2>5, ExtendsTrans
  <2> QED BY <2>1, <2>5, <2>6
<1> QED BY <1>1, <1>2

LEMMA LookupTypeSound ==
  ASSUME NEW s, NEW c \in CName, NEW third, Sound(s)
  PROVE  /\ Sound(LookupType(s, c, third)) /\ Extends(s, LookupType(s, c, third))
         /\ ~Failed(LookupType(s, c, third)) => Target(LookupType(s, c, third), c) \in Node
<1> DEFINE q == IF c \in DOMAIN s.scope THEN s
                ELSE IF c \in third THEN Fail(s, "third")
                ELSE ImplicitForwardDecl(s, c)
           uses == q.uses \cup {[name |-> c, node |-> Target(q, c)]}
           u == [q EXCEPT !.uses = uses]
<1>1. CASE Failed(s)
  BY <1>1, ExtendsRefl DEF LookupType
<1>2. CASE ~Failed(s)
  <2>1. /\ Sound(q) /\ Extends(s, q)
        /\ ~Failed(q) => c \in DOMAIN q.scope \/ c \in DOMAIN q.tracked
    <3>1. CASE c \in DOMAIN s.scope
      BY <3>1, ExtendsRefl
    <3>2. CASE c \notin DOMAIN s.scope /\ c \in third
      BY <3>2, FailSound DEF Errs
    <3>3. CASE c \notin DOMAIN s.scope /\ c \notin third
      BY <3>3, ImplicitSound
    <3> QED BY <3>1, <3>2, <3>3
  <2>2. LookupType(s, c, third) = IF Failed(q) THEN q ELSE u
    BY <1>2 DEF LookupType
  <2> HIDE DEF q
  <2>3. CASE Failed(q)
    BY <2>1, <2>2, <2>3
  <2>4. CASE ~Failed(q)
    <3>1. /\ Sound(u) /\ Extends(q, u) /\ u.scope = q.scope /\ u.tracked = q.tracked
      BY <2>1, UsesSound
    <3>2. Target(u, c) \in Node
      <4>1. CASE c \in DOMAIN q.scope
        <5>1. u.scope[c].node \in Node
          BY <4>1, <3>1, <2>1 DEF Sound, ScopeOK
        <5> QED BY <5>1, <3>1, <4>1 DEF Target
      <4>2. CASE c \notin DOMAIN q.scope
        <5>1. c \in DOMAIN u.tracked
          BY <4>2, <3>1, <2>1, <2>4
        <5>2. u.tracked[c] \in Node
          BY <5>1, <3>1 DEF Sound, MapOK, TypesOK
        <5> QED BY <5>2, <3>1, <4>2 DEF Target
      <4> QED BY <4>1, <4>2
    <3>3. Extends(s, u)
      BY <2>1, <3>1, ExtendsTrans
    <3> QED BY <2>2, <2>4, <3>1, <3>2, <3>3
  <2> QED BY <2>3, <2>4
<1> QED BY <1>1, <1>2

RefsOK(refs) ==
  /\ DOMAIN refs \in {{}, {1}, {1, 2}}
  /\ \A i \in DOMAIN refs : refs[i] \in CName

LEMMA ConvertRefsSound ==
  ASSUME NEW s, NEW refs, RefsOK(refs), NEW third, Sound(s)
  PROVE  /\ Sound(ConvertRefs(s, refs, third)) /\ Extends(s, ConvertRefs(s, refs, third))
         /\ DOMAIN refs = {1} /\ ~Failed(ConvertRefs(s, refs, third)) =>
              Target(ConvertRefs(s, refs, third), refs[1]) \in Node
<1>1. CASE DOMAIN refs = {}
  <2>1. ConvertRefs(s, refs, third) = s
    BY <1>1 DEF ConvertRefs
  <2>2. DOMAIN refs # {1}
    BY <1>1
  <2> QED BY <2>1, <2>2, ExtendsRefl
<1>2. CASE DOMAIN refs = {1}
  <2>1. ConvertRefs(s, refs, third) = LookupType(s, refs[1], third)
    BY <1>2 DEF ConvertRefs
  <2>2. refs[1] \in CName
    BY <1>2 DEF RefsOK
  <2> QED BY <2>1, <2>2, LookupTypeSound
<1>3. CASE DOMAIN refs = {1, 2}
  <2> DEFINE q == LookupType(s, refs[1], third)
  <2>1. ConvertRefs(s, refs, third) = LookupType(q, refs[2], third)
    BY <1>3 DEF ConvertRefs
  <2>2. refs[1] \in CName /\ refs[2] \in CName /\ DOMAIN refs # {1}
    BY <1>3 DEF RefsOK
  <2>3. Sound(q) /\ Extends(s, q)
    BY <2>2, LookupTypeSound
  <2> HIDE DEF q
  <2>4. Sound(LookupType(q, refs[2], third)) /\ Extends(q, LookupType(q, refs[2], third))
    BY <2>2, <2>3, LookupTypeSound
  <2> QED BY <2>1, <2>2, <2>3, <2>4, ExtendsTrans
<1> QED BY <1>1, <1>2, <1>3 DEF RefsOK

-----------------------------------------------------------------------------
(* The declarations. *)

LEMMA CompleteTypeSound ==
  ASSUME NEW s, NEW node, NEW refs, RefsOK(refs), NEW c \in CName, NEW third, Sound(s),
         ~Failed(s) => node \in DOMAIN s.types
  PROVE  Sound(CompleteType(s, node, refs, c, third))
<1> DEFINE r == RestoreFile(s, node)
           q == ConvertRefs(r, refs, third)
           t == InitType(q, node, "struct", NoNode)
           b == [t EXCEPT !.cur = s.cur]
<1>1. CASE Failed(s)
  BY <1>1 DEF CompleteType
<1>2. CASE ~Failed(s)
  <2>1. CompleteType(s, node, refs, c, third) = Complete(b, c)
    BY <1>2 DEF CompleteType
  <2>2. Sound(r) /\ r.cur = s.types[node].file /\ r.types = s.types
    BY <1>2, RestoreSound
  <2>3. Sound(q) /\ Extends(r, q)
    BY <2>2, ConvertRefsSound
  <2>4. node \in DOMAIN q.types /\ q.types[node].file = q.cur
    BY <1>2, <2>2, <2>3 DEF Extends
  <2>5. Sound(t)
    BY <2>3, <2>4, InitTypeSound DEF Defs
  <2>6. s.cur \in GoFile
    BY DEF Sound
  <2>7. Sound(b)
    BY <2>5, <2>6, CurSound
  <2> QED BY <2>1, <2>7, CompleteSound
<1> QED BY <1>1, <1>2

(* What ConvertAssumption says of a declaration. *)
LEMMA DeclFacts ==
  ASSUME NEW d \in Decls
  PROVE  /\ d.name \in CName \cup {NoName} /\ (d.name = NoName => d.kind = "Enum")
         /\ d.kind \in {"Func", "Type", "Typedef", "Enum"}
         /\ d.file \in File /\ RefsOK(d.refs)
         /\ d.direct => DOMAIN d.refs = {1}
         /\ d.kind = "Func" /\ FuncGo[d.name].form = "method" => 1 \in DOMAIN d.refs
  BY ConvertAssumption DEF ConvertAssumption, RefsOK

LEMMA NewTypeDeclSound ==
  ASSUME NEW s, NEW d \in Decls, d.kind = "Type", NEW third, Sound(s)
  PROVE  Sound(NewTypeDecl(s, d, third))
<1> DEFINE c == d.name
           r == RegisterNode(s, TypeNode(c), TypeGo[c], TRUE)
           isIncom == c \in DOMAIN r.pkg.tracked
           mapped == CollectNameMapping(r.pkg, c, r.name)
           empty == EmptyTypeDecl(mapped, r.name, TypeNode(c))
           added == AddIncomplete(empty, TypeNode(c), NoName)
           declared == IF isIncom THEN mapped ELSE added
           incom == declared.tracked[c]
           named == IF r.name # c THEN SubstObj(declared, c, incom) ELSE declared
<1>0. NewTypeDecl(s, d, third) =
        IF r.bad THEN Fail(r.pkg, "defined")
        ELSE IF r.exist /\ (~d.full \/ ~isIncom) THEN s
        ELSE IF Failed(declared) THEN declared
        ELSE IF d.full THEN CompleteType(named, incom, d.refs, c, third)
        ELSE named
  BY DEF NewTypeDecl
<1>1. c \in CName /\ RefsOK(d.refs)
  BY DeclFacts
<1>2. TypeNode(c) \in Node /\ TypeNode(c).name = c
  BY <1>1, TypeNodeFacts
<1>3. Sound(r.pkg)
  BY <1>2, RegisterNodeSound
<1>4. Sound(mapped) /\ mapped.tracked = r.pkg.tracked
  BY <1>1, <1>3, CollectSound
<1>5. Sound(empty) /\ (~Failed(empty) => TypeNode(c) \in DOMAIN empty.types)
  BY <1>2, <1>4, EmptyTypeDeclSound
<1> HIDE DEF r, mapped, empty
<1>6. Sound(added) /\ (~Failed(added) => c \in DOMAIN added.tracked)
  BY <1>1, <1>2, <1>5, AddIncompleteSound
<1>7. Sound(declared) /\ (~Failed(declared) => c \in DOMAIN declared.tracked)
  BY <1>4, <1>6
<1>8. Sound(Fail(r.pkg, "defined"))
  BY <1>3, FailSound DEF Errs
<1> HIDE DEF declared
<1>9. ASSUME ~Failed(declared) PROVE Sound(named) /\ incom \in DOMAIN named.types
  <2>1. incom \in DOMAIN declared.types
    BY <1>7, <1>9 DEF Sound, MapOK
  <2>2. incom \in Node
    BY <2>1, <1>7 DEF Sound, TypesOK
  <2> QED BY <1>7, <2>1, <2>2, SubstSound
<1>10. ASSUME ~Failed(declared) PROVE Sound(CompleteType(named, incom, d.refs, c, third))
  BY <1>1, <1>9, <1>10, CompleteTypeSound
<1> QED BY <1>0, <1>7, <1>8, <1>9, <1>10

LEMMA NewTypedefDeclSound ==
  ASSUME NEW s, NEW d \in Decls, d.kind = "Typedef", NEW third, Sound(s)
  PROVE  Sound(NewTypedefDecl(s, d, third))
<1> DEFINE c == d.name
           node == [name |-> c, kind |-> "Typedef"]
           r == RegisterNode(s, node, TypeGo[c], TRUE)
           mapped == CollectNameMapping(r.pkg, c, r.name)
           declared == EmptyTypeDecl(mapped, r.name, node)
           named == IF r.name # c THEN SubstObj(declared, c, node) ELSE declared
           converted == ConvertRefs(named, d.refs, third)
           of == IF d.direct THEN Target(converted, d.refs[1]) ELSE NoNode
<1>1. c \in CName /\ RefsOK(d.refs) /\ (d.direct => DOMAIN d.refs = {1})
  BY DeclFacts
<1>2. node \in Node /\ node.name = c
  BY <1>1 DEF Node, Kind
<1>3. Sound(r.pkg)
  BY <1>2, RegisterNodeSound
<1>4. Sound(mapped)
  BY <1>1, <1>3, CollectSound
<1>5. /\ Sound(declared)
      /\ ~Failed(declared) => /\ node \in DOMAIN declared.types
                              /\ declared.types[node].file = declared.cur
  <2>1. /\ Sound(declared) /\ Extends(mapped, declared)
        /\ ~Failed(declared) => /\ node \in DOMAIN declared.types
                                /\ declared.types[node].file = mapped.cur
    BY <1>2, <1>4, EmptyTypeDeclSound
  <2>2. declared.cur = mapped.cur
    BY <2>1 DEF Extends
  <2> QED BY <2>1, <2>2
<1>6. Sound(Fail(r.pkg, "defined"))
  BY <1>3, FailSound DEF Errs
<1>7. NewTypedefDecl(s, d, third) =
        IF r.bad THEN Fail(r.pkg, "defined")
        ELSE IF r.exist THEN s
        ELSE IF Failed(named) THEN named
        ELSE IF Deferred(named, d) THEN AddIncomplete(named, node, d.refs[1])
        ELSE IF Failed(converted) THEN converted
        ELSE InitType(converted, node, "alias", of)
  BY DEF NewTypedefDecl
<1> HIDE DEF r, node, declared
<1>8. /\ Sound(named)
      /\ ~Failed(named) => node \in DOMAIN named.types /\ named.types[node].file = named.cur
  <2>1. CASE r.name # c
    <3>1. named = SubstObj(declared, c, node)
      BY <2>1
    <3>2. Sound(named) /\ named.types = declared.types /\ Extends(declared, named)
      BY <3>1, <1>2, <1>5, SubstSound
    <3>3. ~Failed(named) => ~Failed(declared)
      BY <3>1 DEF SubstObj
    <3> QED BY <3>2, <3>3, <1>5 DEF Extends
  <2>2. CASE r.name = c
    BY <2>2, <1>5
  <2> QED BY <2>1, <2>2
<1> HIDE DEF named
<1>9. ASSUME ~Failed(named), Deferred(named, d)
      PROVE  Sound(AddIncomplete(named, node, d.refs[1]))
  <2>1. d.refs[1] \in CName \cup {NoName}
    BY <1>1, <1>9 DEF Deferred, RefsOK
  <2> QED BY <2>1, <1>1, <1>2, <1>8, <1>9, AddIncompleteSound
<1>10. /\ Sound(converted) /\ Extends(named, converted)
       /\ DOMAIN d.refs = {1} /\ ~Failed(converted) => Target(converted, d.refs[1]) \in Node
  BY <1>1, <1>8, ConvertRefsSound
<1> HIDE DEF converted
<1>11. ASSUME ~Failed(named), ~Failed(converted)
       PROVE  Sound(InitType(converted, node, "alias", of))
  <2>1. of \in Node \cup {NoNode}
    BY <1>1, <1>10, <1>11
  <2>2. node \in DOMAIN converted.types /\ converted.types[node].file = converted.cur
    BY <1>8, <1>10, <1>11 DEF Extends
  <2> HIDE DEF of
  <2> QED BY <2>1, <2>2, <1>10, InitTypeSound DEF Defs
<1> QED BY <1>6, <1>7, <1>8, <1>9, <1>10, <1>11

LEMMA NewConstSound ==
  ASSUME NEW s, NEW c \in CName, NEW kind \in {"Item", "Macro"}, NEW emit, Sound(s)
  PROVE  Sound(NewConst(s, c, kind, emit))
<1> DEFINE node == [name |-> c, kind |-> kind]
           r == RegisterNode(s, node, ConstGo[c], FALSE)
<1>1. node \in Node
  BY DEF Node, Kind
<1>2. Sound(r.pkg)
  BY <1>1, RegisterNodeSound
<1>3. NewConst(s, c, kind, emit) =
        IF Failed(s) \/ r.exist THEN s
        ELSE IF r.bad THEN Fail(r.pkg, "defined")
        ELSE IF emit THEN Insert(r.pkg, r.name, node)
        ELSE r.pkg
  BY DEF NewConst
<1> HIDE DEF r, node
<1>4. Sound(Fail(r.pkg, "defined")) /\ Sound(Insert(r.pkg, r.name, node))
  BY <1>1, <1>2, FailSound, InsertSound DEF Errs
<1> QED BY <1>2, <1>3, <1>4

LEMMA EnumItemsSound ==
  ASSUME NEW s, NEW items, RefsOK(items), Sound(s)
  PROVE  Sound(EnumItems(s, items))
<1>1. CASE DOMAIN items = {}
  BY <1>1 DEF EnumItems
<1>2. CASE DOMAIN items = {1}
  <2>1. EnumItems(s, items) = NewConst(s, items[1], "Item", TRUE) /\ items[1] \in CName
    BY <1>2 DEF EnumItems, RefsOK
  <2> QED BY <2>1, NewConstSound
<1>3. CASE DOMAIN items = {1, 2}
  <2> DEFINE q == NewConst(s, items[1], "Item", TRUE)
  <2>0. DOMAIN items # {} /\ DOMAIN items # {1}
    BY <1>3
  <2>1. EnumItems(s, items) = NewConst(q, items[2], "Item", TRUE)
    BY <2>0, Zenon DEF EnumItems
  <2>2. items[1] \in CName /\ items[2] \in CName
    BY <1>3 DEF RefsOK
  <2>3. Sound(q)
    BY <2>2, NewConstSound
  <2> HIDE DEF q
  <2> QED BY <2>1, <2>2, <2>3, NewConstSound
<1> QED BY <1>1, <1>2, <1>3 DEF RefsOK

LEMMA NewEnumTypeDeclSound ==
  ASSUME NEW s, NEW d \in Decls, d.kind = "Enum", Sound(s)
  PROVE  Sound(NewEnumTypeDecl(s, d))
<1> DEFINE c == d.name
           node == [name |-> c, kind |-> "Enum"]
           r == RegisterNode(s, node, TypeGo[c], TRUE)
           mapped == CollectNameMapping(r.pkg, c, r.name)
           empty == EmptyTypeDecl(mapped, r.name, node)
           declared == InitType(empty, node, "enum", NoNode)
           named == IF r.name # c THEN SubstObj(declared, c, node) ELSE declared
<1>0. NewEnumTypeDecl(s, d) =
        IF c = NoName THEN EnumItems(s, d.refs)
        ELSE IF r.bad THEN Fail(r.pkg, "defined")
        ELSE IF r.exist THEN s
        ELSE EnumItems(named, d.refs)
  BY DEF NewEnumTypeDecl
<1>1. c \in CName \cup {NoName} /\ RefsOK(d.refs)
  BY DeclFacts
<1>2. Sound(EnumItems(s, d.refs))
  BY <1>1, EnumItemsSound
<1>3. node \in Node
  BY <1>1 DEF Node, Kind
<1>4. Sound(r.pkg)
  BY <1>3, RegisterNodeSound
<1>5. Sound(Fail(r.pkg, "defined"))
  BY <1>4, FailSound DEF Errs
<1> HIDE DEF r, node
<1>6. ASSUME c # NoName PROVE Sound(EnumItems(named, d.refs))
  <2>1. c \in CName
    BY <1>1, <1>6
  <2>2. Sound(mapped)
    BY <2>1, <1>4, CollectSound
  <2>3. /\ Sound(empty) /\ Extends(mapped, empty)
        /\ ~Failed(empty) => node \in DOMAIN empty.types /\ empty.types[node].file = mapped.cur
    BY <1>3, <2>2, EmptyTypeDeclSound
  <2>4. empty.cur = mapped.cur
    BY <2>3 DEF Extends
  <2> HIDE DEF empty, mapped
  <2>5. Sound(declared)
    <3>1. ~Failed(empty) => node \in DOMAIN empty.types /\ empty.types[node].file = empty.cur
      BY <2>3, <2>4
    <3>2. "enum" \in Defs
      BY DEF Defs
    <3> QED BY <3>1, <3>2, <2>3, InitTypeSound
  <2> HIDE DEF declared
  <2>6. Sound(named)
    BY <1>3, <2>5, SubstSound
  <2> QED BY <1>1, <2>6, EnumItemsSound
<1> QED BY <1>0, <1>2, <1>5, <1>6

LEMMA NewMacroSound ==
  ASSUME NEW s, NEW m \in Macros, Sound(s)
  PROVE  Sound(NewMacro(s, m))
<1>1. m.name \in CName
  BY ConvertAssumption DEF ConvertAssumption
<1> QED BY <1>1, NewConstSound DEF NewMacro

LEMMA NewFuncDeclSound ==
  ASSUME NEW s, NEW d \in Decls, d.kind = "Func", NEW third, Sound(s)
  PROVE  Sound(NewFuncDecl(s, d, third))
<1> DEFINE fn == FuncGo[d.name].fn
           node == [name |-> d.name, kind |-> "Func"]
           isMethod == FuncGo[d.name].form = "method"
           recv == IF isMethod THEN LookupType(s, d.refs[1], third) ELSE s
           method == <<Target(recv, d.refs[1]), fn>>
           dup == IF isMethod THEN method \in recv.methods ELSE FuncTaken(s, fn)
           reg == Register(recv, node, fn)
           sig == ConvertRefs(reg, d.refs, third)
           methods == sig.methods \cup {method}
<1>0. NewFuncDecl(s, d, third) =
        IF FuncGo[d.name].form = "ignore" \/ node \in DOMAIN s.info THEN s
        ELSE IF Failed(recv) THEN recv
        ELSE IF dup THEN Fail(recv, IF isMethod THEN "method" ELSE "func")
        ELSE IF Failed(sig) THEN sig
        ELSE IF isMethod THEN [sig EXCEPT !.methods = methods]
        ELSE Insert(sig, fn, node)
  BY DEF NewFuncDecl
<1>1. d.name \in CName /\ RefsOK(d.refs) /\ (isMethod => 1 \in DOMAIN d.refs)
  BY DeclFacts
<1>2. node \in Node
  BY <1>1 DEF Node, Kind
<1>3. Sound(recv)
  <2>1. CASE isMethod
    <3>1. d.refs[1] \in CName
      BY <1>1, <2>1 DEF RefsOK
    <3> QED BY <2>1, <3>1, LookupTypeSound
  <2>2. CASE ~isMethod
    BY <2>2
  <2> QED BY <2>1, <2>2
<1> HIDE DEF recv, node, fn, isMethod
<1>4. Sound(reg)
  BY <1>2, <1>3, RegisterSound
<1> HIDE DEF reg
<1>5. Sound(sig)
  BY <1>1, <1>4, ConvertRefsSound
<1> HIDE DEF sig, dup, method
<1>6. Sound(Fail(recv, IF isMethod THEN "method" ELSE "func"))
  BY <1>3, FailSound DEF Errs
<1>7. Sound([sig EXCEPT !.methods = methods])
  BY <1>5, MethodsSound
<1>8. Sound(Insert(sig, fn, node))
  BY <1>2, <1>5, InsertSound
<1> QED BY <1>0, <1>3, <1>5, <1>6, <1>7, <1>8

LEMMA SetGoFileSound ==
  ASSUME NEW s, NEW f \in File, Sound(s)
  PROVE  Sound(SetGoFile(s, f))
<1>1. ToGoFile(f) \in GoFile
  BY DEF ToGoFile, GoFile
<1> QED BY <1>1, CurSound DEF SetGoFile

(* Every declaration keeps the package sound. *)
LEMMA NewDeclSound ==
  ASSUME NEW s, NEW d \in Decls, NEW third, Sound(s)
  PROVE  Sound(NewDecl(s, d, third))
<1>1. CASE d.kind = "Type"
  <2>1. NewDecl(s, d, third) = NewTypeDecl(s, d, third)
    BY <1>1 DEF NewDecl
  <2> QED BY <1>1, <2>1, NewTypeDeclSound
<1>2. CASE d.kind = "Enum"
  <2>1. NewDecl(s, d, third) = NewEnumTypeDecl(s, d)
    BY <1>2 DEF NewDecl
  <2> QED BY <1>2, <2>1, NewEnumTypeDeclSound
<1>3. CASE d.kind = "Typedef"
  <2>1. NewDecl(s, d, third) = NewTypedefDecl(s, d, third)
    BY <1>3 DEF NewDecl
  <2> QED BY <1>3, <2>1, NewTypedefDeclSound
<1>4. CASE d.kind = "Func"
  <2>1. NewDecl(s, d, third) = NewFuncDecl(s, d, third)
    BY <1>4 DEF NewDecl
  <2> QED BY <1>4, <2>1, NewFuncDeclSound
<1> QED BY <1>1, <1>2, <1>3, <1>4, DeclFacts

LEMMA BuildTypeSound ==
  ASSUME NEW s, NEW e \in Entry, NEW third, Sound(s), e.node \in DOMAIN s.types
  PROVE  /\ Sound(BuildType(s, e, third))
         /\ \A i \in 1..Len(s.incs) : i \in 1..Len(BuildType(s, e, third).incs)
<1> DEFINE here == RestoreFile(s, e.node)
           q == LookupType(here, e.ref, third)
<1>0. BuildType(s, e, third) =
        IF e.ref = NoName THEN InitType(here, e.node, "opaque", NoNode)
        ELSE IF Failed(q) THEN q
        ELSE InitType(q, e.node, "alias", Target(q, e.ref))
  BY DEF BuildType
<1>1. /\ Sound(here) /\ here.cur = s.types[e.node].file /\ here.types = s.types
      /\ here.incs = s.incs
  BY RestoreSound
<1> HIDE DEF here
<1>2. /\ Sound(InitType(here, e.node, "opaque", NoNode))
      /\ InitType(here, e.node, "opaque", NoNode).incs = s.incs
  BY <1>1, InitTypeSound DEF Defs
<1> DEFINE alias == InitType(q, e.node, "alias", Target(q, e.ref))
<1>3. ASSUME e.ref # NoName
      PROVE  /\ Sound(q) /\ \A i \in 1..Len(s.incs) : i \in 1..Len(q.incs)
             /\ ~Failed(q) => Sound(alias) /\ alias.incs = q.incs
  <2>1. e.ref \in CName
    BY <1>3 DEF Entry
  <2>2. /\ Sound(q) /\ Extends(here, q)
        /\ ~Failed(q) => Target(q, e.ref) \in Node
    BY <1>1, <2>1, LookupTypeSound
  <2> HIDE DEF q
  <2>3. e.node \in DOMAIN q.types /\ q.types[e.node].file = q.cur
    BY <1>1, <2>2 DEF Extends
  <2>4. \A i \in 1..Len(s.incs) : i \in 1..Len(q.incs)
    BY <1>1, <2>2 DEF Extends
  <2> QED BY <2>2, <2>3, <2>4, InitTypeSound DEF Defs
<1> HIDE DEF q, alias
<1>4. BuildType(s, e, third) = IF e.ref = NoName THEN InitType(here, e.node, "opaque", NoNode)
                               ELSE IF Failed(q) THEN q ELSE alias
  BY <1>0 DEF alias
<1> QED BY <1>4, <1>2, <1>3

-----------------------------------------------------------------------------
(* The inductive invariant, and what follows from it. *)

Phases == {"macros", "decls", "build", "done", "failed"}

IInv ==
  /\ Sound(p)
  /\ locMap \subseteq CName /\ seen \subseteq CName
  /\ phase \in Phases /\ input \in 0..MaxInput
  /\ next.i \in Nat \ {0} /\ next.last \in Nat /\ next.i <= next.last + 1
  /\ next = [i |-> next.i, last |-> next.last]
  /\ phase = "build" => \A i \in next.i..next.last : i \in 1..Len(p.incs)

LEMMA InitSound == Init => IInv
<1> SUFFICES ASSUME Init PROVE IInv
  OBVIOUS
<1>1. /\ IsPkg(p) /\ p.info = Empty /\ p.count = Empty /\ p.types = Empty /\ p.incs = <<>>
      /\ p.tracked = Empty /\ p.pubs = Empty /\ p.cur = Autogen /\ p.err = "none"
      /\ p.scope = [c \in DepName |-> [node |-> [name |-> c, kind |-> "Dep"], how |-> "subst"]]
  BY DEF Init, Fresh, IsPkg
<1>2. ScopeOK(p.scope)
  BY <1>1, ConvertAssumption DEF ScopeOK, ConvertAssumption, Node, Kind
<1>3. TypesOK(p.types) /\ OwnName(p.types, p.scope) /\ OwnFile(p.types)
  BY <1>1 DEF TypesOK, OwnName, OwnFile, Empty
<1>4. ListOK(p.incs, p.types) /\ MapOK(p.tracked, p.types) /\ CountOK(p.count)
  BY <1>1 DEF ListOK, MapOK, CountOK, Empty
<1>5. DOMAIN p.info \subseteq Node /\ DOMAIN p.pubs \subseteq CName
  BY <1>1 DEF Empty
<1>6. p.cur \in GoFile /\ p.err \in Errs
  BY <1>1 DEF GoFile, Errs
<1>7. Sound(p)
  BY <1>1, <1>2, <1>3, <1>4, <1>5, <1>6 DEF Sound
<1>8. 0 \in 0..MaxInput
  BY ConvertAssumption DEF ConvertAssumption
<1> QED BY <1>7, <1>8 DEF Init, IInv, Phases

LEMMA NextSound == IInv /\ [Next]_vars => IInv'
<1> SUFFICES ASSUME IInv, [Next]_vars PROVE IInv'
  OBVIOUS
<1> USE DEF IInv, Phases
<1>1. ASSUME NEW m \in Macros, ProcessMacro(m) PROVE IInv'
  <2> DEFINE s == SetGoFile(p, m.file)
  <2>1. m.file \in File
    BY ConvertAssumption DEF ConvertAssumption
  <2>2. Sound(s)
    BY <2>1, SetGoFileSound
  <2>3. Sound(NewMacro(s, m))
    BY <2>2, NewMacroSound
  <2>4. p' = IF InCurPkg(m.file) THEN NewMacro(s, m) ELSE p
    BY <1>1 DEF ProcessMacro
  <2> HIDE DEF s
  <2>5. Sound(p')
    BY <2>3, <2>4
  <2>6. phase' \in {"failed", "macros"} /\ input' = input + 1 /\ input < MaxInput
        /\ UNCHANGED <<locMap, seen, next>>
    BY <1>1 DEF ProcessMacro
  <2>7. input' \in 0..MaxInput
    BY <2>6, ConvertAssumption DEF ConvertAssumption
  <2> QED BY <2>5, <2>6, <2>7
<1>2. CASE EndMacros
  BY <1>2 DEF EndMacros
<1>3. ASSUME NEW d \in Decls, ProcessDecl(d) PROVE IInv'
  <2> DEFINE s == SetGoFile(p, d.file)
  <2>1. d.file \in File /\ d.name \in CName \cup {NoName} /\ RefsOK(d.refs)
    BY DeclFacts
  <2>2. Sound(s)
    BY <2>1, SetGoFileSound
  <2>3. Sound(NewDecl(s, d, locMap'))
    BY <2>2, NewDeclSound
  <2>4. p' = IF Skipped(d) THEN p ELSE NewDecl(s, d, locMap')
    BY <1>3 DEF ProcessDecl
  <2> HIDE DEF s
  <2>5. Sound(p')
    BY <2>3, <2>4
  <2>6. phase' \in {"failed", "decls"} /\ input' = input + 1 /\ input < MaxInput /\ next' = next
    BY <1>3 DEF ProcessDecl
  <2>7. input' \in 0..MaxInput
    BY <2>6, ConvertAssumption DEF ConvertAssumption
  <2>8. seen' \subseteq CName
    <3>1. seen' = seen \cup (Mentions(d) \ {NoName})
      BY <1>3 DEF ProcessDecl
    <3>2. Mentions(d) \subseteq CName \cup {NoName}
      BY <2>1 DEF Mentions, Declares, RefsOK
    <3> QED BY <3>1, <3>2
  <2>9. locMap' \subseteq CName
    BY <1>3, <2>1 DEF ProcessDecl
  <2> QED BY <2>5, <2>6, <2>7, <2>8, <2>9
<1>4. CASE EndDecls
  <2>1. ListOK(p.incs, p.types)
    BY DEF Sound
  <2>2. Len(p.incs) \in Nat
    BY <2>1 DEF ListOK
  <2> QED BY <1>4, <2>2 DEF EndDecls
<1>5. CASE BuildNext
  <2> DEFINE e == p.incs[next.i]
             b == BuildType(p, e, locMap)
             q == IF StillIncomplete(p, e) THEN b ELSE p
  <2>1. next.i \in next.i..next.last /\ next.i \in 1..Len(p.incs)
    BY <1>5 DEF BuildNext
  <2>2. e \in Entry /\ e.node \in DOMAIN p.types
    BY <2>1 DEF Sound, ListOK
  <2>3. Sound(b) /\ \A i \in 1..Len(p.incs) : i \in 1..Len(b.incs)
    BY <2>2, BuildTypeSound
  <2>4. Sound(q) /\ \A i \in 1..Len(p.incs) : i \in 1..Len(q.incs)
    BY <2>3
  <2>5. /\ p' = IF Failed(q) THEN Clear(q) ELSE q
        /\ phase' = IF Failed(q) THEN "failed" ELSE "build"
        /\ next' = [next EXCEPT !.i = next.i + 1]
        /\ UNCHANGED <<locMap, input, seen>>
        /\ phase = "build" /\ next.i <= next.last
    BY <1>5 DEF BuildNext
  <2> HIDE DEF q
  <2>6. Sound(p')
    BY <2>4, <2>5, ClearSound
  <2>7. next'.i = next.i + 1 /\ next'.last = next.last /\ next' = [i |-> next.i + 1, last |-> next.last]
    BY <2>5
  <2>8. phase' = "build" => \A i \in next'.i..next'.last : i \in 1..Len(p'.incs)
    <3>1. SUFFICES ASSUME phase' = "build", NEW i \in next'.i..next'.last
                   PROVE  i \in 1..Len(p'.incs)
      OBVIOUS
    <3>2. p' = q
      BY <2>5, <3>1
    <3>3. i \in next.i..next.last
      BY <2>7
    <3> QED BY <2>4, <2>5, <3>2, <3>3
  <2> QED BY <2>5, <2>6, <2>7, <2>8
<1>6. CASE EndBuild
  BY <1>6, ClearSound DEF EndBuild
<1>7. CASE Terminated \/ UNCHANGED vars
  BY <1>7 DEF Terminated, vars
<1> QED BY <1>1, <1>2, <1>3, <1>4, <1>5, <1>6, <1>7 DEF Next

THEOREM Invariance == Spec => []IInv
  BY InitSound, NextSound, PTL DEF Spec

(* The package is well typed in every reachable state: every list and map  *)
(* of pending types refers to declared types only, whatever the input.     *)
THEOREM TypeCorrect == Spec => []TypeOK
<1>1. IInv => TypeOK
  <2> SUFFICES ASSUME IInv PROVE TypeOK
    OBVIOUS
  <2>1. next.i \in 1..next.last + 1
    BY DEF IInv
  <2>2. /\ \A i \in DOMAIN p.incs : p.incs[i].node \in DOMAIN p.types
    BY DEF IInv, Sound, ListOK
  <2>3. \A n \in DOMAIN p.types :
          /\ p.types[n].file \in GoFile /\ p.types[n].at \in GoFile
          /\ p.types[n].def \in {"undef", "struct", "opaque", "alias", "enum"}
          /\ p.types[n].inits \in Nat
          /\ p.types[n].of \in Node \cup {NoNode}
    BY DEF IInv, Sound, TypesOK, IsTypeDecl, Defs
  <2>4. /\ \A g \in DOMAIN p.count : p.count[g] \in Nat \ {0}
        /\ \A g \in DOMAIN p.scope : p.scope[g].node \in Node /\ p.scope[g].how \in {"decl", "subst"}
    BY DEF IInv, Sound, CountOK, ScopeOK
  <2>5. /\ DOMAIN p.info \subseteq Node /\ DOMAIN p.types \subseteq Node
        /\ DOMAIN p.tracked \subseteq CName /\ DOMAIN p.pubs \subseteq CName
        /\ \A c \in DOMAIN p.tracked : p.tracked[c] \in DOMAIN p.types
        /\ p.cur \in GoFile
        /\ p.err \in {"none", "defined", "func", "method", "third", "redeclared", "redefined"}
    BY DEF IInv, Sound, MapOK, TypesOK, Errs
  <2> QED BY <2>1, <2>2, <2>3, <2>4, <2>5 DEF TypeOK, IInv, Phases
<1> QED BY <1>1, Invariance, PTL

(* A type is only ever initialised in the Go file that declares it, though  *)
(* handleCompleteType and deferTypeBuild run while another file is current. *)
THEOREM InitialisedInOwnFile == Spec => []InitInOwnFile
<1>1. IInv => InitInOwnFile
  BY DEF IInv, Sound, OwnFile, InitInOwnFile
<1> QED BY <1>1, Invariance, PTL

(* Two types never share a Go name: the scope keeps the owner of each name, *)
(* and substObj only rebinds names no type owns.                            *)
THEOREM NamesApart == Spec => []GoNamesApart
<1>1. IInv => GoNamesApart
  <2> SUFFICES ASSUME IInv, NEW m \in DOMAIN p.types, NEW n \in DOMAIN p.types,
                      p.types[m].go = p.types[n].go
               PROVE  m = n
    BY DEF GoNamesApart
  <2>1. p.scope[p.types[m].go] = Own(m) /\ p.scope[p.types[n].go] = Own(n)
    BY DEF IInv, Sound, OwnName
  <2>2. Own(m).node = m /\ Own(n).node = n
    BY DEF Own
  <2> QED BY <2>1, <2>2
<1> QED BY <1>1, Invariance, PTL
-----------------------------------------------------------------------------
(* A C name becomes one Go type, which is tracked as incomplete exactly     *)
(* while it has no definition, and is defined once.  The invariant has a    *)
(* part that even a failed package keeps (Apart) and a part that lasts      *)
(* until the first error (Live); the second has the nodes a method is still *)
(* declaring as a parameter.                                                *)


(* Every binding of the scope and every pending entry is for its own name, *)
(* and a name has one type, initialised at most once.                      *)
KindsOK(types) ==
  \A n \in DOMAIN types : /\ n.kind \in TypeKind /\ n.name \in CName \ DepName
                          /\ n.kind = "Type" <=> n.name \in Tag
OneType(types) == \A m, n \in DOMAIN types : m.name = n.name => m = n
Once(types) == \A n \in DOMAIN types : types[n].inits \in {0, 1}
TrackedByName(tracked) == \A c \in DOMAIN tracked : tracked[c].name = c
SubstByName(scope, types) ==
  \A g \in DOMAIN scope : scope[g].how = "subst" =>
     /\ scope[g].node.name = g
     /\ scope[g].node \in DOMAIN types \/ (g \in DepName /\ scope[g].node.kind = "Dep")
EntriesApart(incs) ==
  \A i, j \in 1..Len(incs) : incs[i].node = incs[j].node => i = j

(* What a reference got was made for its C name, or owns that name in Go.  *)
UsesOK(uses, scope) ==
  \A u \in uses : \/ u.node.name = u.name
                  \/ u.name \in DOMAIN scope /\ scope[u.name].how = "decl"

Apart(s) ==
  /\ DepName \subseteq DOMAIN s.scope
  /\ KindsOK(s.types) /\ OneType(s.types) /\ Once(s.types)
  /\ TrackedByName(s.tracked) /\ SubstByName(s.scope, s.types) /\ EntriesApart(s.incs)
  /\ UsesOK(s.uses, s.scope)

(* What a package that has not failed keeps for each type; X are the nodes *)
(* a method is about to declare, B the entries deferTypeBuild has built.   *)
Waiting(s, X) ==
  \A n \in X : /\ n \in DOMAIN s.types => s.types[n].inits = 0
               /\ n.name \notin DOMAIN s.tracked
               /\ \A i \in 1..Len(s.incs) : s.incs[i].node # n
Tracks(s, X, B) ==
  \A n \in DOMAIN s.types \ X : s.types[n].inits = 0 <=> n.name \in DOMAIN s.tracked /\ n \notin B
Known(s, c) == c \in DOMAIN s.scope \/ c \in DOMAIN s.tracked
Placed(s, X) ==
  \A n \in DOMAIN s.types \ X :
     /\ Known(s, n.name)
     /\ n.kind # "Type" \/ s.info[n] = n.name => n.name \in DOMAIN s.scope
Listed(s) ==
  \A c \in DOMAIN s.tracked : \E i \in 1..Len(s.incs) : s.incs[i].node = s.tracked[c]
RefsKnown(s) ==
  \A i \in 1..Len(s.incs) : s.incs[i].ref # NoName => Known(s, s.incs[i].ref)
Registered(s, X) ==
  /\ DOMAIN s.types \subseteq DOMAIN s.info
  /\ \A n \in DOMAIN s.info : n.kind \in TypeKind => n \in DOMAIN s.types \cup X

Live(s, X, B) ==
  /\ Waiting(s, X) /\ Tracks(s, X, B) /\ Placed(s, X) /\ Listed(s) /\ RefsKnown(s)
  /\ Registered(s, X)

Built == IF phase = "build" THEN {p.incs[j].node : j \in 1..(next.i - 1)} ELSE {}

TypeInv ==
  /\ Apart(p)
  /\ phase \in {"macros", "decls", "build"} => Live(p, {}, Built) /\ ~Failed(p)
  /\ phase = "done" => \A n \in DOMAIN p.types : p.types[n].inits = 1
  /\ phase = "macros" => seen = {}
  /\ phase = "decls" => \A c \in seen \ Tag : c \in DOMAIN p.scope \cup locMap
  /\ phase = "build" => next.last = Len(p.incs)

Good(s, X) == Sound(s) /\ Apart(s) /\ (~Failed(s) => Live(s, X, {}))

(* q is s after a method of Package: what s has bound, q has bound to the  *)
(* same node, what it has defined stays defined, an error is not forgotten.*)
Keeps(s, q) ==
  /\ \A g \in DOMAIN s.scope : /\ g \in DOMAIN q.scope /\ q.scope[g].node = s.scope[g].node
                               /\ s.scope[g].how = "decl" => q.scope[g].how = "decl"
  /\ \A n \in DOMAIN s.types : /\ n \in DOMAIN q.types /\ q.types[n].go = s.types[n].go
                               /\ s.types[n].inits > 0 => q.types[n].inits > 0
  /\ Failed(s) => Failed(q)

LEMMA KeepsRefl == \A s : Keeps(s, s)
  BY DEF Keeps

LEMMA KeepsTrans ==
  ASSUME NEW s, NEW q, NEW r, Keeps(s, q), Keeps(q, r)
  PROVE  Keeps(s, r)
  BY DEF Keeps

(* The parts of a package the invariant is about. *)
SameCore(s, q) ==
  /\ q.info = s.info /\ q.scope = s.scope /\ q.types = s.types
  /\ q.incs = s.incs /\ q.tracked = s.tracked /\ q.err = s.err /\ q.uses = s.uses

(* What was resolved stays so while the scope keeps what it has. *)
LEMMA UsesKept ==
  ASSUME NEW uses, NEW a, NEW b, UsesOK(uses, a),
         \A g \in DOMAIN a : g \in DOMAIN b /\ (a[g].how = "decl" => b[g].how = "decl")
  PROVE  UsesOK(uses, b)
  BY DEF UsesOK

LEMMA GoodSame ==
  ASSUME NEW s, NEW q, NEW X, Good(s, X), Sound(q), SameCore(s, q)
  PROVE  Good(q, X) /\ Keeps(s, q)
<1>1. Failed(q) = Failed(s)
  BY DEF SameCore, Failed
<1>2. Apart(q)
  BY DEF Good, SameCore, Apart
<1>3. Live(s, X, {}) => Live(q, X, {})
  BY DEF SameCore, Live, Waiting, Tracks, Known, Placed, Listed, RefsKnown, Registered
<1>4. Keeps(s, q)
  BY <1>1 DEF SameCore, Keeps
<1> QED BY <1>1, <1>2, <1>3, <1>4 DEF Good

-----------------------------------------------------------------------------
(* What each primitive changes. *)

LEMMA FailIs ==
  ASSUME NEW s, NEW e, IsPkg(s)
  PROVE  /\ Fail(s, e).info = s.info /\ Fail(s, e).scope = s.scope /\ Fail(s, e).types = s.types
         /\ Fail(s, e).incs = s.incs /\ Fail(s, e).tracked = s.tracked /\ Fail(s, e).err = e
         /\ Fail(s, e).count = s.count /\ Fail(s, e).pubs = s.pubs /\ Fail(s, e).uses = s.uses
  BY DEF IsPkg, Fail

LEMMA RegisterIs ==
  ASSUME NEW s, NEW node, NEW g, IsPkg(s)
  PROVE  LET q == Register(s, node, g)
         IN  /\ q.info = Bind(s.info, node, SuffixCount(g, Users(s, g) + 1))
             /\ q.count = Bind(s.count, g, Users(s, g) + 1)
             /\ q.scope = s.scope /\ q.types = s.types /\ q.incs = s.incs
             /\ q.tracked = s.tracked /\ q.err = s.err /\ q.pubs = s.pubs /\ q.uses = s.uses
<1> DEFINE q == Register(s, node, g)
           k == Users(s, g) + 1
           v == SuffixCount(g, k)
           i == Bind(s.info, node, v)
           c == Bind(s.count, g, k)
<1>1. q = [s EXCEPT !.count = c, !.info = i]
  BY DEF Register
<1> HIDE DEF q, i, c
<1>2. /\ q.info = i /\ q.count = c
      /\ q.scope = s.scope /\ q.types = s.types /\ q.incs = s.incs
      /\ q.tracked = s.tracked /\ q.err = s.err /\ q.pubs = s.pubs /\ q.uses = s.uses
  BY <1>1 DEF IsPkg
<1> QED BY <1>2 DEF q, i, c

LEMMA InsertIs ==
  ASSUME NEW s, NEW nm, NEW node, IsPkg(s)
  PROVE  LET q == Insert(s, nm, node)
         IN  /\ q.info = s.info /\ q.types = s.types /\ q.incs = s.incs /\ q.tracked = s.tracked
             /\ q.count = s.count /\ q.pubs = s.pubs /\ q.uses = s.uses
             /\ IF nm \in DOMAIN s.scope THEN q.scope = s.scope /\ q.err = "redeclared"
                ELSE q.scope = Bind(s.scope, nm, Own(node)) /\ q.err = s.err
<1> DEFINE b == Bind(s.scope, nm, Own(node))
<1>1. CASE nm \in DOMAIN s.scope
  <2>1. Insert(s, nm, node) = Fail(s, "redeclared")
    BY <1>1 DEF Insert
  <2> QED BY <1>1, <2>1, FailIs
<1>2. CASE nm \notin DOMAIN s.scope
  <2> DEFINE q == [s EXCEPT !.scope = b]
  <2>1. Insert(s, nm, node) = q
    BY <1>2 DEF Insert, Own
  <2> HIDE DEF b
  <2>2. /\ q.info = s.info /\ q.types = s.types /\ q.incs = s.incs /\ q.tracked = s.tracked
        /\ q.count = s.count /\ q.pubs = s.pubs /\ q.uses = s.uses
        /\ q.scope = b /\ q.err = s.err
    BY DEF IsPkg
  <2> HIDE DEF q
  <2> QED BY <1>2, <2>1, <2>2 DEF b
<1> QED BY <1>1, <1>2

LEMMA SubstIs ==
  ASSUME NEW s, NEW c, NEW node, IsPkg(s)
  PROVE  LET q == SubstObj(s, c, node)
         IN  /\ q.info = s.info /\ q.types = s.types /\ q.incs = s.incs /\ q.tracked = s.tracked
             /\ q.count = s.count /\ q.pubs = s.pubs /\ q.uses = s.uses
             /\ IF Failed(s) THEN q = s
                ELSE IF c \in DOMAIN s.scope /\ s.scope[c].how = "decl"
                THEN q.scope = s.scope /\ q.err = "redefined"
                ELSE q.scope = Bind(s.scope, c, [node |-> node, how |-> "subst"]) /\ q.err = s.err
<1> DEFINE b == Bind(s.scope, c, [node |-> node, how |-> "subst"])
           taken == c \in DOMAIN s.scope /\ s.scope[c].how = "decl"
<1>1. CASE Failed(s)
  BY <1>1 DEF SubstObj
<1>2. CASE ~Failed(s) /\ taken
  <2>1. SubstObj(s, c, node) = Fail(s, "redefined")
    BY <1>2 DEF SubstObj
  <2> QED BY <1>2, <2>1, FailIs
<1>3. CASE ~Failed(s) /\ ~taken
  <2> DEFINE q == [s EXCEPT !.scope = b]
  <2>1. SubstObj(s, c, node) = q
    BY <1>3 DEF SubstObj
  <2> HIDE DEF b
  <2>2. /\ q.info = s.info /\ q.types = s.types /\ q.incs = s.incs /\ q.tracked = s.tracked
        /\ q.count = s.count /\ q.pubs = s.pubs /\ q.uses = s.uses
        /\ q.scope = b /\ q.err = s.err
    BY DEF IsPkg
  <2> HIDE DEF q
  <2> QED BY <1>3, <2>1, <2>2 DEF b
<1> QED BY <1>1, <1>2, <1>3

(* A type as EmptyTypeDecl makes it, and as InitType leaves it. *)
NewDef(s, nm) ==
  [go |-> nm, file |-> s.cur, def |-> "undef", inits |-> 0, of |-> NoNode, at |-> s.cur]
DefAs(s, node, def, of) ==
  [go |-> s.types[node].go, file |-> s.types[node].file, def |-> def,
   inits |-> s.types[node].inits + 1, of |-> of, at |-> s.cur]

LEMMA EmptyTypeDeclIs ==
  ASSUME NEW s, NEW nm, NEW node, IsPkg(s)
  PROVE  LET q == EmptyTypeDecl(s, nm, node)
         IN  /\ q.info = s.info /\ q.incs = s.incs /\ q.tracked = s.tracked
             /\ q.count = s.count /\ q.pubs = s.pubs /\ q.uses = s.uses
             /\ IF nm \in DOMAIN s.scope
                THEN q.scope = s.scope /\ q.types = s.types /\ q.err = "redeclared"
                ELSE /\ q.scope = Bind(s.scope, nm, Own(node))
                     /\ q.err = s.err
                     /\ q.types = IF Failed(s) THEN s.types ELSE Bind(s.types, node, NewDef(s, nm))
<1> DEFINE i == Insert(s, nm, node)
           b == Bind(s.types, node, NewDef(s, nm))
           q == [i EXCEPT !.types = b]
<1>1. /\ i.info = s.info /\ i.types = s.types /\ i.incs = s.incs /\ i.tracked = s.tracked
      /\ i.count = s.count /\ i.pubs = s.pubs /\ i.uses = s.uses
      /\ IF nm \in DOMAIN s.scope THEN i.scope = s.scope /\ i.err = "redeclared"
         ELSE i.scope = Bind(s.scope, nm, Own(node)) /\ i.err = s.err
  BY InsertIs
<1>2. IsPkg(i) /\ i.cur = s.cur
  BY DEF Insert, Fail, IsPkg
<1>3. EmptyTypeDecl(s, nm, node) = IF Failed(i) THEN i ELSE q
  BY <1>1, <1>2 DEF EmptyTypeDecl, NewDef
<1> HIDE DEF i, b
<1>4. /\ q.info = i.info /\ q.incs = i.incs /\ q.tracked = i.tracked /\ q.count = i.count
      /\ q.pubs = i.pubs /\ q.uses = i.uses /\ q.scope = i.scope /\ q.err = i.err /\ q.types = b
  BY <1>2 DEF IsPkg
<1> HIDE DEF q
<1>5. Failed(i) <=> nm \in DOMAIN s.scope \/ Failed(s)
  BY <1>1 DEF Failed
<1> QED BY <1>1, <1>3, <1>4, <1>5 DEF b

LEMMA InitTypeIs ==
  ASSUME NEW s, NEW node, NEW def, NEW of, IsPkg(s)
  PROVE  LET q == InitType(s, node, def, of)
         IN  /\ Failed(s) => q = s
             /\ q.info = s.info /\ q.incs = s.incs /\ q.tracked = s.tracked
             /\ q.count = s.count /\ q.pubs = s.pubs /\ q.uses = s.uses /\ q.scope = s.scope
             /\ q.err = s.err /\ q.cur = s.cur
             /\ ~Failed(s) => q.types = Bind(s.types, node, DefAs(s, node, def, of))
<1> DEFINE b == Bind(s.types, node, DefAs(s, node, def, of))
           q == [s EXCEPT !.types = b]
<1>1. InitType(s, node, def, of) = IF Failed(s) THEN s ELSE q
  BY DEF InitType, DefAs
<1> HIDE DEF b
<1>2. /\ q.info = s.info /\ q.incs = s.incs /\ q.tracked = s.tracked /\ q.count = s.count
      /\ q.pubs = s.pubs /\ q.uses = s.uses /\ q.scope = s.scope /\ q.err = s.err /\ q.types = b
      /\ q.cur = s.cur
  BY DEF IsPkg
<1> HIDE DEF q
<1> QED BY <1>1, <1>2 DEF b

LEMMA AddIncompleteIs ==
  ASSUME NEW s, NEW node, NEW ref, IsPkg(s)
  PROVE  LET q == AddIncomplete(s, node, ref)
         IN  /\ Failed(s) => q = s
             /\ q.info = s.info /\ q.count = s.count /\ q.pubs = s.pubs /\ q.uses = s.uses
             /\ q.scope = s.scope /\ q.err = s.err /\ q.types = s.types /\ q.cur = s.cur
             /\ ~Failed(s) => /\ q.incs = Append(s.incs, [node |-> node, ref |-> ref])
                              /\ q.tracked = Bind(s.tracked, node.name, node)
<1> DEFINE l == Append(s.incs, [node |-> node, ref |-> ref])
           b == Bind(s.tracked, node.name, node)
           q == [s EXCEPT !.incs = l, !.tracked = b]
<1>1. AddIncomplete(s, node, ref) = IF Failed(s) THEN s ELSE q
  BY DEF AddIncomplete
<1> HIDE DEF l, b
<1>2. /\ q.info = s.info /\ q.count = s.count /\ q.pubs = s.pubs /\ q.uses = s.uses
      /\ q.scope = s.scope /\ q.err = s.err /\ q.types = s.types /\ q.incs = l /\ q.tracked = b
      /\ q.cur = s.cur
  BY DEF IsPkg
<1> HIDE DEF q
<1> QED BY <1>1, <1>2 DEF l, b

-----------------------------------------------------------------------------
(* The primitives keep what the invariant says. *)

(* A node of a type, and what its kind says of its name. *)
IsTypeNode(n) ==
  /\ n \in Node /\ n.kind \in TypeKind /\ n.name \in CName
  /\ n.kind = "Type" <=> n.name \in Tag

LEMMA FailGood ==
  ASSUME NEW s, NEW e \in Errs \ {"none"}, Sound(s), Apart(s)
  PROVE  Sound(Fail(s, e)) /\ Apart(Fail(s, e)) /\ Failed(Fail(s, e)) /\ Keeps(s, Fail(s, e))
<1> DEFINE q == Fail(s, e)
<1>1. Sound(q) /\ Failed(q)
  BY FailSound
<1>2. /\ q.scope = s.scope /\ q.types = s.types /\ q.incs = s.incs /\ q.tracked = s.tracked
      /\ q.uses = s.uses
  BY FailIs DEF Sound
<1> HIDE DEF q
<1>3. Apart(q)
  BY <1>2 DEF Apart
<1>4. Keeps(s, q)
  BY <1>1, <1>2 DEF Keeps
<1> QED BY <1>1, <1>3, <1>4 DEF q

(* A node that is registered is one to be declared. *)
LEMMA RegisterGood ==
  ASSUME NEW s, NEW X, NEW node \in Node, NEW g, Good(s, X),
         node \in DOMAIN s.info => node.kind \notin TypeKind,
         NEW Y, \/ Y = X \cup {node} /\ (~Failed(s) => node.name \notin DOMAIN s.tracked)
                \/ Y = X /\ node.kind \notin TypeKind
  PROVE  Good(Register(s, node, g), Y) /\ Keeps(s, Register(s, node, g))
<1> DEFINE q == Register(s, node, g)
           v == SuffixCount(g, Users(s, g) + 1)
<1>1. Sound(q)
  BY RegisterSound DEF Good
<1>2. /\ q.info = Bind(s.info, node, v) /\ q.scope = s.scope /\ q.types = s.types
      /\ q.incs = s.incs /\ q.tracked = s.tracked /\ q.err = s.err /\ q.uses = s.uses
  BY RegisterIs DEF Good, Sound
<1> HIDE DEF q, v
<1>3. Apart(q)
  BY <1>2 DEF Good, Apart
<1>4. Failed(q) = Failed(s)
  BY <1>2 DEF Failed
<1>5. ASSUME ~Failed(s) PROVE Live(q, Y, {})
  <2>1. Live(s, X, {})
    BY <1>5 DEF Good
  <2>2. DOMAIN s.types \subseteq DOMAIN s.info
    BY <2>1 DEF Live, Registered
  <2>3. Y \subseteq X \cup {node} /\ X \subseteq Y /\ (node.kind \in TypeKind => node \in Y)
    OBVIOUS
  <2>4. \A x : x \in DOMAIN q.info <=> x \in DOMAIN s.info \/ x = node
    BY <1>2, BindDomain
  <2>5. node \notin DOMAIN s.types
    BY <2>2 DEF Good, Apart, KindsOK
  <2>6. \A n \in DOMAIN s.types : q.info[n] = s.info[n]
    BY <1>2, <2>2, <2>5, BindAt
  <2>7. \A i \in 1..Len(s.incs) : s.incs[i].node # node
    BY <2>5 DEF Good, Sound, ListOK
  <2>8. Waiting(q, Y)
    <3>1. Waiting(s, X)
      BY <2>1 DEF Live
    <3>2. ASSUME NEW n \in Y
          PROVE  /\ n \in DOMAIN s.types => s.types[n].inits = 0
                 /\ n.name \notin DOMAIN s.tracked
                 /\ \A i \in 1..Len(s.incs) : s.incs[i].node # n
      <4>1. CASE n \in X
        BY <3>1, <4>1 DEF Waiting
      <4>2. CASE n \notin X
        BY <4>2, <1>5, <2>5, <2>7
      <4> QED BY <4>1, <4>2
    <3> QED BY <3>2, <1>2 DEF Waiting
  <2>9. Tracks(q, Y, {}) /\ Listed(q) /\ RefsKnown(q)
    BY <2>1, <1>2, <2>3, <2>5 DEF Live, Tracks, Listed, RefsKnown, Known
  <2>10. Placed(q, Y)
    BY <2>1, <1>2, <2>3, <2>5, <2>6 DEF Live, Placed, Known
  <2>11. Registered(q, Y)
    BY <2>1, <1>2, <2>3, <2>4 DEF Live, Registered
  <2> QED BY <2>8, <2>9, <2>10, <2>11 DEF Live
<1>6. Keeps(s, q)
  BY <1>2, <1>4 DEF Keeps
<1> QED BY <1>1, <1>3, <1>4, <1>5, <1>6 DEF Good, q

LEMMA CollectGood ==
  ASSUME NEW s, NEW X, NEW c \in CName, NEW nm, Good(s, X)
  PROVE  /\ Good(CollectNameMapping(s, c, nm), X) /\ Keeps(s, CollectNameMapping(s, c, nm))
         /\ SameCore(s, CollectNameMapping(s, c, nm))
<1> DEFINE q == CollectNameMapping(s, c, nm)
<1>1. Sound(q)
  BY CollectSound DEF Good
<1>2. SameCore(s, q)
  BY DEF SameCore, CollectNameMapping, Good, Sound, IsPkg
<1> HIDE DEF q
<1> QED BY <1>1, <1>2, GoodSame DEF q

(* A scope that grows without touching what it has bound. *)
LEMMA ScopeGrows ==
  ASSUME NEW s, NEW q, NEW X, Good(s, X), Sound(q),
         q.info = s.info, q.types = s.types, q.incs = s.incs, q.tracked = s.tracked, q.uses = s.uses,
         Failed(s) => Failed(q),
         NEW c, NEW o,
         q.scope = s.scope \/ q.scope = Bind(s.scope, c, o),
         c \in DOMAIN s.scope => o.node = s.scope[c].node /\ (s.scope[c].how = "decl" => o.how = "decl"),
         o.how = "subst" => o.node.name = c /\ o.node \in DOMAIN s.types
  PROVE  Good(q, X) /\ Keeps(s, q)
<1>1. \A g \in DOMAIN s.scope : /\ g \in DOMAIN q.scope /\ q.scope[g].node = s.scope[g].node
                                /\ s.scope[g].how = "decl" => q.scope[g].how = "decl"
  BY BindDomain, BindAt
<1>2. \A g \in DOMAIN q.scope : \/ g \in DOMAIN s.scope /\ q.scope[g] = s.scope[g]
                                \/ g = c /\ q.scope[g] = o
  BY BindDomain, BindAt
<1>3. SubstByName(q.scope, q.types)
  BY <1>2 DEF Good, Apart, SubstByName
<1>4. Apart(q)
  BY <1>1, <1>3, UsesKept DEF Good, Apart
<1>5. ASSUME ~Failed(q) PROVE Live(q, X, {})
  <2>1. Live(s, X, {})
    BY <1>5 DEF Good
  <2>2. Waiting(q, X) /\ Tracks(q, X, {}) /\ Listed(q) /\ Registered(q, X)
    BY <2>1 DEF Live, Waiting, Tracks, Listed, Registered
  <2>3. \A x : Known(s, x) => Known(q, x)
    BY <1>1 DEF Known
  <2>4. Placed(q, X) /\ RefsKnown(q)
    BY <2>1, <2>3, <1>1 DEF Live, Placed, RefsKnown
  <2> QED BY <2>2, <2>4 DEF Live
<1>6. Keeps(s, q)
  BY <1>1 DEF Keeps
<1> QED BY <1>4, <1>5, <1>6 DEF Good

LEMMA InsertGood ==
  ASSUME NEW s, NEW X, NEW node \in Node, NEW nm, Good(s, X)
  PROVE  Good(Insert(s, nm, node), X) /\ Keeps(s, Insert(s, nm, node))
<1> DEFINE q == Insert(s, nm, node)
<1>1. Sound(q)
  BY InsertSound DEF Good
<1>2. /\ q.info = s.info /\ q.types = s.types /\ q.incs = s.incs /\ q.tracked = s.tracked
      /\ q.uses = s.uses
      /\ IF nm \in DOMAIN s.scope THEN q.scope = s.scope /\ q.err = "redeclared"
         ELSE q.scope = Bind(s.scope, nm, Own(node)) /\ q.err = s.err
  BY InsertIs DEF Good, Sound
<1> HIDE DEF q
<1>3. Failed(s) => Failed(q)
  BY <1>2 DEF Failed
<1>4. Own(node).node = node /\ Own(node).how = "decl"
  BY DEF Own
<1>5. CASE nm \in DOMAIN s.scope
  <2>1. q.scope = s.scope
    BY <1>2, <1>5
  <2> DEFINE o == [node |-> s.scope[nm].node, how |-> "decl"]
  <2>2. o.node = s.scope[nm].node /\ o.how # "subst" /\ o.how = "decl"
    OBVIOUS
  <2> HIDE DEF o
  <2> QED BY <1>1, <1>2, <1>3, <2>1, <2>2, ScopeGrows DEF q
<1>6. CASE nm \notin DOMAIN s.scope
  <2>1. q.scope = Bind(s.scope, nm, Own(node))
    BY <1>2, <1>6
  <2>2. Own(node).how # "subst"
    BY <1>4
  <2> QED BY <1>1, <1>2, <1>3, <1>6, <2>1, <2>2, ScopeGrows DEF q
<1> QED BY <1>5, <1>6

(* A name is substituted for the type made for it. *)
LEMMA SubstGood ==
  ASSUME NEW s, NEW X, NEW c \in CName, NEW node \in DOMAIN s.types, node.name = c, Good(s, X)
  PROVE  Good(SubstObj(s, c, node), X) /\ Keeps(s, SubstObj(s, c, node))
<1> DEFINE q == SubstObj(s, c, node)
           o == [node |-> node, how |-> "subst"]
<1>1. node \in Node
  BY DEF Good, Sound, TypesOK
<1>2. Sound(q)
  BY <1>1, SubstSound DEF Good
<1>3. /\ q.info = s.info /\ q.types = s.types /\ q.incs = s.incs /\ q.tracked = s.tracked
      /\ q.uses = s.uses
      /\ IF Failed(s) THEN q = s
         ELSE IF c \in DOMAIN s.scope /\ s.scope[c].how = "decl"
         THEN q.scope = s.scope /\ q.err = "redefined"
         ELSE q.scope = Bind(s.scope, c, o) /\ q.err = s.err
  BY SubstIs DEF Good, Sound
<1> HIDE DEF q
<1>4. o.node = node /\ o.how = "subst"
  OBVIOUS
<1> HIDE DEF o
<1>5. CASE Failed(s)
  <2>1. q = s
    BY <1>3, <1>5
  <2> QED BY <2>1, KeepsRefl DEF q
<1>6. CASE ~Failed(s) /\ c \in DOMAIN s.scope /\ s.scope[c].how = "decl"
  <2> DEFINE w == [node |-> s.scope[c].node, how |-> "decl"]
  <2>1. w.node = s.scope[c].node /\ w.how # "subst" /\ w.how = "decl" /\ q.scope = s.scope
    BY <1>3, <1>6
  <2> HIDE DEF w
  <2> QED BY <1>2, <1>3, <1>6, <2>1, ScopeGrows DEF q
<1>7. CASE ~Failed(s) /\ ~(c \in DOMAIN s.scope /\ s.scope[c].how = "decl")
  <2>1. q.scope = Bind(s.scope, c, o)
    BY <1>3, <1>7
  <2>2. ASSUME c \in DOMAIN s.scope PROVE s.scope[c].node = node
    <3>1. s.scope[c].how = "subst"
      BY <1>7, <2>2 DEF Good, Sound, ScopeOK
    <3>2. /\ s.scope[c].node.name = c
          /\ s.scope[c].node \in DOMAIN s.types \/ c \in DepName
      BY <2>2, <3>1 DEF Good, Apart, SubstByName
    <3>3. c \notin DepName
      BY DEF Good, Apart, KindsOK
    <3> QED BY <3>2, <3>3 DEF Good, Apart, OneType
  <2> QED BY <1>2, <1>3, <1>4, <1>7, <2>1, <2>2, ScopeGrows DEF q
<1> QED BY <1>5, <1>6, <1>7

(* A node to be declared gets its type declaration, still without a body.  *)
LEMMA EmptyTypeDeclGood ==
  ASSUME NEW s, NEW X, NEW node \in X, NEW nm, Good(s, X), ~Failed(s),
         IsTypeNode(node), node.name \notin DepName, node \in DOMAIN s.info,
         \A n \in DOMAIN s.types : n.name # node.name
  PROVE  /\ Good(EmptyTypeDecl(s, nm, node), X) /\ Keeps(s, EmptyTypeDecl(s, nm, node))
         /\ EmptyTypeDecl(s, nm, node).tracked = s.tracked
         /\ EmptyTypeDecl(s, nm, node).info = s.info
         /\ ~Failed(EmptyTypeDecl(s, nm, node)) =>
              /\ node \in DOMAIN EmptyTypeDecl(s, nm, node).types
              /\ nm \in DOMAIN EmptyTypeDecl(s, nm, node).scope
              /\ EmptyTypeDecl(s, nm, node).scope = Bind(s.scope, nm, Own(node))
<1> DEFINE q == EmptyTypeDecl(s, nm, node)
           t == NewDef(s, nm)
<1>1. Sound(q)
  BY EmptyTypeDeclSound DEF Good, IsTypeNode
<1>2. /\ q.info = s.info /\ q.incs = s.incs /\ q.tracked = s.tracked /\ q.uses = s.uses
      /\ IF nm \in DOMAIN s.scope
         THEN q.scope = s.scope /\ q.types = s.types /\ q.err = "redeclared"
         ELSE /\ q.scope = Bind(s.scope, nm, Own(node)) /\ q.err = s.err
              /\ q.types = Bind(s.types, node, t)
  BY EmptyTypeDeclIs DEF Good, Sound
<1> HIDE DEF q
<1>3. t.inits = 0 /\ Own(node).how = "decl"
  BY DEF NewDef, Own
<1> HIDE DEF t
<1>4. CASE nm \in DOMAIN s.scope
  <2>1. q.scope = s.scope /\ q.types = s.types /\ Failed(q)
    BY <1>2, <1>4 DEF Failed
  <2>2. Apart(q)
    BY <1>2, <2>1 DEF Good, Apart
  <2>3. Keeps(s, q)
    BY <2>1 DEF Keeps
  <2> QED BY <1>1, <1>2, <2>1, <2>2, <2>3 DEF Good, q
<1>5. CASE nm \notin DOMAIN s.scope
  <2>1. q.scope = Bind(s.scope, nm, Own(node)) /\ q.types = Bind(s.types, node, t) /\ ~Failed(q)
    BY <1>2, <1>5 DEF Failed
  <2>2. node \notin DOMAIN s.types
    OBVIOUS
  <2>3. /\ \A n : n \in DOMAIN q.types <=> n \in DOMAIN s.types \/ n = node
        /\ \A n \in DOMAIN s.types : q.types[n] = s.types[n]
        /\ q.types[node] = t
    BY <2>1, <2>2, BindDomain, BindAt
  <2>4. /\ \A g : g \in DOMAIN q.scope <=> g \in DOMAIN s.scope \/ g = nm
        /\ \A g \in DOMAIN s.scope : q.scope[g] = s.scope[g]
        /\ q.scope[nm] = Own(node)
    BY <2>1, <1>5, BindDomain, BindAt
  <2>5. KindsOK(q.types)
    BY <2>3 DEF Good, Apart, KindsOK, IsTypeNode
  <2>6. OneType(q.types)
    BY <2>3 DEF Good, Apart, OneType
  <2>7. Once(q.types)
    BY <2>3, <1>3 DEF Good, Apart, Once
  <2>8. SubstByName(q.scope, q.types)
    BY <2>3, <2>4, <1>3 DEF Good, Apart, SubstByName
  <2>9. Apart(q)
    BY <1>2, <2>4, <2>5, <2>6, <2>7, <2>8, UsesKept DEF Good, Apart
  <2>10. Live(s, X, {})
    BY DEF Good
  <2>11. Waiting(q, X)
    BY <1>2, <1>3, <2>3, <2>10 DEF Live, Waiting
  <2>12. Tracks(q, X, {}) /\ Listed(q)
    BY <1>2, <2>3, <2>10 DEF Live, Tracks, Listed
  <2>13. \A x : Known(s, x) => Known(q, x)
    BY <1>2, <2>4 DEF Known
  <2>14. Placed(q, X) /\ RefsKnown(q)
    BY <1>2, <2>3, <2>4, <2>10, <2>13 DEF Live, Placed, RefsKnown
  <2>15. Registered(q, X)
    BY <1>2, <2>3, <2>10 DEF Live, Registered
  <2>16. Keeps(s, q)
    BY <2>1, <2>3, <2>4 DEF Keeps
  <2> QED BY <1>1, <1>2, <2>1, <2>3, <2>4, <2>9, <2>11, <2>12, <2>14, <2>15, <2>16 DEF Good, Live, q
<1> QED BY <1>4, <1>5

(* A node that joins the incomplete types is declared. *)
LEMMA AddIncompleteGood ==
  ASSUME NEW s, NEW X, NEW node \in X, NEW ref \in CName \cup {NoName}, Good(s, X),
         IsTypeNode(node), \A n \in X \ {node} : n.name # node.name,
         ~Failed(s) => /\ node \in DOMAIN s.types
                       /\ node.kind # "Type" \/ s.info[node] = node.name => node.name \in DOMAIN s.scope
                       /\ ref = NoName \/ Known(s, ref)
  PROVE  /\ Good(AddIncomplete(s, node, ref), X \ {node}) /\ Keeps(s, AddIncomplete(s, node, ref))
         /\ Failed(AddIncomplete(s, node, ref)) <=> Failed(s)
         /\ AddIncomplete(s, node, ref).scope = s.scope
         /\ ~Failed(s) => AddIncomplete(s, node, ref).tracked = Bind(s.tracked, node.name, node)
<1> DEFINE q == AddIncomplete(s, node, ref)
           e == [node |-> node, ref |-> ref]
<1>1. Sound(q)
  BY AddIncompleteSound DEF Good, IsTypeNode
<1>2. /\ Failed(s) => q = s
      /\ q.info = s.info /\ q.scope = s.scope /\ q.err = s.err /\ q.types = s.types
      /\ q.uses = s.uses
      /\ ~Failed(s) => /\ q.incs = Append(s.incs, e)
                       /\ q.tracked = Bind(s.tracked, node.name, node)
  BY AddIncompleteIs DEF Good, Sound
<1>3. e.node = node /\ e.ref = ref
  OBVIOUS
<1> HIDE DEF q, e
<1>4. CASE Failed(s)
  <2>1. q = s
    BY <1>2, <1>4
  <2> QED BY <2>1, <1>4, KeepsRefl DEF Good, q
<1>5. CASE ~Failed(s)
  <2>1. Live(s, X, {}) /\ ~Failed(q)
    BY <1>2, <1>5 DEF Good, Failed
  <2>2. /\ \A x : x \in DOMAIN q.tracked <=> x \in DOMAIN s.tracked \/ x = node.name
        /\ q.tracked[node.name] = node
        /\ \A x \in DOMAIN s.tracked : x # node.name => q.tracked[x] = s.tracked[x]
    BY <1>2, <1>5, BindDomain, BindAt
  <2>3. s.incs \in Seq(Entry)
    BY DEF Good, Sound, ListOK
  <2>4. /\ Len(s.incs) \in Nat /\ Len(q.incs) = Len(s.incs) + 1 /\ q.incs[Len(s.incs) + 1] = e
        /\ \A i \in 1..Len(s.incs) : q.incs[i] = s.incs[i]
    BY <1>2, <1>5, <2>3
  <2>5. \A i \in 1..Len(q.incs) : i \in 1..Len(s.incs) \/ i = Len(s.incs) + 1
    BY <2>4
  <2>6. Waiting(s, X)
    BY <2>1 DEF Live
  <2>7. EntriesApart(q.incs)
    <3>1. EntriesApart(s.incs)
      BY DEF Good, Apart
    <3>2. \A i \in 1..Len(s.incs) : q.incs[i].node # node
      BY <2>4, <2>6 DEF Waiting
    <3>3. q.incs[Len(s.incs) + 1].node = node
      BY <2>4, <1>3
    <3> QED BY <3>1, <3>2, <3>3, <2>4, <2>5 DEF EntriesApart
  <2>8. TrackedByName(q.tracked)
    BY <2>2 DEF Good, Apart, TrackedByName
  <2>9. Apart(q)
    BY <1>2, <2>7, <2>8 DEF Good, Apart
  <2>10. Waiting(q, X \ {node})
    BY <1>2, <1>3, <2>2, <2>4, <2>5, <2>6 DEF Waiting
  <2>11. Tracks(q, X \ {node}, {})
    <3>1. s.types[node].inits = 0
      BY <1>5, <2>6 DEF Waiting
    <3>2. ASSUME NEW n \in DOMAIN s.types, n # node PROVE n.name # node.name
      BY <3>2, <1>5 DEF Good, Apart, OneType
    <3> QED BY <3>1, <3>2, <1>2, <2>1, <2>2 DEF Live, Tracks
  <2>12. \A x : Known(s, x) => Known(q, x)
    BY <1>2, <2>2 DEF Known
  <2>13. Placed(q, X \ {node})
    <3>1. Known(q, node.name)
      BY <2>2 DEF Known
    <3> QED BY <3>1, <1>2, <1>5, <2>1, <2>12 DEF Live, Placed
  <2>14. Listed(q)
    <3>1. Listed(s)
      BY <2>1 DEF Live
    <3>2. ASSUME NEW x \in DOMAIN q.tracked
          PROVE  \E i \in 1..Len(q.incs) : q.incs[i].node = q.tracked[x]
      <4>1. CASE x = node.name
        BY <4>1, <2>2, <2>4, <1>3
      <4>2. CASE x # node.name
        BY <4>2, <3>1, <2>2, <2>4 DEF Listed
      <4> QED BY <4>1, <4>2
    <3> QED BY <3>2 DEF Listed
  <2>15. RefsKnown(q)
    <3>1. RefsKnown(s)
      BY <2>1 DEF Live
    <3>2. ASSUME NEW i \in 1..Len(q.incs), q.incs[i].ref # NoName
          PROVE  Known(q, q.incs[i].ref)
      <4>1. CASE i \in 1..Len(s.incs)
        BY <4>1, <3>1, <3>2, <2>4, <2>12 DEF RefsKnown
      <4>2. CASE i = Len(s.incs) + 1
        BY <4>2, <3>2, <1>3, <1>5, <2>4, <2>12
      <4> QED BY <4>1, <4>2, <2>5
    <3> QED BY <3>2 DEF RefsKnown
  <2>16. Registered(q, X \ {node})
    BY <1>2, <1>5, <2>1 DEF Live, Registered
  <2>17. Keeps(s, q)
    BY <1>2, <2>1 DEF Keeps
  <2>18. Good(q, X \ {node})
    BY <1>1, <2>9, <2>10, <2>11, <2>13, <2>14, <2>15, <2>16 DEF Good, Live
  <2> QED BY <1>2, <1>5, <2>1, <2>17, <2>18 DEF q
<1> QED BY <1>4, <1>5

(* The same of the one node a method is declaring. *)
LEMMA AddedGood ==
  ASSUME NEW s, NEW node, NEW ref \in CName \cup {NoName}, Good(s, {node}), IsTypeNode(node),
         ~Failed(s) => /\ node \in DOMAIN s.types
                       /\ node.kind # "Type" \/ s.info[node] = node.name => node.name \in DOMAIN s.scope
                       /\ ref = NoName \/ Known(s, ref)
  PROVE  /\ Good(AddIncomplete(s, node, ref), {}) /\ Keeps(s, AddIncomplete(s, node, ref))
         /\ Failed(AddIncomplete(s, node, ref)) <=> Failed(s)
         /\ AddIncomplete(s, node, ref).scope = s.scope
         /\ ~Failed(s) => AddIncomplete(s, node, ref).tracked = Bind(s.tracked, node.name, node)
<1> DEFINE X == {node}
<1>1. node \in X /\ X \ {node} = {} /\ \A m \in X \ {node} : m.name # node.name
  OBVIOUS
<1>2. Good(s, X)
  OBVIOUS
<1> HIDE DEF X
<1>3. /\ Good(AddIncomplete(s, node, ref), X \ {node}) /\ Keeps(s, AddIncomplete(s, node, ref))
      /\ Failed(AddIncomplete(s, node, ref)) <=> Failed(s)
      /\ AddIncomplete(s, node, ref).scope = s.scope
      /\ ~Failed(s) => AddIncomplete(s, node, ref).tracked = Bind(s.tracked, node.name, node)
  BY <1>1, <1>2, AddIncompleteGood
<1> QED BY <1>1, <1>3

(* A type that is not waited for any more has its body. *)
LEMMA SettleGood ==
  ASSUME NEW s, NEW q, NEW X, NEW node \in X, NEW t, Good(s, X), Sound(q), ~Failed(s),
         node \in DOMAIN s.types, node.name \in DOMAIN s.scope,
         q.info = s.info, q.scope = s.scope, q.incs = s.incs, q.tracked = s.tracked, q.err = s.err,
         q.uses = s.uses,
         q.types = Bind(s.types, node, t), t.inits = s.types[node].inits + 1, t.go = s.types[node].go
  PROVE  Good(q, X \ {node}) /\ Keeps(s, q)
<1>1. Live(s, X, {}) /\ ~Failed(q)
  BY DEF Good, Failed
<1>2. t.inits = 1
  BY <1>1 DEF Live, Waiting
<1>3. /\ \A n : n \in DOMAIN q.types <=> n \in DOMAIN s.types
      /\ \A n \in DOMAIN s.types : n # node => q.types[n] = s.types[n]
      /\ q.types[node] = t
  BY BindDomain, BindAt
<1>4. KindsOK(q.types) /\ OneType(q.types)
  BY <1>3 DEF Good, Apart, KindsOK, OneType
<1>5. Once(q.types)
  BY <1>2, <1>3 DEF Good, Apart, Once
<1>6. SubstByName(q.scope, q.types)
  BY <1>3 DEF Good, Apart, SubstByName
<1>7. Apart(q)
  BY <1>4, <1>5, <1>6 DEF Good, Apart
<1>8. Waiting(q, X \ {node})
  BY <1>1, <1>3 DEF Live, Waiting
<1>9. Tracks(q, X \ {node}, {})
  <2>1. node.name \notin DOMAIN s.tracked
    BY <1>1 DEF Live, Waiting
  <2>2. \A n \in DOMAIN s.types : n # node => n.name # node.name
    BY DEF Good, Apart, OneType
  <2> QED BY <2>1, <2>2, <1>1, <1>2, <1>3 DEF Live, Tracks
<1>10. Placed(q, X \ {node})
  BY <1>1, <1>3 DEF Live, Placed, Known
<1>11. Listed(q) /\ RefsKnown(q) /\ Registered(q, X \ {node})
  BY <1>1, <1>3 DEF Live, Listed, RefsKnown, Registered, Known
<1>12. Keeps(s, q)
  <2>1. \A n \in DOMAIN s.types : /\ n \in DOMAIN q.types /\ q.types[n].go = s.types[n].go
                                  /\ s.types[n].inits > 0 => q.types[n].inits > 0
    BY <1>2, <1>3
  <2> QED BY <2>1, <1>1 DEF Keeps
<1> QED BY <1>1, <1>7, <1>8, <1>9, <1>10, <1>11, <1>12 DEF Good, Live

(* A type stops being incomplete when it gets its body. *)
LEMMA CompletedGood ==
  ASSUME NEW s, NEW q, NEW c, NEW node, NEW t, Good(s, {}), Sound(q), ~Failed(s),
         node \in DOMAIN s.types, node.name = c, c \in DOMAIN s.scope, c \in DOMAIN s.tracked,
         q.info = s.info, q.scope = s.scope, q.incs = s.incs, q.err = s.err, q.uses = s.uses,
         q.tracked = Unbind(s.tracked, c),
         q.types = Bind(s.types, node, t), t.inits = s.types[node].inits + 1, t.go = s.types[node].go
  PROVE  Good(q, {}) /\ Keeps(s, q)
<1>1. Live(s, {}, {}) /\ ~Failed(q)
  BY DEF Good, Failed
<1>2. t.inits = 1
  BY <1>1 DEF Live, Tracks
<1>3. /\ \A n : n \in DOMAIN q.types <=> n \in DOMAIN s.types
      /\ \A n \in DOMAIN s.types : n # node => q.types[n] = s.types[n]
      /\ q.types[node] = t
  BY BindDomain, BindAt
<1>4. /\ \A x : x \in DOMAIN q.tracked <=> x \in DOMAIN s.tracked /\ x # c
      /\ \A x \in DOMAIN q.tracked : q.tracked[x] = s.tracked[x]
  BY UnbindDomain, UnbindAt
<1>5. KindsOK(q.types) /\ OneType(q.types)
  BY <1>3 DEF Good, Apart, KindsOK, OneType
<1>6. Once(q.types)
  BY <1>2, <1>3 DEF Good, Apart, Once
<1>7. SubstByName(q.scope, q.types)
  BY <1>3 DEF Good, Apart, SubstByName
<1>8. TrackedByName(q.tracked)
  BY <1>4 DEF Good, Apart, TrackedByName
<1>9. Apart(q)
  BY <1>5, <1>6, <1>7, <1>8 DEF Good, Apart
<1>10. Waiting(q, {})
  BY DEF Waiting
<1>11. Tracks(q, {}, {})
  <2>1. \A n \in DOMAIN s.types : n # node => n.name # c
    BY DEF Good, Apart, OneType
  <2> QED BY <2>1, <1>1, <1>2, <1>3, <1>4 DEF Live, Tracks
<1>12. \A x : Known(s, x) => Known(q, x)
  BY <1>4 DEF Known
<1>13. Placed(q, {}) /\ RefsKnown(q)
  BY <1>1, <1>3, <1>12 DEF Live, Placed, RefsKnown
<1>14. Listed(q) /\ Registered(q, {})
  BY <1>1, <1>3, <1>4 DEF Live, Listed, Registered
<1>15. Keeps(s, q)
  <2>1. \A n \in DOMAIN s.types : /\ n \in DOMAIN q.types /\ q.types[n].go = s.types[n].go
                                  /\ s.types[n].inits > 0 => q.types[n].inits > 0
    BY <1>2, <1>3
  <2> QED BY <2>1, <1>1 DEF Keeps
<1> QED BY <1>1, <1>9, <1>10, <1>11, <1>13, <1>14, <1>15 DEF Good, Live

-----------------------------------------------------------------------------
(* References. *)

KeepsTracked(s, q) == \A c \in DOMAIN s.tracked : c \in DOMAIN q.tracked

(* The nodes being declared while references are converted are typedefs. *)
NoTag(X) == \A n \in X : n.name \notin Tag

LEMMA TagFacts ==
  ASSUME NEW c \in Tag
  PROVE  c \in CName /\ IsTypeNode(TypeNode(c)) /\ TypeNode(c).name = c /\ TypeNode(c).kind = "Type"
<1>1. c \in CName
  BY ConvertAssumption DEF ConvertAssumption
<1> QED BY <1>1, TypeNodeFacts DEF IsTypeNode, TypeNode, TypeKind

(* RegisterNode on a node it has not seen. *)
LEMMA RegisterNodeNew ==
  ASSUME NEW s, NEW node, NEW g, NEW origin, node \notin DOMAIN s.info, IsPkg(s)
  PROVE  LET r == RegisterNode(s, node, g, origin)
             nm == SuffixCount(g, Users(s, g) + 1)
         IN  /\ r.pkg = Register(s, node, g) /\ ~r.exist
             /\ r.bad => nm \in DOMAIN s.scope \/ node.name \in DOMAIN s.scope
             /\ nm \in DOMAIN s.scope => r.bad
             /\ origin /\ node.name \in DOMAIN s.scope => r.bad
             /\ r.bad => r.name = NoName
             /\ ~r.bad => r.name = nm
             /\ r.pkg.info[node] = nm
<1> DEFINE q == Register(s, node, g)
           nm == SuffixCount(g, Users(s, g) + 1)
<1>1. q.info = Bind(s.info, node, nm) /\ q.scope = s.scope
  BY RegisterIs
<1>2. q.info[node] = nm
  BY <1>1, BindAt
<1> DEFINE bad == Taken(q, node, q.info[node], origin)
           nn == IF bad THEN NoName ELSE q.info[node]
           r == RegisterNode(s, node, g, origin)
<1>3. r = [pkg |-> q, name |-> nn, exist |-> FALSE, bad |-> bad]
  BY Zenon DEF RegisterNode
<1>4. bad <=> nm \in DOMAIN s.scope \/ (origin /\ node.name \in DOMAIN s.scope)
  BY <1>1, <1>2, Zenon DEF Taken
<1>5. nn = IF bad THEN NoName ELSE nm
  BY <1>2
<1> HIDE DEF q, nm, bad, nn, r
<1>6. r.pkg = q /\ r.name = nn /\ r.exist = FALSE /\ r.bad = bad
  BY <1>3, Zenon
<1>7. r.pkg = q /\ ~r.exist /\ (r.bad <=> bad) /\ r.name = IF r.bad THEN NoName ELSE nm
  BY <1>5, <1>6, Zenon
<1>8. r.pkg.info[node] = nm
  BY <1>2, <1>7
<1> QED BY <1>4, <1>7, <1>8, Zenon DEF q, nm, r

LEMMA ImplicitGood ==
  ASSUME NEW s, NEW X, NEW c \in Tag, Good(s, X), ~Failed(s), NoTag(X), c \notin DOMAIN s.scope
  PROVE  LET q == ImplicitForwardDecl(s, c)
         IN  Good(q, X) /\ Keeps(s, q) /\ KeepsTracked(s, q) /\ (~Failed(q) => c \in DOMAIN q.tracked)
<1> DEFINE n == TypeNode(c)
           r == RegisterNode(s, n, TypeGo[c], TRUE)
           d == EmptyTypeDecl(r.pkg, r.name, n)
           q == AddIncomplete(d, n, NoName)
           Y == X \cup {n}
<1>1. CASE c \in DOMAIN s.tracked
  BY <1>1, KeepsRefl DEF ImplicitForwardDecl, KeepsTracked
<1>2. CASE c \notin DOMAIN s.tracked
  <2>1. ImplicitForwardDecl(s, c) = q
    BY <1>2 DEF ImplicitForwardDecl
  <2>2. c \in CName /\ IsTypeNode(n) /\ n.name = c /\ n.kind = "Type" /\ n \in Node
    BY TagFacts DEF IsTypeNode
  <2>3. Live(s, X, {})
    BY DEF Good
  <2>4. n \notin X
    BY <2>2 DEF NoTag
  <2>5. \A m \in DOMAIN s.types : m.name # c
    <3>1. ASSUME NEW m \in DOMAIN s.types, m.name = c PROVE FALSE
      <4>1. m \notin X
        BY <3>1 DEF NoTag
      <4> QED BY <3>1, <4>1, <2>3, <1>2 DEF Live, Placed, Known
    <3> QED BY <3>1
  <2>6. n \notin DOMAIN s.info
    BY <2>2, <2>3, <2>4, <2>5 DEF Live, Registered, TypeKind
  <2>7. c \notin DepName
    BY DEF Good, Apart
  <2> DEFINE nm == SuffixCount(TypeGo[c], Users(s, TypeGo[c]) + 1)
  <2>8. /\ r.pkg = Register(s, n, TypeGo[c]) /\ (~r.bad => r.name = nm)
        /\ r.bad <=> nm \in DOMAIN s.scope \/ n.name \in DOMAIN s.scope
        /\ r.pkg.info[n] = nm
    <3>1. IsPkg(s)
      BY DEF Good, Sound
    <3> HIDE DEF n
    <3>2. r.bad => nm \in DOMAIN s.scope \/ n.name \in DOMAIN s.scope
      BY <2>6, <3>1, RegisterNodeNew, Zenon
    <3>4. nm \in DOMAIN s.scope => r.bad
      BY <2>6, <3>1, RegisterNodeNew, Zenon
    <3>5. n.name \in DOMAIN s.scope => r.bad
      BY <2>6, <3>1, RegisterNodeNew, Zenon
    <3>3. r.pkg = Register(s, n, TypeGo[c])
      BY <2>6 DEF RegisterNode
    <3>6. ~r.bad => r.name = nm
      BY <2>6, <3>1, RegisterNodeNew, Zenon
    <3>7. r.pkg.info[n] = nm
      <4>1. Register(s, n, TypeGo[c]).info = Bind(s.info, n, nm)
        BY <3>1, RegisterIs
      <4>2. Bind(s.info, n, nm)[n] = nm
        BY BindAt
      <4> HIDE DEF r, nm
      <4> QED BY <3>3, <4>1, <4>2
    <3> HIDE DEF r, nm
    <3> QED BY <3>2, <3>3, <3>4, <3>5, <3>6, <3>7
  <2> DEFINE rp == r.pkg
  <2>21. rp = Register(s, n, TypeGo[c])
    BY <2>8
  <2> HIDE DEF n, r
  <2>9. /\ rp.scope = s.scope /\ rp.types = s.types /\ rp.tracked = s.tracked
        /\ rp.err = s.err /\ rp.info = Bind(s.info, n, nm)
    <3>1. IsPkg(s)
      BY DEF Good, Sound
    <3> HIDE DEF rp
    <3> QED BY <2>21, <3>1, RegisterIs
  <2>10. Good(r.pkg, Y) /\ Keeps(s, r.pkg)
    <3>1. n.kind \in TypeKind
      BY <2>2 DEF IsTypeNode
    <3>2. Good(Register(s, n, TypeGo[c]), Y) /\ Keeps(s, Register(s, n, TypeGo[c]))
      BY <1>2, <2>2, <2>6, RegisterGood
    <3> QED BY <2>8, <3>2
  <2>11. n \in DOMAIN r.pkg.info /\ ~Failed(r.pkg)
    BY <2>9, BindDomain DEF Failed
  <2>12. nm = c => r.name = c
    BY <2>2, <2>8
  <2> HIDE DEF n, r, nm
  <2>13. /\ Good(d, Y) /\ Keeps(r.pkg, d) /\ d.tracked = r.pkg.tracked /\ d.info = r.pkg.info
         /\ ~Failed(d) => n \in DOMAIN d.types /\ r.name \in DOMAIN d.scope
    BY <2>2, <2>5, <2>7, <2>9, <2>10, <2>11, EmptyTypeDeclGood
  <2>14. \A m \in Y \ {n} : m.name # n.name
    BY <2>2 DEF NoTag
  <2>15. ~Failed(d) => (d.info[n] = n.name => n.name \in DOMAIN d.scope)
    BY <2>2, <2>8, <2>12, <2>13
  <2> HIDE DEF d, Y
  <2>16. /\ Good(q, Y \ {n}) /\ Keeps(d, q) /\ (Failed(q) <=> Failed(d))
         /\ ~Failed(d) => q.tracked = Bind(d.tracked, n.name, n)
    <3>1. n \in Y
      BY DEF Y
    <3>2. ~Failed(d) => /\ n \in DOMAIN d.types
                        /\ n.kind # "Type" \/ d.info[n] = n.name => n.name \in DOMAIN d.scope
                        /\ NoName = NoName \/ Known(d, NoName)
      BY <2>2, <2>13, <2>15
    <3> HIDE DEF q
    <3> QED BY <2>2, <2>13, <2>14, <3>1, <3>2, AddIncompleteGood DEF q
  <2>17. Failed(d) => q = d
    BY DEF AddIncomplete
  <2>18. Y \ {n} = X
    BY <2>4 DEF Y
  <2> HIDE DEF q
  <2>19. KeepsTracked(s, q) /\ (~Failed(q) => c \in DOMAIN q.tracked)
    BY <2>2, <2>9, <2>13, <2>16, <2>17, BindDomain DEF KeepsTracked
  <2>20. Keeps(s, q)
    BY <2>10, <2>13, <2>16, KeepsTrans
  <2> QED BY <2>1, <2>16, <2>18, <2>19, <2>20
<1> QED BY <1>1, <1>2

(* A reference C allows: to a tag, or to what has been declared. *)
Resolvable(s, c, third) == c \in Tag \/ c \in DOMAIN s.scope \/ c \in third

LEMMA UsesGood ==
  ASSUME NEW s, NEW X, NEW uses, Good(s, X), UsesOK(uses, s.scope)
  PROVE  LET q == [s EXCEPT !.uses = uses]
         IN  Good(q, X) /\ Keeps(s, q) /\ q.tracked = s.tracked /\ q.scope = s.scope
<1> DEFINE q == [s EXCEPT !.uses = uses]
<1>1. Sound(q)
  BY UsesSound DEF Good
<1>2. /\ q.info = s.info /\ q.scope = s.scope /\ q.types = s.types /\ q.incs = s.incs
      /\ q.tracked = s.tracked /\ q.err = s.err /\ q.uses = uses
  BY DEF Good, Sound, IsPkg
<1> HIDE DEF q
<1>3. Failed(q) <=> Failed(s)
  BY <1>2 DEF Failed
<1>4. Apart(q)
  BY <1>2 DEF Good, Apart
<1>5. Live(s, X, {}) => Live(q, X, {})
  BY <1>2 DEF Live, Waiting, Tracks, Known, Placed, Listed, RefsKnown, Registered
<1>6. Keeps(s, q)
  BY <1>2, <1>3 DEF Keeps
<1>7. Good(q, X) /\ Keeps(s, q) /\ q.tracked = s.tracked /\ q.scope = s.scope
  BY <1>1, <1>2, <1>3, <1>4, <1>5, <1>6 DEF Good
<1> QED BY <1>7 DEF q

(* What a known name resolves to was made for it, or owns the name in Go.  *)
Resolved(s, c) == s.uses \cup {[name |-> c, node |-> Target(s, c)]}

LEMMA ResolvedOK ==
  ASSUME NEW s, NEW c, Sound(s), Apart(s), Known(s, c)
  PROVE  UsesOK(Resolved(s, c), s.scope)
<1> DEFINE x == [name |-> c, node |-> Target(s, c)]
<1>1. x.name = c /\ x.node = Target(s, c)
  OBVIOUS
<1> HIDE DEF x
<1>2. x.node.name = c \/ (c \in DOMAIN s.scope /\ s.scope[c].how = "decl")
  <2>1. CASE c \in DOMAIN s.scope
    <3>1. x.node = s.scope[c].node /\ s.scope[c].how \in {"decl", "subst"}
      BY <1>1, <2>1 DEF Target, Sound, ScopeOK
    <3> QED BY <2>1, <3>1 DEF Apart, SubstByName
  <2>2. CASE c \notin DOMAIN s.scope
    <3>1. x.node = s.tracked[c] /\ c \in DOMAIN s.tracked
      BY <1>1, <2>2 DEF Target, Known
    <3> QED BY <3>1 DEF Apart, TrackedByName
  <2> QED BY <2>1, <2>2
<1>3. UsesOK(s.uses, s.scope)
  BY DEF Apart
<1>4. Resolved(s, c) = s.uses \cup {x}
  BY DEF Resolved, x
<1> QED BY <1>1, <1>2, <1>3, <1>4 DEF UsesOK

LEMMA LookupTypeGood ==
  ASSUME NEW s, NEW X, NEW c \in CName, NEW third, Good(s, X), NoTag(X), Resolvable(s, c, third)
  PROVE  LET q == LookupType(s, c, third)
         IN  Good(q, X) /\ Keeps(s, q) /\ KeepsTracked(s, q) /\ (~Failed(q) => Known(q, c))
<1> DEFINE q == IF c \in DOMAIN s.scope THEN s
                ELSE IF c \in third THEN Fail(s, "third")
                ELSE ImplicitForwardDecl(s, c)
           uses == Resolved(q, c)
           u == [q EXCEPT !.uses = uses]
<1>1. CASE Failed(s)
  BY <1>1, KeepsRefl DEF LookupType, KeepsTracked
<1>2. CASE ~Failed(s)
  <2>1. Good(q, X) /\ Keeps(s, q) /\ KeepsTracked(s, q) /\ (~Failed(q) => Known(q, c))
    <3>1. CASE c \in DOMAIN s.scope
      BY <3>1, KeepsRefl DEF Known, KeepsTracked
    <3>2. CASE c \notin DOMAIN s.scope /\ c \in third
      <4>1. q = Fail(s, "third")
        BY <3>2
      <4>2. Sound(q) /\ Apart(q) /\ Failed(q) /\ Keeps(s, q)
        BY <4>1, FailGood DEF Errs, Good
      <4>3. q.tracked = s.tracked
        BY <4>1, FailIs DEF Good, Sound
      <4> QED BY <4>2, <4>3 DEF Good, KeepsTracked
    <3>3. CASE c \notin DOMAIN s.scope /\ c \notin third
      <4>1. c \in Tag /\ q = ImplicitForwardDecl(s, c)
        BY <3>3 DEF Resolvable
      <4> HIDE DEF q
      <4> QED BY <4>1, <3>3, <1>2, ImplicitGood DEF Known
    <3> QED BY <3>1, <3>2, <3>3
  <2>2. LookupType(s, c, third) = IF Failed(q) THEN q ELSE u
    BY <1>2 DEF LookupType, Resolved
  <2> HIDE DEF q
  <2>3. CASE Failed(q)
    BY <2>1, <2>2, <2>3
  <2>4. CASE ~Failed(q)
    <3>1. UsesOK(uses, q.scope)
      BY <2>1, <2>4, ResolvedOK DEF Good
    <3> HIDE DEF uses
    <3>2. Good(u, X) /\ Keeps(q, u) /\ u.tracked = q.tracked /\ u.scope = q.scope
      BY <2>1, <3>1, UsesGood
    <3> HIDE DEF u
    <3>3. KeepsTracked(s, u) /\ Known(u, c)
      BY <2>1, <2>4, <3>2 DEF KeepsTracked, Known
    <3>4. Keeps(s, u)
      BY <2>1, <3>2, KeepsTrans
    <3> QED BY <2>2, <2>4, <3>2, <3>3, <3>4
  <2> QED BY <2>3, <2>4
<1> QED BY <1>1, <1>2

LEMMA ConvertRefsGood ==
  ASSUME NEW s, NEW X, NEW refs, RefsOK(refs), NEW third, Good(s, X), NoTag(X),
         \A i \in DOMAIN refs : Resolvable(s, refs[i], third)
  PROVE  LET q == ConvertRefs(s, refs, third)
         IN  Good(q, X) /\ Keeps(s, q) /\ KeepsTracked(s, q)
<1>1. CASE DOMAIN refs = {}
  <2>1. ConvertRefs(s, refs, third) = s
    BY <1>1 DEF ConvertRefs
  <2> QED BY <2>1, KeepsRefl DEF KeepsTracked
<1>2. CASE DOMAIN refs = {1}
  <2>1. ConvertRefs(s, refs, third) = LookupType(s, refs[1], third)
    BY <1>2 DEF ConvertRefs
  <2>2. refs[1] \in CName /\ Resolvable(s, refs[1], third)
    BY <1>2 DEF RefsOK
  <2> QED BY <2>1, <2>2, LookupTypeGood
<1>3. CASE DOMAIN refs = {1, 2}
  <2> DEFINE q == LookupType(s, refs[1], third)
             w == LookupType(q, refs[2], third)
  <2>1. ConvertRefs(s, refs, third) = w
    BY <1>3 DEF ConvertRefs
  <2>2. /\ refs[1] \in CName /\ refs[2] \in CName
        /\ Resolvable(s, refs[1], third) /\ Resolvable(s, refs[2], third)
    BY <1>3 DEF RefsOK
  <2>3. Good(q, X) /\ Keeps(s, q) /\ KeepsTracked(s, q)
    BY <2>2, LookupTypeGood
  <2> HIDE DEF q
  <2>4. Resolvable(q, refs[2], third)
    BY <2>2, <2>3 DEF Resolvable, Keeps
  <2>5. Good(w, X) /\ Keeps(q, w) /\ KeepsTracked(q, w)
    BY <2>2, <2>3, <2>4, LookupTypeGood
  <2> HIDE DEF w
  <2>6. Keeps(s, w) /\ KeepsTracked(s, w)
    BY <2>3, <2>5, KeepsTrans DEF KeepsTracked
  <2> QED BY <2>1, <2>5, <2>6
<1> QED BY <1>1, <1>2, <1>3 DEF RefsOK

-----------------------------------------------------------------------------
(* The declarations. *)

(* A type that can be registered under its name is the first of that name. *)
LEMMA FirstOfName ==
  ASSUME NEW s, NEW node, Good(s, {}), ~Failed(s), IsTypeNode(node),
         node \notin DOMAIN s.info, node.name \notin DOMAIN s.scope
  PROVE  /\ \A n \in DOMAIN s.types : n.name # node.name
         /\ node.name \notin DOMAIN s.tracked /\ node.name \notin DepName
<1>1. Live(s, {}, {})
  BY DEF Good
<1>2. ASSUME NEW n \in DOMAIN s.types, n.name = node.name PROVE FALSE
  <2>1. n.kind = "Type"
    BY <1>1, <1>2 DEF Live, Placed
  <2>2. n \in Node /\ (n.kind = "Type" <=> n.name \in Tag)
    BY DEF Good, Sound, TypesOK, Apart, KindsOK
  <2>3. n = node
    BY <1>2, <2>1, <2>2 DEF IsTypeNode, Node
  <2> QED BY <2>3, <1>1 DEF Live, Registered
<1>3. node.name \notin DOMAIN s.tracked
  BY <1>2 DEF Good, Sound, MapOK, Apart, TrackedByName
<1>4. node.name \notin DepName
  BY DEF Good, Apart
<1> QED BY <1>2, <1>3, <1>4

(* RegisterNode on a type: it is known already, or it is the first of its  *)
(* name and is to be declared.                                             *)
LEMMA RegisterTypeGood ==
  ASSUME NEW s, NEW node, NEW g, Good(s, {}), ~Failed(s), IsTypeNode(node)
  PROVE  LET r == RegisterNode(s, node, g, TRUE)
         IN  /\ Sound(r.pkg) /\ Apart(r.pkg) /\ Keeps(s, r.pkg)
             /\ r.pkg.types = s.types /\ r.pkg.tracked = s.tracked /\ r.pkg.scope = s.scope
             /\ ~Failed(r.pkg)
             /\ r.exist => node \in DOMAIN s.types /\ r.pkg = s /\ r.name = s.info[node]
             /\ ~r.exist /\ ~r.bad =>
                  /\ Good(r.pkg, {node}) /\ node \in DOMAIN r.pkg.info /\ r.pkg.info[node] = r.name
                  /\ node.name \notin DOMAIN s.scope
                  /\ \A n \in DOMAIN s.types : n.name # node.name
                  /\ node.name \notin DOMAIN s.tracked /\ node.name \notin DepName
<1> DEFINE r == RegisterNode(s, node, g, TRUE)
           w == Register(s, node, g)
           nm == SuffixCount(g, Users(s, g) + 1)
<1>1. CASE node \in DOMAIN s.info
  <2>1. r = [pkg |-> s, name |-> s.info[node], exist |-> TRUE, bad |-> FALSE]
    BY <1>1 DEF RegisterNode
  <2> HIDE DEF r
  <2>2. r.pkg = s /\ r.name = s.info[node] /\ r.exist
    BY <2>1, Zenon
  <2>3. node \in DOMAIN s.types
    BY <1>1 DEF Good, Live, Registered, IsTypeNode
  <2> QED BY <2>2, <2>3, KeepsRefl DEF Good, r
<1>2. CASE node \notin DOMAIN s.info
  <2>1. IsPkg(s) /\ node \in Node
    BY DEF Good, Sound, IsTypeNode
  <2>2. ~r.exist
    BY <1>2, <2>1, RegisterNodeNew, Zenon
  <2>3. node.name \in DOMAIN s.scope => r.bad
    BY <1>2, <2>1, RegisterNodeNew, Zenon
  <2>4. ~r.bad => r.name = nm
    BY <1>2, <2>1, RegisterNodeNew, Zenon
  <2>5. r.pkg = w
    BY <1>2 DEF RegisterNode
  <2> HIDE DEF r
  <2>6. /\ w.scope = s.scope /\ w.types = s.types /\ w.tracked = s.tracked /\ w.incs = s.incs
        /\ w.err = s.err /\ w.info = Bind(s.info, node, nm) /\ w.uses = s.uses
    BY <2>1, RegisterIs
  <2>7. Sound(w)
    BY <2>1, RegisterSound DEF Good
  <2> HIDE DEF w, nm
  <2>8. node \in DOMAIN w.info /\ w.info[node] = nm /\ ~Failed(w)
    BY <2>6, BindDomain, BindAt DEF Failed
  <2>9. Apart(w) /\ Keeps(s, w)
    BY <2>6, <2>8 DEF Good, Apart, Keeps
  <2>10. ASSUME ~r.bad
         PROVE  /\ Good(w, {node}) /\ node.name \notin DOMAIN s.scope
                /\ \A n \in DOMAIN s.types : n.name # node.name
                /\ node.name \notin DOMAIN s.tracked /\ node.name \notin DepName
    <3>1. node.name \notin DOMAIN s.scope
      BY <2>3, <2>10
    <3>2. /\ \A n \in DOMAIN s.types : n.name # node.name
          /\ node.name \notin DOMAIN s.tracked /\ node.name \notin DepName
      BY <1>2, <3>1, FirstOfName
    <3>3. {node} = {} \cup {node}
      OBVIOUS
    <3>4. Good(Register(s, node, g), {node})
      BY <1>2, <2>1, <3>2, <3>3, RegisterGood
    <3> QED BY <3>1, <3>2, <3>4 DEF w
  <2> QED BY <2>2, <2>4, <2>5, <2>6, <2>7, <2>8, <2>9, <2>10 DEF r
<1> QED BY <1>1, <1>2

LEMMA SetCurGood ==
  ASSUME NEW s, NEW X, NEW f \in GoFile, Good(s, X)
  PROVE  LET q == [s EXCEPT !.cur = f]
         IN  Good(q, X) /\ Keeps(s, q) /\ SameCore(s, q)
<1> DEFINE q == [s EXCEPT !.cur = f]
<1>1. Sound(q)
  BY CurSound DEF Good
<1>2. SameCore(s, q)
  BY DEF SameCore, Good, Sound, IsPkg
<1> HIDE DEF q
<1> QED BY <1>1, <1>2, GoodSame DEF q

LEMMA CompleteTypeGood ==
  ASSUME NEW s, NEW node, NEW refs, RefsOK(refs), NEW c \in CName, NEW third, Good(s, {}),
         ~Failed(s) => /\ node \in DOMAIN s.types /\ node.name = c
                       /\ c \in DOMAIN s.scope /\ c \in DOMAIN s.tracked,
         \A i \in DOMAIN refs : Resolvable(s, refs[i], third)
  PROVE  /\ Good(CompleteType(s, node, refs, c, third), {})
         /\ Keeps(s, CompleteType(s, node, refs, c, third))
<1> DEFINE r == RestoreFile(s, node)
           q == ConvertRefs(r, refs, third)
           t == InitType(q, node, "struct", NoNode)
           b == [t EXCEPT !.cur = s.cur]
           f == Complete(b, c)
<1>1. CASE Failed(s)
  BY <1>1, KeepsRefl DEF CompleteType
<1>2. CASE ~Failed(s)
  <2>1. CompleteType(s, node, refs, c, third) = f
    BY <1>2 DEF CompleteType
  <2>2. s.types[node].file \in GoFile /\ s.cur \in GoFile
    BY <1>2 DEF Good, Sound, TypesOK, IsTypeDecl
  <2>3. Good(r, {}) /\ Keeps(s, r) /\ SameCore(s, r)
    BY <2>2, SetCurGood DEF RestoreFile
  <2>4. \A i \in DOMAIN refs : Resolvable(r, refs[i], third)
    BY <2>3 DEF Resolvable, SameCore
  <2>5. NoTag({})
    BY DEF NoTag
  <2>14. r.types[node].file = r.cur
    <3>1. r.cur = s.types[node].file /\ r.types = s.types
      BY <1>2, RestoreSound DEF Good
    <3> QED BY <3>1
  <2> HIDE DEF r
  <2>6. Good(q, {}) /\ Keeps(r, q) /\ KeepsTracked(r, q)
    BY <2>3, <2>4, <2>5, ConvertRefsGood
  <2>7. node \in DOMAIN q.types /\ node.name = c /\ c \in DOMAIN q.scope /\ c \in DOMAIN q.tracked
    BY <1>2, <2>3, <2>6 DEF Keeps, KeepsTracked, SameCore
  <2>15. Extends(r, q)
    BY <2>3, ConvertRefsSound DEF Good
  <2> HIDE DEF q
  <2>8. Sound(t)
    <3>1. q.types[node].file = q.cur
      BY <1>2, <2>3, <2>14, <2>15 DEF Extends, SameCore
    <3> QED BY <2>6, <2>7, <3>1, InitTypeSound DEF Defs, Good
  <2>9. /\ Failed(q) => t = q
        /\ t.info = q.info /\ t.incs = q.incs /\ t.tracked = q.tracked
        /\ t.scope = q.scope /\ t.err = q.err /\ t.uses = q.uses
        /\ ~Failed(q) => t.types = Bind(q.types, node, DefAs(q, node, "struct", NoNode))
    BY <2>6, InitTypeIs DEF Good, Sound
  <2> HIDE DEF t
  <2>10. /\ b.info = t.info /\ b.incs = t.incs /\ b.tracked = t.tracked
         /\ b.scope = t.scope /\ b.err = t.err /\ b.types = t.types /\ b.uses = t.uses
         /\ Sound(b) /\ IsPkg(b)
    BY <2>2, <2>8, CurSound DEF Sound, IsPkg
  <2> HIDE DEF b
  <2>11. Sound(f)
    BY <2>10, CompleteSound
  <2>12. /\ f.info = q.info /\ f.incs = q.incs /\ f.tracked = Unbind(q.tracked, c)
         /\ f.scope = q.scope /\ f.err = q.err /\ f.types = t.types /\ f.uses = q.uses
    <3> DEFINE u == Unbind(b.tracked, c)
    <3>1. f = [b EXCEPT !.tracked = u]
      BY DEF Complete
    <3> HIDE DEF f, u
    <3>2. /\ f.info = b.info /\ f.incs = b.incs /\ f.tracked = u
          /\ f.scope = b.scope /\ f.err = b.err /\ f.types = b.types /\ f.uses = b.uses
      BY <2>10, <3>1 DEF IsPkg
    <3> QED BY <2>9, <2>10, <3>2 DEF u
  <2> HIDE DEF f
  <2>13. Good(f, {}) /\ Keeps(q, f)
    <3>1. CASE Failed(q)
      <4>1. f.types = q.types /\ Failed(f)
        BY <2>9, <2>12, <3>1 DEF Failed
      <4>2. TrackedByName(f.tracked)
        <5>1. TrackedByName(q.tracked)
          BY <2>6 DEF Good, Apart
        <5> QED BY <5>1, <2>12, UnbindDomain, UnbindAt DEF TrackedByName
      <4>3. Apart(f)
        BY <2>6, <2>12, <4>1, <4>2 DEF Good, Apart
      <4>4. Keeps(q, f)
        BY <2>12, <4>1 DEF Keeps
      <4> QED BY <2>11, <4>1, <4>3, <4>4 DEF Good
    <3>2. CASE ~Failed(q)
      <4> DEFINE o == DefAs(q, node, "struct", NoNode)
      <4>1. o.inits = q.types[node].inits + 1 /\ o.go = q.types[node].go
        BY DEF DefAs
      <4> HIDE DEF o
      <4>2. f.types = Bind(q.types, node, o)
        BY <2>9, <2>12, <3>2 DEF o
      <4> QED BY <2>6, <2>7, <2>11, <2>12, <3>2, <4>1, <4>2, CompletedGood
    <3> QED BY <3>1, <3>2
  <2>16. Keeps(s, f)
    BY <2>3, <2>6, <2>13, KeepsTrans
  <2> QED BY <2>1, <2>13, <2>16
<1> QED BY <1>1, <1>2

LEMMA ResolvableKept ==
  ASSUME NEW s, NEW q, NEW third, NEW refs, Keeps(s, q),
         \A i \in DOMAIN refs : Resolvable(s, refs[i], third)
  PROVE  \A i \in DOMAIN refs : Resolvable(q, refs[i], third)
  BY DEF Resolvable, Keeps

(* The C name of a declared type is its Go name or is substituted for it. *)
Named(s, nm, c, node) == IF nm # c THEN SubstObj(s, c, node) ELSE s

LEMMA NamedGood ==
  ASSUME NEW s, NEW X, NEW nm, NEW c \in CName, NEW node, Good(s, X),
         ~Failed(s) => node \in DOMAIN s.types /\ node.name = c /\ (nm = c => c \in DOMAIN s.scope)
  PROVE  LET q == Named(s, nm, c, node)
         IN  /\ Good(q, X) /\ Keeps(s, q) /\ q.tracked = s.tracked /\ q.types = s.types
             /\ ~Failed(q) => c \in DOMAIN q.scope
<1> DEFINE o == SubstObj(s, c, node)
           q == Named(s, nm, c, node)
<1>1. CASE nm = c \/ Failed(s)
  <2>1. q = s
    BY <1>1 DEF SubstObj, Named
  <2> HIDE DEF q
  <2> QED BY <1>1, <2>1, KeepsRefl DEF q
<1>2. CASE nm # c /\ ~Failed(s)
  <2>1. q = o
    BY <1>2 DEF Named
  <2>2. Good(o, X) /\ Keeps(s, o)
    BY <1>2, SubstGood
  <2>3. /\ o.types = s.types /\ o.tracked = s.tracked
        /\ IF c \in DOMAIN s.scope /\ s.scope[c].how = "decl" THEN o.scope = s.scope
           ELSE o.scope = Bind(s.scope, c, [node |-> node, how |-> "subst"])
    BY <1>2, SubstIs DEF Good, Sound
  <2> HIDE DEF o
  <2>4. c \in DOMAIN o.scope
    BY <2>3, BindDomain
  <2> HIDE DEF q
  <2> QED BY <2>1, <2>2, <2>3, <2>4 DEF q
<1> QED BY <1>1, <1>2

(* The name it is given is then bound to the type, whichever it is. *)
LEMMA NamedBinds ==
  ASSUME NEW s, NEW nm, NEW c, NEW node, IsPkg(s),
         ~Failed(s) => nm \in DOMAIN s.scope /\ s.scope[nm].node = node
  PROVE  LET q == Named(s, nm, c, node)
         IN  ~Failed(q) => c \in DOMAIN q.scope /\ q.scope[c].node = node
<1> DEFINE o == SubstObj(s, c, node)
           b == [node |-> node, how |-> "subst"]
           q == Named(s, nm, c, node)
<1>1. CASE nm = c
  BY <1>1 DEF Named
<1>2. CASE nm # c
  <2>1. q = o
    BY <1>2 DEF Named
  <2>2. IF Failed(s) THEN o = s
        ELSE IF c \in DOMAIN s.scope /\ s.scope[c].how = "decl"
        THEN o.err = "redefined"
        ELSE o.scope = Bind(s.scope, c, b)
    BY SubstIs
  <2>3. b.node = node
    OBVIOUS
  <2> HIDE DEF o, b, q
  <2>4. ~Failed(o) => c \in DOMAIN o.scope /\ o.scope[c].node = node
    BY <2>2, <2>3, BindDomain, BindAt DEF Failed
  <2> QED BY <2>1, <2>4 DEF q
<1> QED BY <1>1, <1>2

(* A record type as NewTypeDecl declares it, and with its C name bound.    *)
TypeReg(s, c) == RegisterNode(s, TypeNode(c), TypeGo[c], TRUE)
Made(s, c) ==
  LET r == TypeReg(s, c)
      mapped == CollectNameMapping(r.pkg, c, r.name)
  IN  IF c \in DOMAIN r.pkg.tracked THEN mapped
      ELSE AddIncomplete(EmptyTypeDecl(mapped, r.name, TypeNode(c)), TypeNode(c), NoName)
NamedType(s, c) == Named(Made(s, c), TypeReg(s, c).name, c, Made(s, c).tracked[c])

(* An unregistered tag, or one that waits for its definition, is declared. *)
LEMMA TypeMadeGood ==
  ASSUME NEW s, NEW c \in Tag, Good(s, {}), ~Failed(s), ~TypeReg(s, c).bad,
         TypeReg(s, c).exist => c \in DOMAIN TypeReg(s, c).pkg.tracked
  PROVE  /\ Good(Made(s, c), {}) /\ Keeps(s, Made(s, c))
         /\ ~Failed(Made(s, c)) =>
              /\ Good(NamedType(s, c), {}) /\ Keeps(s, NamedType(s, c))
              /\ ~Failed(NamedType(s, c)) =>
                   /\ Made(s, c).tracked[c] \in DOMAIN NamedType(s, c).types
                   /\ Made(s, c).tracked[c].name = c
                   /\ c \in DOMAIN NamedType(s, c).scope /\ c \in DOMAIN NamedType(s, c).tracked
<1> DEFINE n == TypeNode(c)
           r == TypeReg(s, c)
           isIncom == c \in DOMAIN r.pkg.tracked
           mapped == CollectNameMapping(r.pkg, c, r.name)
           empty == EmptyTypeDecl(mapped, r.name, n)
           added == AddIncomplete(empty, n, NoName)
           declared == Made(s, c)
           incom == declared.tracked[c]
           named == NamedType(s, c)
<1>1. declared = IF isIncom THEN mapped ELSE added
  BY DEF Made
<1>2. IsTypeNode(n) /\ n.name = c /\ n.kind = "Type" /\ c \in CName
  BY TagFacts
<1>3. /\ Sound(r.pkg) /\ Apart(r.pkg) /\ Keeps(s, r.pkg)
      /\ r.pkg.types = s.types /\ r.pkg.tracked = s.tracked /\ r.pkg.scope = s.scope
      /\ ~Failed(r.pkg)
      /\ r.exist => n \in DOMAIN s.types /\ r.pkg = s /\ r.name = s.info[n]
      /\ ~r.exist /\ ~r.bad =>
           /\ Good(r.pkg, {n}) /\ n \in DOMAIN r.pkg.info /\ r.pkg.info[n] = r.name
           /\ n.name \notin DOMAIN s.scope
           /\ \A m \in DOMAIN s.types : m.name # n.name
           /\ n.name \notin DOMAIN s.tracked /\ n.name \notin DepName
  <2> HIDE DEF n
  <2> DEFINE x == RegisterNode(s, n, TypeGo[c], TRUE)
  <2>1. r = x
    BY DEF TypeReg, n
  <2>2. /\ Sound(x.pkg) /\ Apart(x.pkg) /\ Keeps(s, x.pkg)
        /\ x.pkg.types = s.types /\ x.pkg.tracked = s.tracked /\ x.pkg.scope = s.scope
        /\ ~Failed(x.pkg)
        /\ x.exist => n \in DOMAIN s.types /\ x.pkg = s /\ x.name = s.info[n]
        /\ ~x.exist /\ ~x.bad =>
             /\ Good(x.pkg, {n}) /\ n \in DOMAIN x.pkg.info /\ x.pkg.info[n] = x.name
             /\ n.name \notin DOMAIN s.scope
             /\ \A m \in DOMAIN s.types : m.name # n.name
             /\ n.name \notin DOMAIN s.tracked /\ n.name \notin DepName
    BY <1>2, RegisterTypeGood
  <2> HIDE DEF r, x
  <2> QED BY <2>1, <2>2
<1> HIDE DEF n, r
<1>4. ~r.bad /\ (r.exist => isIncom)
  BY DEF r
<1>5. /\ Good(declared, {}) /\ Keeps(s, declared)
      /\ ~Failed(declared) => /\ c \in DOMAIN declared.tracked
                              /\ r.name = c => c \in DOMAIN declared.scope
  <2> HIDE DEF declared
  <2>1. CASE r.exist
    <3>1. Good(mapped, {}) /\ Keeps(s, mapped) /\ SameCore(s, mapped)
      BY <1>2, <1>3, <2>1, CollectGood
    <3>2. declared = mapped /\ c \in DOMAIN mapped.tracked
      BY <1>1, <1>3, <1>4, <2>1, <3>1 DEF SameCore
    <3>3. r.name = c => c \in DOMAIN mapped.scope
      <4>1. Live(s, {}, {}) /\ n \in DOMAIN s.types /\ r.name = s.info[n]
        BY <1>3, <2>1 DEF Good
      <4> QED BY <4>1, <1>2, <3>1 DEF Live, Placed, SameCore
    <3> HIDE DEF mapped
    <3> QED BY <3>1, <3>2, <3>3
  <2>2. CASE ~r.exist
    <3>1. /\ Good(mapped, {n}) /\ Keeps(r.pkg, mapped) /\ SameCore(r.pkg, mapped)
      BY <1>2, <1>3, <1>4, <2>2, CollectGood
    <3>2. declared = added
      BY <1>1, <1>2, <1>3, <1>4, <2>2
    <3> HIDE DEF mapped
    <3>3. /\ Good(empty, {n}) /\ Keeps(mapped, empty) /\ empty.info = mapped.info
          /\ ~Failed(empty) => n \in DOMAIN empty.types /\ r.name \in DOMAIN empty.scope
      <4>1. ~Failed(mapped) /\ n \in DOMAIN mapped.info /\ mapped.types = s.types
        BY <1>3, <1>4, <2>2, <3>1 DEF SameCore, Failed
      <4>2. n \in {n} /\ n.name \notin DepName /\ \A m \in DOMAIN mapped.types : m.name # n.name
        BY <1>3, <1>4, <2>2, <4>1
      <4> QED BY <1>2, <3>1, <4>1, <4>2, EmptyTypeDeclGood
    <3>4. ~Failed(empty) => (empty.info[n] = n.name => n.name \in DOMAIN empty.scope)
      BY <1>2, <1>3, <1>4, <2>2, <3>1, <3>3 DEF SameCore
    <3> HIDE DEF empty
    <3>5. /\ Good(added, {}) /\ Keeps(empty, added) /\ added.scope = empty.scope
          /\ Failed(added) <=> Failed(empty)
          /\ ~Failed(empty) => added.tracked = Bind(empty.tracked, n.name, n)
      <4>1. ~Failed(empty) => /\ n \in DOMAIN empty.types
                              /\ n.kind # "Type" \/ empty.info[n] = n.name => n.name \in DOMAIN empty.scope
                              /\ NoName = NoName \/ Known(empty, NoName)
        BY <1>2, <3>3, <3>4
      <4>2. ASSUME NEW ref \in CName \cup {NoName}, ref = NoName
            PROVE  /\ Good(AddIncomplete(empty, n, ref), {}) /\ Keeps(empty, AddIncomplete(empty, n, ref))
                   /\ Failed(AddIncomplete(empty, n, ref)) <=> Failed(empty)
                   /\ AddIncomplete(empty, n, ref).scope = empty.scope
                   /\ ~Failed(empty) => AddIncomplete(empty, n, ref).tracked = Bind(empty.tracked, n.name, n)
        <5>1. Good(empty, {n}) /\ IsTypeNode(n)
          BY <1>2, <3>3
        <5>2. ~Failed(empty) => /\ n \in DOMAIN empty.types
                                /\ n.kind # "Type" \/ empty.info[n] = n.name => n.name \in DOMAIN empty.scope
                                /\ ref = NoName \/ Known(empty, ref)
          BY <4>1, <4>2
        <5> QED BY <5>1, <5>2, AddedGood
      <4> QED BY <4>2
    <3> HIDE DEF added
    <3>6. Keeps(s, added)
      BY <1>3, <3>1, <3>3, <3>5, KeepsTrans
    <3>7. ~Failed(added) => /\ c \in DOMAIN added.tracked
                            /\ r.name = c => c \in DOMAIN added.scope
      BY <1>2, <3>3, <3>5, BindDomain
    <3> QED BY <3>2, <3>5, <3>6, <3>7
  <2> QED BY <2>1, <2>2
<1>6. ASSUME ~Failed(declared)
      PROVE  /\ Good(named, {}) /\ Keeps(s, named)
             /\ ~Failed(named) => /\ incom \in DOMAIN named.types /\ incom.name = c
                                  /\ c \in DOMAIN named.scope /\ c \in DOMAIN named.tracked
  <2>0. named = Named(declared, r.name, c, incom)
    BY DEF NamedType, r
  <2> HIDE DEF declared
  <2>1. incom \in DOMAIN declared.types /\ incom.name = c
    BY <1>5, <1>6 DEF Good, Sound, MapOK, Apart, TrackedByName
  <2> HIDE DEF incom, named
  <2>2. /\ Good(named, {}) /\ Keeps(declared, named) /\ named.tracked = declared.tracked
        /\ named.types = declared.types
        /\ ~Failed(named) => c \in DOMAIN named.scope
    <3>1. ~Failed(declared) => /\ incom \in DOMAIN declared.types /\ incom.name = c
                               /\ r.name = c => c \in DOMAIN declared.scope
      BY <1>5, <1>6, <2>1
    <3> QED BY <1>2, <1>5, <1>6, <2>0, <3>1, NamedGood
  <2>3. Keeps(s, named)
    BY <1>5, <1>6, <2>2, KeepsTrans
  <2> QED BY <1>5, <1>6, <2>1, <2>2, <2>3
<1> QED BY <1>5, <1>6

LEMMA NewTypeDeclIs ==
  ASSUME NEW s, NEW d, NEW third
  PROVE  LET c == d.name
             r == TypeReg(s, c)
             isIncom == c \in DOMAIN r.pkg.tracked
         IN  NewTypeDecl(s, d, third) =
               IF r.bad THEN Fail(r.pkg, "defined")
               ELSE IF r.exist /\ (~d.full \/ ~isIncom) THEN s
               ELSE IF Failed(Made(s, c)) THEN Made(s, c)
               ELSE IF d.full THEN CompleteType(NamedType(s, c), Made(s, c).tracked[c], d.refs, c, third)
               ELSE NamedType(s, c)
  BY DEF NewTypeDecl, NamedType, Made, TypeReg, Named

LEMMA NewTypeDeclGood ==
  ASSUME CSpaces, NEW s, NEW d \in Decls, d.kind = "Type", NEW third, Good(s, {}), ~Failed(s),
         \A i \in DOMAIN d.refs : Resolvable(s, d.refs[i], third)
  PROVE  Good(NewTypeDecl(s, d, third), {}) /\ Keeps(s, NewTypeDecl(s, d, third))
<1> DEFINE c == d.name
           r == TypeReg(s, c)
           isIncom == c \in DOMAIN r.pkg.tracked
           declared == Made(s, c)
           incom == declared.tracked[c]
           named == NamedType(s, c)
           fail == Fail(r.pkg, "defined")
           full == CompleteType(named, incom, d.refs, c, third)
<1>0. NewTypeDecl(s, d, third) =
        IF r.bad THEN fail
        ELSE IF r.exist /\ (~d.full \/ ~isIncom) THEN s
        ELSE IF Failed(declared) THEN declared
        ELSE IF d.full THEN full
        ELSE named
  BY NewTypeDeclIs
<1>1. c \in Tag /\ RefsOK(d.refs) /\ c \in CName
  BY DeclFacts, TagFacts DEF CSpaces, TypeKind
<1> HIDE DEF c
<1>2. Good(fail, {}) /\ Keeps(s, fail)
  <2>1. Sound(r.pkg) /\ Apart(r.pkg) /\ Keeps(s, r.pkg)
    BY <1>1, TagFacts, RegisterTypeGood DEF TypeReg
  <2> HIDE DEF r
  <2>2. Sound(fail) /\ Apart(fail) /\ Failed(fail) /\ Keeps(r.pkg, fail)
    BY <2>1, FailGood DEF Errs
  <2> QED BY <2>1, <2>2, KeepsTrans DEF Good
<1> HIDE DEF fail
<1>3. ASSUME ~r.bad, ~(r.exist /\ (~d.full \/ ~isIncom))
      PROVE  /\ Good(declared, {}) /\ Keeps(s, declared)
             /\ ~Failed(declared) =>
                  /\ Good(named, {}) /\ Keeps(s, named)
                  /\ ~Failed(named) => /\ incom \in DOMAIN named.types /\ incom.name = c
                                       /\ c \in DOMAIN named.scope /\ c \in DOMAIN named.tracked
  BY <1>1, <1>3, TypeMadeGood
<1> HIDE DEF r, declared, named, incom, isIncom
<1>4. ASSUME ~r.bad, ~(r.exist /\ (~d.full \/ ~isIncom)), ~Failed(declared)
      PROVE  Good(full, {}) /\ Keeps(s, full)
  <2>1. \A i \in DOMAIN d.refs : Resolvable(named, d.refs[i], third)
    BY <1>3, <1>4, ResolvableKept
  <2>2. Good(full, {}) /\ Keeps(named, full)
    BY <1>1, <1>3, <1>4, <2>1, CompleteTypeGood
  <2> QED BY <1>3, <1>4, <2>2, KeepsTrans
<1> HIDE DEF full
<1>5. Good(s, {}) /\ Keeps(s, s)
  BY KeepsRefl
<1> QED BY <1>0, <1>2, <1>3, <1>4, <1>5

NodeOf(d) == [name |-> d.name, kind |-> d.kind]

LEMMA DeclNode ==
  ASSUME CSpaces, NEW d \in Decls, d.kind \in {"Typedef", "Enum"}, d.name \in CName
  PROVE  /\ IsTypeNode([name |-> d.name, kind |-> d.kind])
         /\ [name |-> d.name, kind |-> d.kind].name = d.name
         /\ [name |-> d.name, kind |-> d.kind].kind = d.kind
         /\ d.name \notin Tag
<1>1. d.name \notin Tag
  BY DEF CSpaces, TypeKind
<1> QED BY <1>1 DEF IsTypeNode, TypeKind, Node, Kind

(* A typedef is declared, and then has its C name. *)
LEMMA TypedefMadeGood ==
  ASSUME NEW s, NEW n, NEW c \in CName, NEW nm, Good(s, {n}), ~Failed(s), IsTypeNode(n),
         n.name = c, n.kind = "Typedef", c \notin DepName, n \in DOMAIN s.info,
         \A m \in DOMAIN s.types : m.name # c
  PROVE  LET q == Named(EmptyTypeDecl(CollectNameMapping(s, c, nm), nm, n), nm, c, n)
         IN  /\ Good(q, {n}) /\ Keeps(s, q)
             /\ ~Failed(q) => n \in DOMAIN q.types /\ c \in DOMAIN q.scope /\ q.scope[c].node = n
<1> DEFINE mapped == CollectNameMapping(s, c, nm)
           declared == EmptyTypeDecl(mapped, nm, n)
           q == Named(declared, nm, c, n)
<1>1. Good(mapped, {n}) /\ Keeps(s, mapped) /\ SameCore(s, mapped)
  BY CollectGood
<1> HIDE DEF mapped
<1>2. /\ Good(declared, {n}) /\ Keeps(mapped, declared) /\ declared.info = mapped.info
      /\ ~Failed(declared) => /\ n \in DOMAIN declared.types /\ nm \in DOMAIN declared.scope
                              /\ declared.scope = Bind(mapped.scope, nm, Own(n))
  <2>1. ~Failed(mapped) /\ n \in DOMAIN mapped.info /\ mapped.types = s.types
    BY <1>1 DEF SameCore, Failed
  <2>2. n \in {n} /\ n.name \notin DepName /\ \A m \in DOMAIN mapped.types : m.name # n.name
    BY <2>1
  <2> QED BY <1>1, <2>1, <2>2, EmptyTypeDeclGood
<1> HIDE DEF declared
<1>3. ~Failed(declared) => /\ n \in DOMAIN declared.types /\ n.name = c
                           /\ nm = c => c \in DOMAIN declared.scope
  BY <1>2
<1>4. /\ Good(q, {n}) /\ Keeps(declared, q) /\ q.tracked = declared.tracked
      /\ q.types = declared.types
      /\ ~Failed(q) => c \in DOMAIN q.scope
  <2>1. c \in CName /\ Good(declared, {n})
    BY <1>2
  <2> QED BY <1>3, <2>1, NamedGood
<1>5. Keeps(s, q)
  BY <1>1, <1>2, <1>4, KeepsTrans
<1>6. ~Failed(q) => ~Failed(declared)
  BY <1>4 DEF Keeps
<1>7. ~Failed(declared) => nm \in DOMAIN declared.scope /\ declared.scope[nm].node = n
  BY <1>2, BindAt DEF Own
<1>8. ~Failed(q) => q.scope[c].node = n
  BY <1>2, <1>7, NamedBinds DEF Good, Sound
<1> HIDE DEF q
<1> QED BY <1>2, <1>4, <1>5, <1>6, <1>8 DEF mapped, declared, q

LEMMA NewTypedefDeclGood ==
  ASSUME CSpaces, NEW s, NEW d \in Decls, d.kind = "Typedef", NEW third, Good(s, {}), ~Failed(s),
         \A i \in DOMAIN d.refs : Resolvable(s, d.refs[i], third)
  PROVE  LET q == NewTypedefDecl(s, d, third)
         IN  /\ Good(q, {}) /\ Keeps(s, q)
             /\ ~Failed(q) => /\ d.name \in DOMAIN q.scope
                              /\ NodeOf(d) \in DOMAIN s.types \/ q.scope[d.name].node = NodeOf(d)
<1> DEFINE c == d.name
           n == [name |-> c, kind |-> "Typedef"]
           r == RegisterNode(s, n, TypeGo[c], TRUE)
           mapped == CollectNameMapping(r.pkg, c, r.name)
           declared == EmptyTypeDecl(mapped, r.name, n)
           named == Named(declared, r.name, c, n)
           converted == ConvertRefs(named, d.refs, third)
           of == IF d.direct THEN Target(converted, d.refs[1]) ELSE NoNode
           fail == Fail(r.pkg, "defined")
           waits == AddIncomplete(named, n, d.refs[1])
           alias == InitType(converted, n, "alias", of)
           q == NewTypedefDecl(s, d, third)
<1>0. q = IF r.bad THEN fail
          ELSE IF r.exist THEN s
          ELSE IF Failed(named) THEN named
          ELSE IF Deferred(named, d) THEN waits
          ELSE IF Failed(converted) THEN converted
          ELSE alias
  BY DEF NewTypedefDecl, Named
<1>1. c \in CName /\ RefsOK(d.refs) /\ (d.direct => DOMAIN d.refs = {1})
  BY DeclFacts
<1>2. IsTypeNode(n) /\ n.name = c /\ n.kind = "Typedef" /\ c \notin Tag
  BY <1>1, DeclNode
<1> HIDE DEF n, q
<1>3. /\ Sound(r.pkg) /\ Apart(r.pkg) /\ Keeps(s, r.pkg)
      /\ r.pkg.types = s.types /\ r.pkg.tracked = s.tracked /\ r.pkg.scope = s.scope
      /\ ~Failed(r.pkg)
      /\ r.exist => n \in DOMAIN s.types /\ r.pkg = s /\ r.name = s.info[n]
      /\ ~r.exist /\ ~r.bad =>
           /\ Good(r.pkg, {n}) /\ n \in DOMAIN r.pkg.info /\ r.pkg.info[n] = r.name
           /\ n.name \notin DOMAIN s.scope
           /\ \A m \in DOMAIN s.types : m.name # n.name
           /\ n.name \notin DOMAIN s.tracked /\ n.name \notin DepName
  BY <1>2, RegisterTypeGood
<1>4. Good(fail, {}) /\ Keeps(s, fail) /\ Failed(fail)
  <2>1. Sound(fail) /\ Apart(fail) /\ Failed(fail) /\ Keeps(r.pkg, fail)
    BY <1>3, FailGood DEF Errs
  <2> QED BY <1>3, <2>1, KeepsTrans DEF Good
<1>5. r.exist => c \in DOMAIN s.scope /\ n \in DOMAIN s.types
  BY <1>2, <1>3 DEF Good, Live, Placed
<1> HIDE DEF r, fail
<1>6. ASSUME ~r.bad, ~r.exist
      PROVE  /\ Good(named, {n}) /\ Keeps(s, named)
             /\ ~Failed(named) => /\ n \in DOMAIN named.types /\ c \in DOMAIN named.scope
                                  /\ named.scope[c].node = n
  <2> DEFINE w == r.pkg
             nm == r.name
             z == Named(EmptyTypeDecl(CollectNameMapping(w, c, nm), nm, n), nm, c, n)
  <2>1. /\ Good(w, {n}) /\ ~Failed(w) /\ c \notin DepName /\ n \in DOMAIN w.info /\ Keeps(s, w)
        /\ \A m \in DOMAIN w.types : m.name # c
    BY <1>2, <1>3, <1>6
  <2> HIDE DEF w, nm, c
  <2>2. /\ Good(z, {n}) /\ Keeps(w, z)
        /\ ~Failed(z) => n \in DOMAIN z.types /\ c \in DOMAIN z.scope /\ z.scope[c].node = n
    BY <1>1, <1>2, <2>1, TypedefMadeGood
  <2>3. Keeps(s, z)
    BY <2>1, <2>2, KeepsTrans
  <2>4. named = z
    BY DEF w, nm, c
  <2> HIDE DEF z, named
  <2> QED BY <2>2, <2>3, <2>4 DEF c
<1> HIDE DEF named
<1>7. ASSUME ~r.bad, ~r.exist, ~Failed(named), Deferred(named, d)
      PROVE  /\ Good(waits, {}) /\ Keeps(s, waits) /\ c \in DOMAIN waits.scope
             /\ waits.scope[c].node = n
  <2>1. d.refs[1] \in CName \cup {NoName} /\ Known(named, d.refs[1])
    BY <1>1, <1>7 DEF Deferred, RefsOK, Known
  <2>3. ~Failed(named) => /\ n \in DOMAIN named.types
                          /\ n.kind # "Type" \/ named.info[n] = n.name => n.name \in DOMAIN named.scope
                          /\ d.refs[1] = NoName \/ Known(named, d.refs[1])
    BY <1>2, <1>6, <1>7, <2>1
  <2> HIDE DEF c
  <2>4. Good(waits, {}) /\ Keeps(named, waits) /\ waits.scope = named.scope
    <3>1. ASSUME NEW ref, ref \in CName \cup {NoName}, ref = NoName \/ Known(named, ref)
          PROVE  /\ Good(AddIncomplete(named, n, ref), {}) /\ Keeps(named, AddIncomplete(named, n, ref))
                 /\ AddIncomplete(named, n, ref).scope = named.scope
      <4>1. Good(named, {n}) /\ IsTypeNode(n)
        BY <1>2, <1>6, <1>7
      <4>2. ~Failed(named) => /\ n \in DOMAIN named.types
                              /\ n.kind # "Type" \/ named.info[n] = n.name => n.name \in DOMAIN named.scope
                              /\ ref = NoName \/ Known(named, ref)
        BY <2>3, <3>1
      <4>3. n \in {n} /\ {n} \ {n} = {} /\ \A m \in {n} \ {n} : m.name # n.name
        OBVIOUS
      <4>4. ref \in CName \cup {NoName}
        BY <3>1
      <4> QED BY <4>1, <4>2, <4>3, <4>4, AddIncompleteGood
    <3>2. /\ Good(AddIncomplete(named, n, d.refs[1]), {}) /\ Keeps(named, AddIncomplete(named, n, d.refs[1]))
          /\ AddIncomplete(named, n, d.refs[1]).scope = named.scope
      BY <2>1, <3>1
    <3> QED BY <3>2
  <2> HIDE DEF waits
  <2> QED BY <1>6, <1>7, <2>4, KeepsTrans
<1>8. ASSUME ~r.bad, ~r.exist, ~Failed(named)
      PROVE  Good(converted, {n}) /\ Keeps(named, converted) /\ Keeps(s, converted)
  <2>1. NoTag({n})
    BY <1>2 DEF NoTag
  <2>2. \A i \in DOMAIN d.refs : Resolvable(named, d.refs[i], third)
    BY <1>6, <1>8, ResolvableKept
  <2>3. Good(converted, {n}) /\ Keeps(named, converted)
    BY <1>1, <1>6, <1>8, <2>1, <2>2, ConvertRefsGood
  <2> QED BY <1>6, <1>8, <2>3, KeepsTrans
<1>9. ASSUME ~r.bad, ~r.exist, ~Failed(named), ~Failed(converted)
      PROVE  Sound(alias)
  <2>1. /\ Sound(converted) /\ Extends(named, converted)
        /\ DOMAIN d.refs = {1} /\ ~Failed(converted) => Target(converted, d.refs[1]) \in Node
    BY <1>1, <1>6, <1>9, ConvertRefsSound DEF Good
  <2>2. of \in Node \cup {NoNode}
    BY <1>1, <1>9, <2>1
  <2>3. named.types[n].file = named.cur
    <3>1. Sound(mapped)
      BY <1>1, <1>3, CollectSound
    <3> HIDE DEF mapped
    <3>2. Sound(declared) /\ Extends(mapped, declared)
          /\ (~Failed(declared) => declared.types[n].file = mapped.cur)
      BY <1>2, <3>1, EmptyTypeDeclSound DEF IsTypeNode
    <3> HIDE DEF declared
    <3>3. Extends(declared, named) /\ named.types = declared.types /\ (Failed(declared) => named = declared)
      BY <1>2, <3>2, SubstSound, ExtendsRefl DEF Named, SubstObj, IsTypeNode, named
    <3> QED BY <1>9, <3>2, <3>3 DEF Extends
  <2>4. n \in DOMAIN converted.types /\ converted.types[n].file = converted.cur
    BY <1>6, <1>8, <1>9, <2>1, <2>3 DEF Extends, Keeps
  <2> HIDE DEF of, converted
  <2> QED BY <2>1, <2>2, <2>4, InitTypeSound DEF Defs
<1> HIDE DEF of
<1>10. ASSUME ~r.bad, ~r.exist, ~Failed(named), ~Failed(converted)
       PROVE  /\ Good(alias, {}) /\ Keeps(s, alias) /\ c \in DOMAIN alias.scope
              /\ alias.scope[c].node = n
  <2>1. /\ Good(converted, {n}) /\ Keeps(named, converted) /\ Keeps(s, converted) /\ Sound(alias)
    BY <1>8, <1>9, <1>10
  <2>2. n \in DOMAIN converted.types /\ c \in DOMAIN converted.scope /\ converted.scope[c].node = n
    BY <1>6, <1>10, <2>1 DEF Keeps
  <2> HIDE DEF converted
  <2> DEFINE t == DefAs(converted, n, "alias", of)
  <2>3. /\ alias.info = converted.info /\ alias.incs = converted.incs
        /\ alias.tracked = converted.tracked /\ alias.scope = converted.scope
        /\ alias.err = converted.err /\ alias.types = Bind(converted.types, n, t)
        /\ alias.uses = converted.uses
    BY <1>10, <2>1, InitTypeIs DEF Good, Sound
  <2>4. t.inits = converted.types[n].inits + 1 /\ t.go = converted.types[n].go
    BY DEF DefAs
  <2> HIDE DEF alias, t
  <2>5. n \in {n} /\ {n} \ {n} = {}
    OBVIOUS
  <2>6. Good(alias, {n} \ {n}) /\ Keeps(converted, alias)
    BY <1>2, <1>10, <2>1, <2>2, <2>3, <2>4, <2>5, SettleGood
  <2> QED BY <2>1, <2>2, <2>3, <2>5, <2>6, KeepsTrans
<1> HIDE DEF waits, alias, converted
<1>11. Keeps(s, s)
  BY KeepsRefl
<1>12. /\ Good(q, {}) /\ Keeps(s, q)
       /\ ~Failed(q) => c \in DOMAIN q.scope /\ (n \in DOMAIN s.types \/ q.scope[c].node = n)
  <2>1. CASE r.bad
    BY <1>0, <1>4, <2>1
  <2>2. CASE ~r.bad /\ r.exist
    BY <1>0, <1>5, <1>11, <2>2
  <2>3. CASE ~r.bad /\ ~r.exist /\ Failed(named)
    BY <1>0, <1>6, <2>3 DEF Good
  <2>4. CASE ~r.bad /\ ~r.exist /\ ~Failed(named) /\ Deferred(named, d)
    BY <1>0, <1>7, <2>4
  <2>5. CASE ~r.bad /\ ~r.exist /\ ~Failed(named) /\ ~Deferred(named, d) /\ Failed(converted)
    BY <1>0, <1>8, <2>5 DEF Good
  <2>6. CASE ~r.bad /\ ~r.exist /\ ~Failed(named) /\ ~Deferred(named, d) /\ ~Failed(converted)
    BY <1>0, <1>10, <2>6
  <2> QED BY <2>1, <2>2, <2>3, <2>4, <2>5, <2>6
<1> QED BY <1>12 DEF q, n, NodeOf

-----------------------------------------------------------------------------
(* Constants, enums and functions. *)

LEMMA NewConstGood ==
  ASSUME NEW s, NEW c \in CName, NEW kind \in {"Item", "Macro"}, NEW emit, Good(s, {})
  PROVE  Good(NewConst(s, c, kind, emit), {}) /\ Keeps(s, NewConst(s, c, kind, emit))
<1> DEFINE n == [name |-> c, kind |-> kind]
           r == RegisterNode(s, n, ConstGo[c], FALSE)
           w == Register(s, n, ConstGo[c])
           fail == Fail(r.pkg, "defined")
           ins == Insert(r.pkg, r.name, n)
           q == NewConst(s, c, kind, emit)
<1>0. q = IF Failed(s) \/ r.exist THEN s
          ELSE IF r.bad THEN fail
          ELSE IF emit THEN ins
          ELSE r.pkg
  BY DEF NewConst
<1> HIDE DEF q
<1>1. n \in Node /\ n.kind \notin TypeKind
  BY DEF Node, Kind, TypeKind
<1> HIDE DEF n
<1>2. CASE n \in DOMAIN s.info
  <2>1. r.exist
    BY <1>2 DEF RegisterNode
  <2> HIDE DEF r
  <2>2. q = s
    BY <1>0, <2>1
  <2>3. Keeps(s, s)
    BY KeepsRefl
  <2> QED BY <2>2, <2>3 DEF q
<1>3. CASE n \notin DOMAIN s.info
  <2>1. r.pkg = w
    BY <1>3 DEF RegisterNode
  <2>2. Good(w, {}) /\ Keeps(s, w)
    BY <1>1, <1>3, RegisterGood
  <2> HIDE DEF r, w
  <2>3. Good(r.pkg, {}) /\ Keeps(s, r.pkg)
    BY <2>1, <2>2
  <2>4. Good(fail, {}) /\ Keeps(s, fail)
    <3>1. Sound(fail) /\ Apart(fail) /\ Failed(fail) /\ Keeps(r.pkg, fail)
      BY <2>3, FailGood DEF Errs, Good
    <3> QED BY <2>3, <3>1, KeepsTrans DEF Good
  <2>5. Good(ins, {}) /\ Keeps(s, ins)
    <3>1. Good(ins, {}) /\ Keeps(r.pkg, ins)
      BY <1>1, <2>3, InsertGood
    <3> QED BY <2>3, <3>1, KeepsTrans
  <2>6. Keeps(s, s)
    BY KeepsRefl
  <2> HIDE DEF ins, fail
  <2>7. Good(q, {}) /\ Keeps(s, q)
    BY <1>0, <2>3, <2>4, <2>5, <2>6
  <2> QED BY <2>7 DEF q
<1> QED BY <1>2, <1>3

LEMMA EnumItemsGood ==
  ASSUME NEW s, NEW items, RefsOK(items), Good(s, {})
  PROVE  Good(EnumItems(s, items), {}) /\ Keeps(s, EnumItems(s, items))
<1>1. CASE DOMAIN items = {}
  <2>1. EnumItems(s, items) = s
    BY <1>1 DEF EnumItems
  <2> QED BY <2>1, KeepsRefl
<1>2. CASE DOMAIN items = {1}
  <2>1. EnumItems(s, items) = NewConst(s, items[1], "Item", TRUE) /\ items[1] \in CName
    BY <1>2 DEF EnumItems, RefsOK
  <2> QED BY <2>1, NewConstGood
<1>3. CASE DOMAIN items = {1, 2}
  <2> DEFINE q == NewConst(s, items[1], "Item", TRUE)
             r == NewConst(q, items[2], "Item", TRUE)
  <2>0. DOMAIN items # {} /\ DOMAIN items # {1}
    BY <1>3
  <2>1. EnumItems(s, items) = r
    BY <2>0, Zenon DEF EnumItems
  <2>2. items[1] \in CName /\ items[2] \in CName
    BY <1>3 DEF RefsOK
  <2>3. Good(q, {}) /\ Keeps(s, q)
    BY <2>2, NewConstGood
  <2> HIDE DEF q
  <2>4. Good(r, {}) /\ Keeps(q, r)
    BY <2>2, <2>3, NewConstGood
  <2> QED BY <2>1, <2>3, <2>4, KeepsTrans
<1> QED BY <1>1, <1>2, <1>3 DEF RefsOK

(* An enum type is initialised before its C name is substituted, so the    *)
(* argument goes through the package that has the name and no definition.  *)
LEMMA EnumTypeGood ==
  ASSUME NEW s, NEW n, NEW c \in CName, NEW nm, Good(s, {n}), ~Failed(s),
         IsTypeNode(n), n.name = c, n.kind = "Enum", c \notin DepName, n \in DOMAIN s.info,
         c \notin DOMAIN s.scope, \A m \in DOMAIN s.types : m.name # c
  PROVE  LET q == Named(InitType(EmptyTypeDecl(s, nm, n), n, "enum", NoNode), nm, c, n)
         IN  /\ Good(q, {}) /\ Keeps(s, q)
             /\ ~Failed(q) => c \in DOMAIN q.scope /\ q.scope[c].node = n
<1> DEFINE empty == EmptyTypeDecl(s, nm, n)
           inited == InitType(empty, n, "enum", NoNode)
           before == Named(empty, nm, c, n)
           q == Named(inited, nm, c, n)
<1>1. /\ Good(empty, {n}) /\ Keeps(s, empty)
      /\ ~Failed(empty) => /\ n \in DOMAIN empty.types /\ nm \in DOMAIN empty.scope
                           /\ empty.scope = Bind(s.scope, nm, Own(n))
  BY EmptyTypeDeclGood
<1>2. /\ Sound(empty) /\ Extends(s, empty)
      /\ ~Failed(empty) => n \in DOMAIN empty.types /\ empty.types[n].file = s.cur
  BY EmptyTypeDeclSound DEF Good, IsTypeNode
<1> HIDE DEF empty
<1>3. CASE Failed(empty)
  <2>1. inited = empty
    BY <1>1, <1>3, InitTypeIs DEF Good, Sound
  <2>2. q = empty
    BY <1>3, <2>1 DEF Named, SubstObj
  <2> HIDE DEF q
  <2>3. Good(empty, {})
    BY <1>1, <1>3 DEF Good
  <2>4. /\ Good(q, {}) /\ Keeps(s, q)
        /\ ~Failed(q) => c \in DOMAIN q.scope /\ q.scope[c].node = n
    BY <1>1, <1>3, <2>2, <2>3
  <2> QED BY <2>4 DEF q, inited, empty
<1>4. CASE ~Failed(empty)
  <2> DEFINE t == DefAs(empty, n, "enum", NoNode)
             o == [node |-> n, how |-> "subst"]
  <2>1. /\ inited.info = empty.info /\ inited.incs = empty.incs
        /\ inited.tracked = empty.tracked /\ inited.scope = empty.scope
        /\ inited.err = empty.err /\ inited.types = Bind(empty.types, n, t)
        /\ inited.uses = empty.uses
    BY <1>1, <1>4, InitTypeIs DEF Good, Sound
  <2>2. t.inits = empty.types[n].inits + 1 /\ t.go = empty.types[n].go
    BY DEF DefAs
  <2>3. Sound(inited)
    <3>1. "enum" \in Defs /\ n \in DOMAIN empty.types /\ empty.types[n].file = empty.cur
      BY <1>2, <1>4 DEF Defs, Extends
    <3> QED BY <1>2, <3>1, InitTypeSound
  <2>4. /\ Good(before, {n}) /\ Keeps(empty, before) /\ before.types = empty.types
    <3>1. ~Failed(empty) => n \in DOMAIN empty.types /\ n.name = c /\ (nm = c => c \in DOMAIN empty.scope)
      BY <1>1
    <3> QED BY <1>1, <3>1, NamedGood
  <2> HIDE DEF inited
  <2>5. nm # c => c \notin DOMAIN empty.scope
    BY <1>1, <1>4, BindDomain
  <2>6. ~Failed(inited)
    BY <1>4, <2>1 DEF Failed
  <2>7. /\ before.info = empty.info /\ before.incs = empty.incs /\ before.tracked = empty.tracked
        /\ before.err = empty.err /\ before.uses = empty.uses
        /\ nm # c => before.scope = Bind(empty.scope, c, o)
        /\ nm = c => before.scope = empty.scope
    <3>1. CASE nm = c
      BY <3>1 DEF Named
    <3>2. CASE nm # c
      <4>1. before = SubstObj(empty, c, n)
        BY <3>2 DEF Named
      <4> HIDE DEF before
      <4> QED BY <1>1, <1>4, <2>5, <3>2, <4>1, SubstIs DEF Good, Sound
    <3> QED BY <3>1, <3>2
  <2>8. /\ q.info = inited.info /\ q.incs = inited.incs /\ q.tracked = inited.tracked
        /\ q.err = inited.err /\ q.types = inited.types /\ q.uses = inited.uses
        /\ nm # c => q.scope = Bind(inited.scope, c, o)
        /\ nm = c => q.scope = inited.scope
    <3>1. CASE nm = c
      BY <3>1 DEF Named
    <3>2. CASE nm # c
      <4>1. q = SubstObj(inited, c, n)
        BY <3>2 DEF Named
      <4>2. IsPkg(inited) /\ c \notin DOMAIN inited.scope
        BY <2>1, <2>3, <2>5, <3>2 DEF Sound
      <4> HIDE DEF q
      <4>3. ~(c \in DOMAIN inited.scope /\ inited.scope[c].how = "decl")
        BY <4>2
      <4>4. LET z == SubstObj(inited, c, n)
            IN  /\ z.info = inited.info /\ z.incs = inited.incs /\ z.tracked = inited.tracked
                /\ z.err = inited.err /\ z.types = inited.types /\ z.uses = inited.uses
                /\ z.scope = Bind(inited.scope, c, [node |-> n, how |-> "subst"])
        BY <2>6, <4>2, <4>3, SubstIs
      <4> QED BY <3>2, <4>1, <4>4 DEF q
    <3> QED BY <3>1, <3>2
  <2>9. Sound(q)
    BY <2>1, <2>3, SubstSound, BindDomain DEF Named, IsTypeNode
  <2>18. before.scope[c].node = n
    <3>1. Own(n).node = n /\ o.node = n
      BY DEF Own
    <3> HIDE DEF o, before
    <3> QED BY <1>1, <1>4, <2>7, <3>1, BindAt
  <2> HIDE DEF q, before, t, o
  <2>10. ~Failed(before) /\ n \in DOMAIN before.types /\ c \in DOMAIN before.scope
    BY <1>1, <1>4, <2>4, <2>7, BindDomain DEF Failed
  <2>11. q.types = Bind(before.types, n, t) /\ t.inits = before.types[n].inits + 1 /\ t.go = before.types[n].go
    BY <2>1, <2>2, <2>4, <2>8
  <2>12. q.info = before.info /\ q.scope = before.scope /\ q.incs = before.incs
         /\ q.tracked = before.tracked /\ q.err = before.err /\ q.uses = before.uses
    BY <2>1, <2>7, <2>8
  <2>13. n \in {n} /\ {n} \ {n} = {}
    OBVIOUS
  <2>14. Good(q, {n} \ {n}) /\ Keeps(before, q)
    BY <2>4, <2>9, <2>10, <2>11, <2>12, <2>13, SettleGood
  <2>15. Keeps(s, q)
    BY <1>1, <2>4, <2>14, KeepsTrans
  <2>16. c \in DOMAIN q.scope /\ q.scope[c].node = n
    BY <2>10, <2>12, <2>18
  <2>17. /\ Good(q, {}) /\ Keeps(s, q)
         /\ ~Failed(q) => c \in DOMAIN q.scope /\ q.scope[c].node = n
    BY <2>13, <2>14, <2>15, <2>16
  <2> QED BY <2>17 DEF q, inited, empty
<1> QED BY <1>3, <1>4

LEMMA NewEnumTypeDeclGood ==
  ASSUME CSpaces, NEW s, NEW d \in Decls, d.kind = "Enum", Good(s, {}), ~Failed(s)
  PROVE  LET q == NewEnumTypeDecl(s, d)
         IN  /\ Good(q, {}) /\ Keeps(s, q)
             /\ ~Failed(q) /\ d.name # NoName =>
                  /\ d.name \in DOMAIN q.scope
                  /\ NodeOf(d) \in DOMAIN s.types \/ q.scope[d.name].node = NodeOf(d)
<1> DEFINE c == d.name
           n == [name |-> c, kind |-> "Enum"]
           r == RegisterNode(s, n, TypeGo[c], TRUE)
           mapped == CollectNameMapping(r.pkg, c, r.name)
           named == Named(InitType(EmptyTypeDecl(mapped, r.name, n), n, "enum", NoNode), r.name, c, n)
           fail == Fail(r.pkg, "defined")
           q == NewEnumTypeDecl(s, d)
<1>0. q = IF c = NoName THEN EnumItems(s, d.refs)
          ELSE IF r.bad THEN fail
          ELSE IF r.exist THEN s
          ELSE EnumItems(named, d.refs)
  BY DEF NewEnumTypeDecl, Named
<1>1. c \in CName \cup {NoName} /\ RefsOK(d.refs)
  BY DeclFacts
<1> HIDE DEF q
<1>2. CASE c = NoName
  <2>1. Good(EnumItems(s, d.refs), {}) /\ Keeps(s, EnumItems(s, d.refs))
    BY <1>1, EnumItemsGood
  <2> HIDE DEF named, r
  <2>2. Good(q, {}) /\ Keeps(s, q)
    BY <1>0, <1>2, <2>1
  <2> QED BY <1>2, <2>2 DEF q
<1>3. CASE c # NoName
  <2>1. c \in CName
    BY <1>1, <1>3
  <2>2. IsTypeNode(n) /\ n.name = c /\ n.kind = "Enum" /\ c \notin Tag
    BY <2>1, DeclNode
  <2> HIDE DEF n
  <2>3. /\ Sound(r.pkg) /\ Apart(r.pkg) /\ Keeps(s, r.pkg)
        /\ r.pkg.types = s.types /\ r.pkg.tracked = s.tracked /\ r.pkg.scope = s.scope
        /\ ~Failed(r.pkg)
        /\ r.exist => n \in DOMAIN s.types /\ r.pkg = s /\ r.name = s.info[n]
        /\ ~r.exist /\ ~r.bad =>
             /\ Good(r.pkg, {n}) /\ n \in DOMAIN r.pkg.info /\ r.pkg.info[n] = r.name
             /\ n.name \notin DOMAIN s.scope
             /\ \A m \in DOMAIN s.types : m.name # n.name
             /\ n.name \notin DOMAIN s.tracked /\ n.name \notin DepName
    BY <2>2, RegisterTypeGood
  <2>4. Good(fail, {}) /\ Keeps(s, fail) /\ Failed(fail)
    <3>1. Sound(fail) /\ Apart(fail) /\ Failed(fail) /\ Keeps(r.pkg, fail)
      BY <2>3, FailGood DEF Errs
    <3> QED BY <2>3, <3>1, KeepsTrans DEF Good
  <2>5. r.exist => c \in DOMAIN s.scope /\ n \in DOMAIN s.types
    BY <2>2, <2>3 DEF Good, Live, Placed
  <2> HIDE DEF r, fail
  <2>6. ASSUME ~r.bad, ~r.exist
        PROVE  /\ Good(named, {}) /\ Keeps(s, named)
               /\ ~Failed(named) => c \in DOMAIN named.scope /\ named.scope[c].node = n
    <3>1. Good(mapped, {n}) /\ Keeps(r.pkg, mapped) /\ SameCore(r.pkg, mapped)
      BY <2>1, <2>3, <2>6, CollectGood
    <3> HIDE DEF mapped
    <3>2. /\ ~Failed(mapped) /\ c \notin DepName /\ n \in DOMAIN mapped.info
          /\ c \notin DOMAIN mapped.scope
          /\ \A m \in DOMAIN mapped.types : m.name # c
      BY <2>2, <2>3, <2>6, <3>1 DEF SameCore, Failed
    <3> HIDE DEF c
    <3>3. /\ Good(named, {}) /\ Keeps(mapped, named)
          /\ ~Failed(named) => c \in DOMAIN named.scope /\ named.scope[c].node = n
      BY <2>1, <2>2, <3>1, <3>2, EnumTypeGood
    <3> HIDE DEF named
    <3> QED BY <2>3, <3>1, <3>3, KeepsTrans
  <2> HIDE DEF named
  <2>7. ASSUME ~r.bad, ~r.exist
        PROVE  LET z == EnumItems(named, d.refs)
               IN  /\ Good(z, {}) /\ Keeps(s, z)
                   /\ ~Failed(z) => c \in DOMAIN z.scope /\ z.scope[c].node = n
    <3> DEFINE z == EnumItems(named, d.refs)
    <3>1. Good(z, {}) /\ Keeps(named, z)
      BY <1>1, <2>6, <2>7, EnumItemsGood
    <3> HIDE DEF z
    <3>2. /\ Good(z, {}) /\ Keeps(s, z)
          /\ ~Failed(z) => c \in DOMAIN z.scope /\ z.scope[c].node = n
      BY <2>6, <2>7, <3>1, KeepsTrans DEF Keeps
    <3> QED BY <3>2 DEF z
  <2>8. Keeps(s, s)
    BY KeepsRefl
  <2>9. /\ Good(q, {}) /\ Keeps(s, q)
        /\ ~Failed(q) => c \in DOMAIN q.scope /\ (n \in DOMAIN s.types \/ q.scope[c].node = n)
    <3>1. CASE r.bad
      BY <1>0, <1>3, <2>4, <3>1
    <3>2. CASE ~r.bad /\ r.exist
      BY <1>0, <1>3, <2>5, <2>8, <3>2
    <3>3. CASE ~r.bad /\ ~r.exist
      BY <1>0, <1>3, <2>7, <3>3
    <3> QED BY <3>1, <3>2, <3>3
  <2> QED BY <2>9 DEF q, n, NodeOf
<1> QED BY <1>2, <1>3

LEMMA NewMacroGood ==
  ASSUME NEW s, NEW m \in Macros, Good(s, {})
  PROVE  Good(NewMacro(s, m), {}) /\ Keeps(s, NewMacro(s, m))
<1>1. m.name \in CName
  BY ConvertAssumption DEF ConvertAssumption
<1>2. CASE m.form = "none"
  BY <1>2, KeepsRefl DEF NewMacro
<1>3. CASE m.form # "none"
  <2>1. NewMacro(s, m) = NewConst(s, m.name, "Macro", m.form = "ok")
    BY <1>3 DEF NewMacro
  <2> QED BY <1>1, <2>1, NewConstGood
<1> QED BY <1>2, <1>3

LEMMA NewFuncDeclGood ==
  ASSUME NEW s, NEW d \in Decls, d.kind = "Func", NEW third, Good(s, {}),
         \A i \in DOMAIN d.refs : Resolvable(s, d.refs[i], third)
  PROVE  Good(NewFuncDecl(s, d, third), {}) /\ Keeps(s, NewFuncDecl(s, d, third))
<1> DEFINE fn == FuncGo[d.name].fn
           n == [name |-> d.name, kind |-> "Func"]
           isMethod == FuncGo[d.name].form = "method"
           recv == IF isMethod THEN LookupType(s, d.refs[1], third) ELSE s
           method == <<Target(recv, d.refs[1]), fn>>
           dup == IF isMethod THEN method \in recv.methods ELSE FuncTaken(s, fn)
           e == IF isMethod THEN "method" ELSE "func"
           fail == Fail(recv, e)
           reg == Register(recv, n, fn)
           sig == ConvertRefs(reg, d.refs, third)
           methods == sig.methods \cup {method}
           added == [sig EXCEPT !.methods = methods]
           ins == Insert(sig, fn, n)
           q == NewFuncDecl(s, d, third)
<1>0. q = IF FuncGo[d.name].form = "ignore" \/ n \in DOMAIN s.info THEN s
          ELSE IF Failed(recv) THEN recv
          ELSE IF dup THEN fail
          ELSE IF Failed(sig) THEN sig
          ELSE IF isMethod THEN added
          ELSE ins
  BY DEF NewFuncDecl
<1>1. d.name \in CName /\ RefsOK(d.refs) /\ (isMethod => 1 \in DOMAIN d.refs)
  BY DeclFacts
<1>2. n \in Node /\ n.kind \notin TypeKind
  BY <1>1 DEF Node, Kind, TypeKind
<1>3. NoTag({})
  BY DEF NoTag
<1>4. Keeps(s, s)
  BY KeepsRefl
<1>5. Good(recv, {}) /\ Keeps(s, recv)
  <2>1. CASE isMethod
    <3>1. d.refs[1] \in CName /\ Resolvable(s, d.refs[1], third)
      BY <1>1, <2>1 DEF RefsOK
    <3> QED BY <1>3, <2>1, <3>1, LookupTypeGood
  <2>2. CASE ~isMethod
    BY <1>4, <2>2
  <2> QED BY <2>1, <2>2
<1> HIDE DEF recv, n, fn, isMethod, q
<1>6. Good(fail, {}) /\ Keeps(s, fail)
  <2>1. e \in Errs \ {"none"}
    BY DEF Errs
  <2> HIDE DEF e
  <2>2. Sound(fail) /\ Apart(fail) /\ Failed(fail) /\ Keeps(recv, fail)
    BY <1>5, <2>1, FailGood DEF Good
  <2> QED BY <1>5, <2>2, KeepsTrans DEF Good
<1>7. Good(reg, {}) /\ Keeps(s, reg)
  <2>1. Good(reg, {}) /\ Keeps(recv, reg)
    BY <1>2, <1>5, RegisterGood
  <2> QED BY <1>5, <2>1, KeepsTrans
<1> HIDE DEF reg
<1>8. Good(sig, {}) /\ Keeps(s, sig)
  <2>1. \A i \in DOMAIN d.refs : Resolvable(reg, d.refs[i], third)
    BY <1>7, ResolvableKept
  <2>2. Good(sig, {}) /\ Keeps(reg, sig)
    BY <1>1, <1>3, <1>7, <2>1, ConvertRefsGood
  <2> QED BY <1>7, <2>2, KeepsTrans
<1> HIDE DEF sig, dup, method
<1>9. Good(added, {}) /\ Keeps(s, added)
  <2>1. Sound(added)
    BY <1>8, MethodsSound DEF Good
  <2>2. SameCore(sig, added)
    BY <1>8 DEF SameCore, Good, Sound, IsPkg
  <2> HIDE DEF added
  <2>3. Good(added, {}) /\ Keeps(sig, added)
    BY <1>8, <2>1, <2>2, GoodSame
  <2> QED BY <1>8, <2>3, KeepsTrans
<1>10. Good(ins, {}) /\ Keeps(s, ins)
  <2>1. Good(ins, {}) /\ Keeps(sig, ins)
    BY <1>2, <1>8, InsertGood
  <2> QED BY <1>8, <2>1, KeepsTrans
<1> HIDE DEF added, ins, fail
<1>11. Good(q, {}) /\ Keeps(s, q)
  BY <1>0, <1>4, <1>5, <1>6, <1>8, <1>9, <1>10
<1> QED BY <1>11 DEF q

(* Every declaration keeps the package good; afterwards the name of a      *)
(* typedef or of an enum is in the scope.                                  *)
LEMMA NewDeclGood ==
  ASSUME CSpaces, NEW s, NEW d \in Decls, NEW third, Good(s, {}), ~Failed(s),
         d.kind # "Enum" => \A i \in DOMAIN d.refs : Resolvable(s, d.refs[i], third)
  PROVE  LET q == NewDecl(s, d, third)
         IN  /\ Good(q, {}) /\ Keeps(s, q)
             /\ ~Failed(q) /\ d.kind \in {"Typedef", "Enum"} /\ d.name # NoName =>
                  /\ d.name \in DOMAIN q.scope
                  /\ NodeOf(d) \in DOMAIN s.types \/ q.scope[d.name].node = NodeOf(d)
<1>1. CASE d.kind = "Type"
  <2>1. NewDecl(s, d, third) = NewTypeDecl(s, d, third)
    BY <1>1 DEF NewDecl
  <2> QED BY <1>1, <2>1, NewTypeDeclGood
<1>2. CASE d.kind = "Enum"
  <2>1. NewDecl(s, d, third) = NewEnumTypeDecl(s, d)
    BY <1>2 DEF NewDecl
  <2> QED BY <1>2, <2>1, NewEnumTypeDeclGood
<1>3. CASE d.kind = "Typedef"
  <2>1. NewDecl(s, d, third) = NewTypedefDecl(s, d, third)
    BY <1>3 DEF NewDecl
  <2> QED BY <1>3, <2>1, NewTypedefDeclGood
<1>4. CASE d.kind = "Func"
  <2>1. NewDecl(s, d, third) = NewFuncDecl(s, d, third)
    BY <1>4, Zenon DEF NewDecl
  <2> QED BY <1>4, <2>1, NewFuncDeclGood
<1> QED BY <1>1, <1>2, <1>3, <1>4, DeclFacts

-----------------------------------------------------------------------------
(* The invariant of the specification, and what a step keeps. *)

LEMMA TypeInvInit == Init => TypeInv
<1> SUFFICES ASSUME Init PROVE TypeInv
  OBVIOUS
<1>1. /\ p.info = Empty /\ p.types = Empty /\ p.incs = <<>> /\ p.tracked = Empty /\ p.err = "none"
      /\ p.uses = {}
      /\ p.scope = [c \in DepName |-> [node |-> [name |-> c, kind |-> "Dep"], how |-> "subst"]]
  BY DEF Init, Fresh
<1>2. phase = "macros" /\ seen = {} /\ Built = {}
  BY DEF Init, Built
<1>3. DOMAIN Empty = {} /\ Len(<<>>) = 0
  BY DEF Empty
<1>4. Apart(p)
  BY <1>1, <1>3 DEF Apart, KindsOK, OneType, Once, TrackedByName, SubstByName, EntriesApart, UsesOK
<1>5. Live(p, {}, {})
  BY <1>1, <1>3 DEF Live, Waiting, Tracks, Placed, Listed, RefsKnown, Registered
<1> QED BY <1>1, <1>2, <1>4, <1>5 DEF TypeInv, Failed

(* Before deferTypeBuild the package is good, with nothing half declared. *)
LEMMA GoodHere ==
  ASSUME IInv, TypeInv, phase \in {"macros", "decls"}
  PROVE  Good(p, {}) /\ ~Failed(p)
<1>1. Built = {}
  BY DEF Built
<1> QED BY <1>1 DEF TypeInv, IInv, Good

LEMMA SetGoFileGood ==
  ASSUME NEW s, NEW f \in File, Good(s, {})
  PROVE  /\ Good(SetGoFile(s, f), {}) /\ Keeps(s, SetGoFile(s, f))
         /\ SameCore(s, SetGoFile(s, f))
<1>1. ToGoFile(f) \in GoFile
  BY DEF ToGoFile, GoFile
<1> QED BY <1>1, SetCurGood DEF SetGoFile

LEMMA MacroStep ==
  ASSUME IInv, TypeInv, NEW m \in Macros, ProcessMacro(m)
  PROVE  TypeInv' /\ Keeps(p, p')
<1> DEFINE s == SetGoFile(p, m.file)
           q == NewMacro(s, m)
<1>1. Good(p, {}) /\ ~Failed(p)
  BY GoodHere DEF ProcessMacro
<1>2. m.file \in File
  BY ConvertAssumption DEF ConvertAssumption
<1>3. Good(s, {}) /\ Keeps(p, s)
  BY <1>1, <1>2, SetGoFileGood
<1>4. p' = IF InCurPkg(m.file) THEN q ELSE p
  BY DEF ProcessMacro
<1> HIDE DEF s
<1>5. Good(q, {}) /\ Keeps(s, q)
  BY <1>3, NewMacroGood
<1> HIDE DEF q
<1>6. Good(p', {}) /\ Keeps(p, p')
  BY <1>1, <1>3, <1>4, <1>5, KeepsTrans, KeepsRefl
<1>7. /\ phase = "macros" /\ phase' \in {"failed", "macros"} /\ (phase' = "failed" <=> Failed(p'))
      /\ seen' = seen
  BY DEF ProcessMacro
<1>8. Apart(p') /\ Built' = {} /\ (phase' # "failed" => Live(p', {}, {}) /\ ~Failed(p'))
  BY <1>6, <1>7 DEF Good, Built
<1> QED BY <1>6, <1>7, <1>8 DEF TypeInv

(* A name a node refers to has been declared or can be. *)
LEMMA DeclRefs ==
  ASSUME CSpaces, TypeInv, NEW d \in Decls, ProcessDecl(d), d.kind # "Enum", NEW i \in DOMAIN d.refs
  PROVE  Resolvable(p, d.refs[i], locMap')
<1>1. CASE d.refs[i] \in Tag
  BY <1>1 DEF Resolvable
<1>2. CASE d.refs[i] \notin Tag
  <2>1. d.refs[i] \in seen \cup DepName
    BY <1>2 DEF ProcessDecl, Nameable
  <2>3. DepName \subseteq DOMAIN p.scope
    BY DEF TypeInv, Apart
  <2>4. \A c \in seen \ Tag : c \in DOMAIN p.scope \cup locMap
    BY DEF ProcessDecl, TypeInv
  <2>5. locMap \subseteq locMap'
    BY DEF ProcessDecl
  <2> QED BY <1>2, <2>1, <2>3, <2>4, <2>5 DEF Resolvable
<1> QED BY <1>1, <1>2

LEMMA DeclStep ==
  ASSUME CSpaces, IInv, TypeInv, NEW d \in Decls, ProcessDecl(d)
  PROVE  TypeInv' /\ Keeps(p, p')
<1> DEFINE s == SetGoFile(p, d.file)
           q == NewDecl(s, d, locMap')
<1>1. Good(p, {}) /\ ~Failed(p) /\ phase = "decls"
  BY GoodHere DEF ProcessDecl
<1>2. /\ d.file \in File /\ d.name \in CName \cup {NoName} /\ RefsOK(d.refs)
      /\ d.kind \in {"Func", "Type", "Typedef", "Enum"}
  BY DeclFacts
<1>3. Good(s, {}) /\ Keeps(p, s) /\ ~Failed(s)
  BY <1>1, <1>2, SetGoFileGood DEF SameCore, Failed
<1>4. /\ p' = IF Skipped(d) THEN p ELSE q
      /\ phase' \in {"failed", "decls"} /\ (phase' = "failed" <=> Failed(p'))
      /\ seen' = seen \cup (Mentions(d) \ {NoName}) /\ locMap \subseteq locMap'
  BY DEF ProcessDecl
<1>5. \A c \in seen \ Tag : c \in DOMAIN p.scope \cup locMap
  BY <1>1 DEF TypeInv
<1>6. ASSUME d.kind # "Enum", NEW i \in DOMAIN d.refs
      PROVE  Resolvable(p, d.refs[i], locMap')
  BY <1>6, DeclRefs
<1>7. d.kind # "Enum" => \A i \in DOMAIN d.refs : Resolvable(s, d.refs[i], locMap')
  BY <1>3, <1>6 DEF Resolvable, Keeps
<1> HIDE DEF s
<1>8. /\ Good(q, {}) /\ Keeps(s, q)
      /\ ~Failed(q) /\ d.kind \in {"Typedef", "Enum"} /\ d.name # NoName => d.name \in DOMAIN q.scope
  BY <1>3, <1>7, NewDeclGood
<1> HIDE DEF q
<1>9. Good(p', {}) /\ Keeps(p, p')
  BY <1>1, <1>3, <1>4, <1>8, KeepsTrans, KeepsRefl
<1>10. Apart(p') /\ Built' = {} /\ (phase' # "failed" => Live(p', {}, {}) /\ ~Failed(p'))
  BY <1>4, <1>9 DEF Good, Built
<1>11. ASSUME phase' = "decls", NEW c \in seen' \ Tag
       PROVE  c \in DOMAIN p'.scope \cup locMap'
  <2>1. CASE c \in seen
    BY <1>4, <1>5, <1>9, <1>11, <2>1 DEF Keeps
  <2>2. CASE c \in Declares(d) /\ c # NoName
    <3>1. d.kind \in {"Typedef", "Enum"} /\ c = d.name
      BY <1>2, <1>11, <2>2 DEF CSpaces, TypeKind, Declares
    <3>2. CASE FileType[d.file] = "third"
      BY <2>2, <3>1, <3>2 DEF ProcessDecl
    <3>3. CASE FileType[d.file] # "third"
      <4>1. ~Skipped(d)
        BY <1>2, <3>1, <3>3, ConvertAssumption DEF ConvertAssumption, Skipped, InCurPkg
      <4> QED BY <1>4, <1>8, <1>10, <1>11, <2>2, <3>1, <4>1
    <3> QED BY <3>2, <3>3
  <2>3. CASE d.kind # "Enum" /\ \E i \in DOMAIN d.refs : c = d.refs[i]
    BY <1>6, <1>9, <1>11, <2>3 DEF Resolvable, Keeps
  <2>4. c \in seen \/ (c \in Mentions(d) /\ c # NoName)
    BY <1>4, <1>11
  <2> QED BY <2>1, <2>2, <2>3, <2>4 DEF Mentions
<1> QED BY <1>4, <1>9, <1>10, <1>11 DEF TypeInv

(* A reference to a known name changes none of the maps the types are in.  *)
LEMMA KnownLookup ==
  ASSUME NEW s, NEW c, NEW third, IsPkg(s), ~Failed(s), Known(s, c)
  PROVE  LET q == LookupType(s, c, third)
         IN  /\ q.info = s.info /\ q.scope = s.scope /\ q.types = s.types
             /\ q.incs = s.incs /\ q.tracked = s.tracked /\ (Failed(q) \/ q.err = s.err)
             /\ IsPkg(q) /\ q.uses \subseteq Resolved(s, c)
             /\ q.pubs = s.pubs /\ q.err \in {s.err, "third"}
<1> DEFINE q == IF c \in DOMAIN s.scope THEN s
                ELSE IF c \in third THEN Fail(s, "third")
                ELSE ImplicitForwardDecl(s, c)
           uses == Resolved(q, c)
           u == [q EXCEPT !.uses = uses]
           z == LookupType(s, c, third)
<1>1. q = s \/ (q = Fail(s, "third") /\ c \notin DOMAIN s.scope /\ c \in third)
  BY DEF Known, ImplicitForwardDecl
<1>2. z = IF Failed(q) THEN q ELSE u
  BY DEF LookupType, Resolved
<1> HIDE DEF z
<1>3. CASE q = s
  <2> HIDE DEF q, uses
  <2>1. /\ u.info = s.info /\ u.scope = s.scope /\ u.types = s.types
        /\ u.incs = s.incs /\ u.tracked = s.tracked /\ u.err = s.err /\ IsPkg(u)
        /\ u.uses = uses /\ u.pubs = s.pubs
    BY <1>3 DEF IsPkg
  <2>3. uses = Resolved(s, c)
    BY <1>3 DEF uses
  <2> HIDE DEF u
  <2>2. z = u
    BY <1>2, <1>3
  <2> QED BY <2>1, <2>2, <2>3 DEF z
<1>4. CASE q = Fail(s, "third")
  <2> DEFINE f == Fail(s, "third")
  <2>1. /\ f.info = s.info /\ f.scope = s.scope /\ f.types = s.types
        /\ f.incs = s.incs /\ f.tracked = s.tracked /\ Failed(f) /\ f.uses = s.uses
        /\ f.pubs = s.pubs /\ f.err = "third"
    BY FailIs DEF Failed
  <2>4. IsPkg(f)
    BY DEF Fail, IsPkg
  <2> HIDE DEF f, q
  <2>2. q = f
    BY <1>4 DEF f
  <2> HIDE DEF u
  <2>3. z = f
    BY <1>2, <2>1, <2>2
  <2>5. s.uses \subseteq Resolved(s, c)
    BY DEF Resolved
  <2> QED BY <2>1, <2>3, <2>4, <2>5 DEF z
<1> HIDE DEF q
<1> QED BY <1>1, <1>3, <1>4

(* deferTypeBuild defines the type of the entry, or fails and leaves it.   *)
LEMMA BuildTypeIs ==
  ASSUME NEW s, NEW e, NEW third, IsPkg(s), ~Failed(s), e.ref = NoName \/ Known(s, e.ref)
  PROVE  LET q == BuildType(s, e, third)
         IN  /\ q.info = s.info /\ q.scope = s.scope /\ q.incs = s.incs /\ q.tracked = s.tracked
             /\ q.uses = s.uses \/ (Known(s, e.ref) /\ q.uses \subseteq Resolved(s, e.ref))
             /\ q.pubs = s.pubs /\ q.err \in {s.err, "third"}
             /\ \/ Failed(q) /\ q.types = s.types
                \/ /\ q.err = s.err
                   /\ \E t : /\ q.types = Bind(s.types, e.node, t)
                             /\ t.inits = s.types[e.node].inits + 1 /\ t.go = s.types[e.node].go
                             /\ t.of = IF e.ref = NoName THEN NoNode ELSE Target(s, e.ref)
<1> DEFINE here == RestoreFile(s, e.node)
           l == LookupType(here, e.ref, third)
           opaque == InitType(here, e.node, "opaque", NoNode)
           alias == InitType(l, e.node, "alias", Target(l, e.ref))
           q == BuildType(s, e, third)
<1>1. q = IF e.ref = NoName THEN opaque ELSE IF Failed(l) THEN l ELSE alias
  BY DEF BuildType
<1> HIDE DEF q
<1>2. /\ IsPkg(here) /\ here.info = s.info /\ here.scope = s.scope /\ here.types = s.types
      /\ here.incs = s.incs /\ here.tracked = s.tracked /\ here.err = s.err /\ here.uses = s.uses
      /\ here.pubs = s.pubs
  BY DEF RestoreFile, IsPkg
<1> HIDE DEF here
<1>3. ~Failed(here) /\ (e.ref = NoName \/ Known(here, e.ref))
  BY <1>2 DEF Failed, Known
<1>4. Resolved(here, e.ref) = Resolved(s, e.ref)
  BY <1>2 DEF Resolved, Target
<1>5. CASE e.ref = NoName
  <2> DEFINE t == DefAs(here, e.node, "opaque", NoNode)
  <2>1. /\ opaque.info = s.info /\ opaque.incs = s.incs /\ opaque.tracked = s.tracked
        /\ opaque.scope = s.scope /\ opaque.err = s.err /\ opaque.types = Bind(s.types, e.node, t)
        /\ opaque.uses = s.uses /\ opaque.pubs = s.pubs
    BY <1>2, <1>3, InitTypeIs
  <2>2. t.inits = s.types[e.node].inits + 1 /\ t.go = s.types[e.node].go /\ t.of = NoNode
    BY <1>2 DEF DefAs
  <2> HIDE DEF opaque, t
  <2>3. q = opaque
    BY <1>1, <1>5
  <2> QED BY <1>5, <2>1, <2>2, <2>3 DEF q
<1>6. CASE e.ref # NoName
  <2>1. IsPkg(l)
    BY <1>2, <1>3, <1>6, KnownLookup
  <2>2. /\ l.info = s.info /\ l.scope = s.scope /\ l.types = s.types
        /\ l.incs = s.incs /\ l.tracked = s.tracked /\ (Failed(l) \/ l.err = s.err)
        /\ l.pubs = s.pubs /\ l.err \in {s.err, "third"}
    BY <1>2, <1>3, <1>6, KnownLookup
  <2>3. Known(s, e.ref) /\ l.uses \subseteq Resolved(s, e.ref)
    BY <1>2, <1>3, <1>4, <1>6, KnownLookup DEF Known
  <2> HIDE DEF l
  <2>4. CASE Failed(l)
    BY <1>1, <1>6, <2>2, <2>3, <2>4 DEF q
  <2>5. CASE ~Failed(l)
    <3> DEFINE t == DefAs(l, e.node, "alias", Target(l, e.ref))
    <3>1. /\ alias.info = s.info /\ alias.incs = s.incs /\ alias.tracked = s.tracked
          /\ alias.scope = s.scope /\ alias.err = s.err /\ alias.types = Bind(s.types, e.node, t)
          /\ alias.uses = l.uses /\ alias.pubs = s.pubs
      BY <2>1, <2>2, <2>5, InitTypeIs
    <3>2. /\ t.inits = s.types[e.node].inits + 1 /\ t.go = s.types[e.node].go
          /\ t.of = Target(s, e.ref)
      BY <2>2 DEF DefAs, Target
    <3> HIDE DEF alias, t
    <3>3. q = alias
      BY <1>1, <1>6, <2>5
    <3> QED BY <1>6, <2>3, <3>1, <3>2, <3>3 DEF q
  <2> QED BY <2>4, <2>5
<1> QED BY <1>5, <1>6

LEMMA BuildStep ==
  ASSUME IInv, TypeInv, BuildNext
  PROVE  TypeInv' /\ Keeps(p, p')
<1> DEFINE e == p.incs[next.i]
           b == BuildType(p, e, locMap)
           q == IF StillIncomplete(p, e) THEN b ELSE p
<1>1. /\ phase = "build" /\ next.i <= next.last
      /\ p' = IF Failed(q) THEN Clear(q) ELSE q
      /\ phase' = IF Failed(q) THEN "failed" ELSE "build"
      /\ next' = [next EXCEPT !.i = next.i + 1]
  BY DEF BuildNext
<1>2. /\ Live(p, {}, Built) /\ ~Failed(p) /\ Apart(p) /\ Sound(p) /\ next.last = Len(p.incs)
      /\ next.i \in Nat \ {0}
  BY <1>1 DEF TypeInv, IInv
<1>3. next.i \in 1..Len(p.incs) /\ Len(p.incs) \in Nat
  BY <1>1, <1>2 DEF Sound, ListOK
<1>4. e \in Entry /\ e.node \in DOMAIN p.types /\ (e.ref = NoName \/ Known(p, e.ref))
  BY <1>2, <1>3 DEF Sound, ListOK, Live, RefsKnown
<1>5. Built = {p.incs[j].node : j \in 1..(next.i - 1)}
  BY <1>1 DEF Built
<1>6. e.node \notin Built
  <2>1. EntriesApart(p.incs)
    BY <1>2 DEF Apart
  <2> QED BY <1>2, <1>3, <1>5, <2>1 DEF EntriesApart
<1>7. next'.i = next.i + 1 /\ next'.last = next.last
  BY <1>1 DEF IInv
<1> DEFINE n == e.node
           D == Built \cup {n}
<1>8. /\ q.info = p.info /\ q.scope = p.scope /\ q.incs = p.incs /\ q.tracked = p.tracked
      /\ q.uses = p.uses \/ (Known(p, e.ref) /\ q.uses \subseteq Resolved(p, e.ref))
      /\ \/ q.types = p.types /\ (Failed(q) \/ (q.err = p.err /\ n.name \notin DOMAIN p.tracked))
         \/ /\ q.err = p.err /\ n.name \in DOMAIN p.tracked
            /\ \E t : /\ q.types = Bind(p.types, n, t)
                      /\ t.inits = p.types[n].inits + 1 /\ t.go = p.types[n].go
  <2>1. CASE StillIncomplete(p, e)
    <3>1. /\ b.info = p.info /\ b.scope = p.scope /\ b.incs = p.incs /\ b.tracked = p.tracked
          /\ b.uses = p.uses \/ (Known(p, e.ref) /\ b.uses \subseteq Resolved(p, e.ref))
          /\ \/ Failed(b) /\ b.types = p.types
             \/ /\ b.err = p.err
                /\ \E t : /\ b.types = Bind(p.types, n, t)
                          /\ t.inits = p.types[n].inits + 1 /\ t.go = p.types[n].go
      BY <1>2, <1>4, BuildTypeIs DEF Sound
    <3>2. q = b /\ n.name \in DOMAIN p.tracked
      BY <2>1 DEF StillIncomplete
    <3> HIDE DEF b, q, e, n
    <3> QED BY <3>1, <3>2
  <2>2. CASE ~StillIncomplete(p, e)
    BY <2>2 DEF StillIncomplete
  <2> QED BY <2>1, <2>2
<1> HIDE DEF q
<1>9. p.types[n].inits \in {0, 1} /\ (p.types[n].inits = 0 <=> n.name \in DOMAIN p.tracked)
  BY <1>2, <1>4, <1>6 DEF Apart, Once, Live, Tracks
<1> HIDE DEF e, n
<1>10. /\ \A m : m \in DOMAIN q.types <=> m \in DOMAIN p.types
       /\ \A m \in DOMAIN p.types : m # n => q.types[m] = p.types[m]
       /\ q.types[n].go = p.types[n].go
       /\ q.types[n].inits \in {p.types[n].inits, 1}
       /\ ~Failed(q) => q.types[n].inits = 1
  <2>1. CASE q.types = p.types /\ (Failed(q) \/ (q.err = p.err /\ n.name \notin DOMAIN p.tracked))
    <3>1. ~Failed(q) => p.types[n].inits = 1
      BY <1>9, <2>1
    <3> QED BY <2>1, <3>1
  <2>2. CASE n.name \in DOMAIN p.tracked /\ \E t : /\ q.types = Bind(p.types, n, t)
                      /\ t.inits = p.types[n].inits + 1 /\ t.go = p.types[n].go
    BY <1>4, <1>9, <2>2, BindDomain, BindAt DEF n
  <2> QED BY <1>8, <2>1, <2>2
<1>11. Apart(q)
  <2>1. Once(q.types)
    BY <1>2, <1>9, <1>10 DEF Apart, Once
  <2>2. KindsOK(q.types) /\ OneType(q.types) /\ SubstByName(q.scope, q.types)
    BY <1>2, <1>8, <1>10 DEF Apart, KindsOK, OneType, SubstByName
  <2>3. UsesOK(q.uses, q.scope)
    <3>1. Known(p, e.ref) => UsesOK(Resolved(p, e.ref), p.scope)
      BY <1>2, ResolvedOK
    <3> QED BY <1>2, <1>8, <3>1 DEF Apart, UsesOK
  <2> QED BY <1>2, <1>8, <2>1, <2>2, <2>3 DEF Apart
<1>12. Keeps(p, q)
  BY <1>2, <1>8, <1>9, <1>10 DEF Keeps
<1>13. CASE Failed(q)
  <2>1. p' = Clear(q) /\ phase' = "failed"
    BY <1>1, <1>13
  <2>2. /\ p'.scope = q.scope /\ p'.types = q.types /\ p'.err = q.err
        /\ p'.incs = <<>> /\ p'.tracked = Empty /\ p'.uses = q.uses
    <3>1. IsPkg(q)
      <4>1. IsPkg(b)
        BY <1>4, BuildTypeSound, <1>2 DEF Sound, e
      <4> QED BY <1>2, <4>1 DEF q, Sound
    <3> QED BY <2>1, <3>1 DEF Clear, IsPkg
  <2>3. Apart(p')
    BY <1>11, <2>2 DEF Apart, TrackedByName, EntriesApart, Empty
  <2>4. Keeps(p, p')
    BY <1>12, <2>2 DEF Keeps, Failed
  <2> QED BY <2>1, <2>3, <2>4 DEF TypeInv
<1>14. CASE ~Failed(q)
  <2>1. p' = q /\ phase' = "build"
    BY <1>1, <1>14
  <2>2. Built' = D
    <3>1. Built' = {q.incs[j].node : j \in 1..next.i}
      BY <1>2, <1>7, <2>1 DEF Built
    <3>2. 1..next.i = (1..(next.i - 1)) \cup {next.i}
      BY <1>2
    <3> QED BY <1>5, <1>8, <3>1, <3>2 DEF n, e
  <2>3. Tracks(q, {}, D)
    BY <1>2, <1>8, <1>10, <1>14 DEF Live, Tracks
  <2>4. /\ Waiting(q, {}) /\ Placed(q, {}) /\ Listed(q) /\ RefsKnown(q) /\ Registered(q, {})
    BY <1>2, <1>8, <1>10 DEF Live, Waiting, Placed, Listed, RefsKnown, Registered, Known
  <2>5. next'.last = Len(p'.incs)
    BY <1>2, <1>7, <1>8, <2>1
  <2> QED BY <1>11, <1>12, <1>14, <2>1, <2>2, <2>3, <2>4, <2>5 DEF TypeInv, Live
<1> QED BY <1>13, <1>14

LEMMA EndBuildStep ==
  ASSUME IInv, TypeInv, EndBuild
  PROVE  TypeInv' /\ Keeps(p, p')
<1>1. /\ Live(p, {}, Built) /\ Apart(p) /\ Sound(p) /\ next.last = Len(p.incs)
      /\ next.i > next.last /\ next.i \in Nat \ {0} /\ next.i <= next.last + 1
      /\ p' = Clear(p) /\ phase' = "done"
  BY DEF TypeInv, IInv, EndBuild
<1>2. Len(p.incs) \in Nat
  BY <1>1 DEF Sound, ListOK
<1>3. Built = {p.incs[j].node : j \in 1..Len(p.incs)}
  <2>1. next.i - 1 = Len(p.incs)
    BY <1>1, <1>2
  <2> QED BY <2>1 DEF Built, EndBuild
<1>4. ASSUME NEW n \in DOMAIN p.types, p.types[n].inits = 0
      PROVE  FALSE
  <2>1. n.name \in DOMAIN p.tracked /\ n \notin Built
    BY <1>1, <1>4 DEF Live, Tracks
  <2>2. p.tracked[n.name].name = n.name /\ p.tracked[n.name] \in DOMAIN p.types
    BY <1>1, <2>1 DEF Apart, TrackedByName, Sound, MapOK
  <2>3. p.tracked[n.name] = n
    BY <1>1, <2>2 DEF Apart, OneType
  <2>4. p.tracked[n.name] \in Built
    BY <1>1, <1>3, <2>1 DEF Live, Listed
  <2> QED BY <2>1, <2>3, <2>4
<1>5. /\ p'.scope = p.scope /\ p'.types = p.types /\ p'.err = p.err
      /\ p'.incs = <<>> /\ p'.tracked = Empty /\ p'.uses = p.uses
  BY <1>1 DEF Clear, Sound, IsPkg
<1>6. Apart(p')
  BY <1>1, <1>5 DEF Apart, TrackedByName, EntriesApart, Empty
<1>7. \A n \in DOMAIN p'.types : p'.types[n].inits = 1
  BY <1>1, <1>4, <1>5 DEF Apart, Once
<1>8. Keeps(p, p')
  BY <1>5 DEF Keeps, Failed
<1> QED BY <1>1, <1>6, <1>7, <1>8 DEF TypeInv

LEMMA TypeStep ==
  ASSUME CSpaces, IInv, TypeInv, [Next]_vars
  PROVE  TypeInv' /\ Keeps(p, p')
<1>1. ASSUME NEW m \in Macros, ProcessMacro(m) PROVE TypeInv' /\ Keeps(p, p')
  BY <1>1, MacroStep
<1>2. CASE EndMacros
  <2>1. p' = p /\ seen' = seen /\ phase = "macros" /\ phase' = "decls" /\ Built = {} /\ Built' = {}
    BY <1>2 DEF EndMacros, Built
  <2> QED BY <2>1, KeepsRefl DEF TypeInv
<1>3. ASSUME NEW d \in Decls, ProcessDecl(d) PROVE TypeInv' /\ Keeps(p, p')
  BY <1>3, DeclStep
<1>4. CASE EndDecls
  <2>1. /\ p' = p /\ phase = "decls" /\ phase' = "build" /\ next'.i = 1 /\ next'.last = Len(p.incs)
        /\ Built = {}
    BY <1>4 DEF EndDecls, Built
  <2>2. Built' = {}
    BY <2>1 DEF Built
  <2> QED BY <2>1, <2>2, KeepsRefl DEF TypeInv
<1>5. CASE BuildNext
  BY <1>5, BuildStep
<1>6. CASE EndBuild
  BY <1>6, EndBuildStep
<1>7. CASE Terminated \/ UNCHANGED vars
  <2>1. p' = p /\ phase' = phase /\ next' = next /\ locMap' = locMap /\ seen' = seen
    BY <1>7 DEF Terminated, vars
  <2>2. Built' = Built
    BY <2>1 DEF Built
  <2> QED BY <2>1, <2>2, KeepsRefl DEF TypeInv
<1> QED BY <1>1, <1>2, <1>3, <1>4, <1>5, <1>6, <1>7 DEF Next

-----------------------------------------------------------------------------
(* The theorems: what the converter promises, whatever the input, when the *)
(* names of C live in the spaces CSpaces describes.                        *)

(* TypeInv is an invariant, and no step takes back a binding, a Go name or *)
(* a definition (every method of Package, and deferTypeBuild).             *)
THEOREM TypeInvariance == ASSUME CSpaces PROVE Spec => [](IInv /\ TypeInv)
<1>1. Init => IInv /\ TypeInv
  BY InitSound, TypeInvInit
<1>2. IInv /\ TypeInv /\ [Next]_vars => (IInv /\ TypeInv)'
  BY NextSound, TypeStep
<1> QED BY <1>1, <1>2, PTL DEF Spec

(* A C name becomes one Go type, whichever of a reference, a forward       *)
(* declaration or a definition the converter met first.                    *)
THEOREM OneTypeEach == ASSUME CSpaces PROVE Spec => []OneGoType
<1>1. IInv /\ TypeInv => OneGoType
  BY DEF TypeInv, Apart, OneType, OneGoType
<1> QED BY <1>1, TypeInvariance, PTL

(* IncompleteTypes tracks a type exactly while it has no underlying type,  *)
(* through forward declarations, deferred typedefs and completions.        *)
THEOREM TrackedWhileIncomplete == ASSUME CSpaces PROVE Spec => []TrackedExactly
<1>1. IInv /\ TypeInv => TrackedExactly
  <2> SUFFICES ASSUME IInv, TypeInv, phase \in {"macros", "decls"}, NEW n \in DOMAIN p.types
               PROVE  p.types[n].inits = 0 <=> n.name \in DOMAIN p.tracked /\ p.tracked[n.name] = n
    BY DEF TrackedExactly
  <2>1. Live(p, {}, {})
    BY DEF TypeInv, Built
  <2>2. p.types[n].inits = 0 <=> n.name \in DOMAIN p.tracked
    BY <2>1 DEF Live, Tracks
  <2>3. ASSUME n.name \in DOMAIN p.tracked PROVE p.tracked[n.name] = n
    <3>1. p.tracked[n.name].name = n.name /\ p.tracked[n.name] \in DOMAIN p.types
      BY <2>3 DEF TypeInv, Apart, TrackedByName, IInv, Sound, MapOK
    <3> QED BY <3>1 DEF TypeInv, Apart, OneType
  <2> QED BY <2>2, <2>3
<1> QED BY <1>1, TypeInvariance, PTL

(* No type is ever defined twice, and when conversion succeeds every Go    *)
(* type has been defined: deferTypeBuild leaves none out.                  *)
THEOREM DefinedOnce == ASSUME CSpaces PROVE Spec => []AllDefinedOnce
<1>1. IInv /\ TypeInv => AllDefinedOnce
  BY DEF TypeInv, Apart, Once, AllDefinedOnce
<1> QED BY <1>1, TypeInvariance, PTL

(* Later declarations never bind a C name or a Go name to another node:    *)
(* what has been converted stays right.                                    *)
THEOREM BindingsKept == ASSUME CSpaces PROVE Spec => BindingsStable
<1>1. IInv /\ TypeInv /\ [Next]_vars =>
        [\A g \in DOMAIN p.scope : g \in DOMAIN p'.scope /\ p'.scope[g].node = p.scope[g].node]_p
  BY TypeStep DEF Keeps
<1> QED BY <1>1, TypeInvariance, PTL DEF Spec, BindingsStable

(* The mapping of TypesLive takes the initial state to an initial state    *)
(* of TypeLife, and each step to a step of it or to a stutter.             *)
LEMMA LifeInit == Init => Life!Init
<1> SUFFICES ASSUME Init PROVE Life!Init
  OBVIOUS
<1>1. DOMAIN p.types = {} /\ phase = "macros"
  BY DEF Init, Fresh, Empty
<1> QED BY <1>1 DEF Life!Init

LEMMA LifeStep ==
  ASSUME CSpaces, IInv, TypeInv, [Next]_vars
  PROVE  [Life!Next]_(Life!vars)
<1> DEFINE name == [n \in DOMAIN p.types |-> p.types[n].go]
           defined == {n \in DOMAIN p.types : p.types[n].inits > 0}
           status == CASE phase = "done" -> "written"
                       [] phase = "failed" -> "abandoned"
                       [] OTHER -> "open"
<1>1. IInv' /\ TypeInv' /\ Keeps(p, p')
  BY NextSound, TypeStep
<1>2. CASE phase \in {"macros", "decls", "build"} /\ phase' # "done"
  <2>1. status = "open" /\ status' \in {"open", "abandoned"}
    BY <1>2
  <2>2. /\ DOMAIN name = DOMAIN p.types /\ DOMAIN name' = DOMAIN p'.types
        /\ \A n \in DOMAIN name : n \in DOMAIN name' /\ name'[n] = name[n]
        /\ defined \subseteq defined' /\ defined' \subseteq DOMAIN name'
    BY <1>1 DEF Keeps
  <2>3. DOMAIN name' \subseteq Node
    BY <1>1, <2>2 DEF IInv, Sound, TypesOK
  <2>4. Life!Injective(name')
    <3> SUFFICES ASSUME NEW m \in DOMAIN p'.types, NEW n \in DOMAIN p'.types,
                        p'.types[m].go = p'.types[n].go
                 PROVE  m = n
      BY DEF Life!Injective
    <3>1. p'.scope[p'.types[m].go] = Own(m) /\ p'.scope[p'.types[n].go] = Own(n)
      BY <1>1 DEF IInv, Sound, OwnName
    <3>2. Own(m).node = m /\ Own(n).node = n
      BY DEF Own
    <3> QED BY <3>1, <3>2
  <2>5. Life!Grow
    BY <2>1, <2>2, <2>3, <2>4 DEF Life!Grow
  <2> QED BY <2>5 DEF Life!Next
<1>3. CASE phase \in {"macros", "decls", "build"} /\ phase' = "done"
  <2>1. p' = Clear(p)
    BY <1>3 DEF Next, ProcessMacro, EndMacros, ProcessDecl, EndDecls, BuildNext, EndBuild,
                Terminated, vars
  <2>2. p'.types = p.types
    BY <2>1 DEF Clear, IInv, Sound, IsPkg
  <2>3. defined = DOMAIN name
    <3>1. \A n \in DOMAIN p.types : p.types[n].inits = 1
      BY <1>1, <1>3, <2>2 DEF TypeInv
    <3> QED BY <3>1
  <2>4. name' = name /\ defined' = defined
    BY <2>2
  <2>5. status = "open" /\ status' = "written"
    BY <1>3
  <2>6. Life!Write
    BY <2>3, <2>4, <2>5 DEF Life!Write
  <2> QED BY <2>6 DEF Life!Next
<1>4. CASE phase \notin {"macros", "decls", "build"}
  <2>1. p' = p /\ phase' = phase
    BY <1>4 DEF Next, ProcessMacro, EndMacros, ProcessDecl, EndDecls, BuildNext, EndBuild,
                Terminated, vars
  <2> QED BY <2>1 DEF Life!vars
<1> QED BY <1>2, <1>3, <1>4

(* The converter implements the life of a type: a step of Process or of    *)
(* deferTypeBuild declares and defines types and takes nothing back, and   *)
(* only a package without undefined types is written.                      *)
THEOREM LivesAsPromised == ASSUME CSpaces PROVE Spec => TypesLive
<1>1. IInv /\ TypeInv /\ [Next]_vars => [Life!Next]_(Life!vars)
  BY LifeStep
<1> QED BY <1>1, LifeInit, TypeInvariance, PTL DEF Spec, TypesLive, Life!Spec

(* A reference to a C name is given the Go type made for that C name, or   *)
(* the object whose Go name it is.                                         *)
THEOREM ReferencesResolve == ASSUME CSpaces PROVE Spec => []RefsResolve
<1>1. IInv /\ TypeInv => RefsResolve
  BY DEF TypeInv, Apart, UsesOK, RefsResolve
<1> QED BY <1>1, TypeInvariance, PTL

-----------------------------------------------------------------------------
(* The names: gogen is never asked to declare a Go name twice, and          *)
(* llcppg.pub is true, when the names of Go live in the spaces GoSpaces     *)
(* describes, whatever rank a suffix counts.                                *)

Spaces == GoSpaces(Nat \ {0})
Panics == {"redeclared", "redefined"}

(* The name was given to an object that is counted. *)
Given(count, g) ==
  \E b \in GoBase \cap DOMAIN count : \E k \in 1..count[b] : g = SuffixCount(b, k)

(* The names a package has given: a type has the one it was registered     *)
(* with, what Go declares has been counted, what is substituted is a type  *)
(* that has been, and a tag is declared in Go under its C name only when   *)
(* it was registered under that name.                                      *)
TypesNamed(s) ==
  \A n \in DOMAIN s.types : s.types[n].go = s.info[n] /\ TypeGo[n.name] \in DOMAIN s.count
ScopeNamed(s) ==
  \A g \in DOMAIN s.scope :
     /\ s.scope[g].how = "decl" => Given(s.count, g)
     /\ s.scope[g].how = "subst" => g \in DepName \/ (g \in TypeName /\ TypeGo[g] \in DOMAIN s.count)
TagsFree(s) ==
  \A c \in Tag : c \in DOMAIN s.scope /\ s.scope[c].how # "subst" =>
     TypeNode(c) \in DOMAIN s.info /\ s.info[TypeNode(c)] = c
Names(s) == TypesNamed(s) /\ ScopeNamed(s) /\ TagsFree(s)

(* llcppg.pub tells the Go names of types, those of Y perhaps not yet made. *)
Told(s, Y) ==
  \A c \in DOMAIN s.pubs \ Y : \E n \in DOMAIN s.types :
     n.name = c /\ s.types[n].go = IF s.pubs[c] = NoName THEN c ELSE s.pubs[c]

Proper(s, Y) == s.err \notin Panics /\ (~Failed(s) => Names(s) /\ Told(s, Y))

(* A Go name that is counted and not declared stays so from s to q. *)
KeepsFree(s, q) ==
  ~Failed(q) => \A b \in DOMAIN s.count :
                   /\ b \in DOMAIN q.count
                   /\ b \in GoBase \ DOMAIN s.scope => b \notin DOMAIN q.scope

LEMMA KeepsFreeTrans ==
  ASSUME NEW s, NEW q, NEW r, KeepsFree(s, q), KeepsFree(q, r), Failed(q) => Failed(r)
  PROVE  KeepsFree(s, r)
  BY DEF KeepsFree

(* What a package is properly named by. *)
SameNames(s, q) ==
  /\ q.info = s.info /\ q.count = s.count /\ q.scope = s.scope /\ q.pubs = s.pubs
  /\ q.err = s.err
  /\ DOMAIN q.types = DOMAIN s.types /\ \A n \in DOMAIN s.types : q.types[n].go = s.types[n].go

LEMMA ProperSame ==
  ASSUME NEW s, NEW q, NEW Y, Proper(s, Y), SameNames(s, q)
  PROVE  Proper(q, Y) /\ KeepsFree(s, q)
<1>1. Failed(q) <=> Failed(s)
  BY DEF SameNames, Failed
<1>2. Names(s) => Names(q)
  BY DEF SameNames, Names, TypesNamed, ScopeNamed, TagsFree
<1>3. Told(s, Y) => Told(q, Y)
  BY DEF SameNames, Told
<1> QED BY <1>1, <1>2, <1>3 DEF SameNames, Proper, KeepsFree

LEMMA AddIncompleteSame ==
  ASSUME NEW s, NEW node, NEW ref, IsPkg(s)
  PROVE  SameNames(s, AddIncomplete(s, node, ref))
<1> DEFINE l == Append(s.incs, [node |-> node, ref |-> ref])
           b == Bind(s.tracked, node.name, node)
           q == [s EXCEPT !.incs = l, !.tracked = b]
<1>1. AddIncomplete(s, node, ref) = IF Failed(s) THEN s ELSE q
  BY DEF AddIncomplete
<1> HIDE DEF l, b
<1>2. /\ q.info = s.info /\ q.count = s.count /\ q.pubs = s.pubs
      /\ q.scope = s.scope /\ q.err = s.err /\ q.types = s.types
  BY DEF IsPkg
<1> HIDE DEF q
<1> QED BY <1>1, <1>2 DEF SameNames

(* What Told says of types that are kept. *)
LEMMA ToldKept ==
  ASSUME NEW s, NEW q, NEW Y, Told(s, Y), q.pubs = s.pubs,
         \A n \in DOMAIN s.types : n \in DOMAIN q.types /\ q.types[n].go = s.types[n].go
  PROVE  Told(q, Y)
  BY DEF Told

LEMMA GivenKept ==
  ASSUME NEW s, NEW g, CountOK(s)
  PROVE  LET k == (IF g \in DOMAIN s THEN s[g] ELSE 0) + 1
         IN  /\ \A x : Given(s, x) => Given(Bind(s, g, k), x)
             /\ g \in GoBase => Given(Bind(s, g, k), SuffixCount(g, k))
<1> DEFINE k == (IF g \in DOMAIN s THEN s[g] ELSE 0) + 1
           q == Bind(s, g, k)
<1>1. k \in Nat \ {0} /\ (g \in DOMAIN s => k = s[g] + 1 /\ s[g] \in Nat)
  BY DEF CountOK
<1>2. /\ \A x : x \in DOMAIN q <=> x \in DOMAIN s \/ x = g
      /\ \A x \in DOMAIN s : x # g => q[x] = s[x]
      /\ q[g] = k
  BY BindDomain, BindAt
<1> HIDE DEF k, q
<1>3. ASSUME NEW x, Given(s, x) PROVE Given(q, x)
  <2>0. PICK b \in GoBase \cap DOMAIN s : \E j \in 1..s[b] : x = SuffixCount(b, j)
    BY <1>3 DEF Given
  <2>1. PICK j \in 1..s[b] : x = SuffixCount(b, j)
    BY <2>0
  <2>2. b \in GoBase \cap DOMAIN q /\ j \in 1..q[b]
    <3>1. CASE b = g
      BY <1>1, <1>2, <3>1
    <3>2. CASE b # g
      BY <1>2, <3>2
    <3> QED BY <3>1, <3>2
  <2> QED BY <2>1, <2>2 DEF Given
<1>4. ASSUME g \in GoBase PROVE Given(q, SuffixCount(g, k))
  <2>1. g \in GoBase \cap DOMAIN q /\ k \in 1..q[g]
    BY <1>1, <1>2, <1>4
  <2> QED BY <2>1 DEF Given
<1> QED BY <1>3, <1>4 DEF k, q

(* A node that is not a type yet is registered. *)
LEMMA RegisterNames ==
  ASSUME NEW s, NEW Y, NEW node, NEW g, Sound(s), Proper(s, Y), ~Failed(s),
         node \notin DOMAIN s.types, DOMAIN s.types \subseteq DOMAIN s.info,
         node.kind = "Type" => node.name \notin DOMAIN s.scope
  PROVE  LET q == Register(s, node, g)
         IN  /\ Proper(q, Y) /\ KeepsFree(s, q)
             /\ g \in DOMAIN q.count
             /\ g \in GoBase => Given(q.count, SuffixCount(g, Users(s, g) + 1))
<1> DEFINE q == Register(s, node, g)
           k == Users(s, g) + 1
           v == SuffixCount(g, k)
<1>1. /\ q.info = Bind(s.info, node, v) /\ q.count = Bind(s.count, g, k)
      /\ q.scope = s.scope /\ q.types = s.types /\ q.err = s.err /\ q.pubs = s.pubs
  BY RegisterIs DEF Sound
<1> HIDE DEF q
<1>2. /\ \A x : Given(s.count, x) => Given(q.count, x)
      /\ g \in GoBase => Given(q.count, v)
  BY <1>1, GivenKept DEF Users, Sound
<1> HIDE DEF k, v
<1>3. /\ \A n : n \in DOMAIN q.info <=> n \in DOMAIN s.info \/ n = node
      /\ \A n \in DOMAIN s.info : n # node => q.info[n] = s.info[n]
      /\ \A b : b \in DOMAIN q.count <=> b \in DOMAIN s.count \/ b = g
  BY <1>1, BindDomain, BindAt
<1>4. Names(s) /\ Told(s, Y) /\ ~Failed(q)
  BY <1>1 DEF Proper, Failed
<1>5. TypesNamed(q)
  BY <1>1, <1>3, <1>4 DEF Names, TypesNamed
<1>6. ScopeNamed(q)
  BY <1>1, <1>2, <1>3, <1>4 DEF Names, ScopeNamed
<1>7. TagsFree(q)
  <2>1. ASSUME NEW c \in Tag, TypeNode(c) = node PROVE c \notin DOMAIN q.scope
    BY <1>1, <2>1 DEF TypeNode
  <2> QED BY <1>1, <1>3, <1>4, <2>1 DEF Names, TagsFree
<1>8. Told(q, Y)
  BY <1>1, <1>4 DEF Told
<1>9. KeepsFree(s, q)
  BY <1>1, <1>3 DEF KeepsFree
<1> QED BY <1>1, <1>2, <1>3, <1>5, <1>6, <1>7, <1>8, <1>9 DEF Proper, Names, q, v, k

(* A name that has been given to a node is declared in Go. *)
LEMMA DeclaredNames ==
  ASSUME NEW s, NEW q, NEW node, NEW nm, Names(s), nm \notin DOMAIN s.scope, Given(s.count, nm),
         nm \in Tag => TypeNode(nm) \in DOMAIN s.info /\ s.info[TypeNode(nm)] = nm,
         q.info = s.info, q.count = s.count, q.scope = Bind(s.scope, nm, Own(node)),
         TypesNamed(q)
  PROVE  Names(q)
<1>1. /\ \A g : g \in DOMAIN q.scope <=> g \in DOMAIN s.scope \/ g = nm
      /\ \A g \in DOMAIN s.scope : q.scope[g] = s.scope[g]
      /\ q.scope[nm] = Own(node)
  BY BindDomain, BindAt
<1>2. Own(node).how = "decl"
  BY DEF Own
<1>3. ScopeNamed(q)
  BY <1>1, <1>2 DEF Names, ScopeNamed
<1>4. TagsFree(q)
  BY <1>1 DEF Names, TagsFree
<1> QED BY <1>3, <1>4 DEF Names

(* The C name of a counted type is substituted. *)
LEMMA SubstNames ==
  ASSUME NEW s, NEW node, NEW c \in TypeName, NEW Y, IsPkg(s), Proper(s, Y),
         ~Failed(s) => /\ TypeGo[c] \in DOMAIN s.count
                       /\ c \in DOMAIN s.scope => s.scope[c].how = "subst"
  PROVE  Proper(SubstObj(s, c, node), Y)
<1> DEFINE q == SubstObj(s, c, node)
           o == [node |-> node, how |-> "subst"]
<1>1. CASE Failed(s)
  BY <1>1 DEF SubstObj
<1>2. CASE ~Failed(s)
  <2>1. /\ q.info = s.info /\ q.types = s.types /\ q.count = s.count /\ q.pubs = s.pubs
        /\ q.scope = Bind(s.scope, c, o) /\ q.err = s.err
    BY <1>2, SubstIs
  <2>2. o.how = "subst"
    OBVIOUS
  <2> HIDE DEF q, o
  <2>3. /\ \A g : g \in DOMAIN q.scope <=> g \in DOMAIN s.scope \/ g = c
        /\ \A g \in DOMAIN s.scope : g # c => q.scope[g] = s.scope[g]
        /\ q.scope[c] = o
    BY <2>1, BindDomain, BindAt
  <2>4. Names(s) /\ Told(s, Y) /\ ~Failed(q)
    BY <1>2, <2>1 DEF Proper, Failed
  <2>5. TypesNamed(q) /\ ScopeNamed(q) /\ TagsFree(q)
    BY <1>2, <2>1, <2>2, <2>3, <2>4 DEF Names, TypesNamed, ScopeNamed, TagsFree
  <2>6. Told(q, Y)
    BY <2>1, <2>4 DEF Told
  <2> QED BY <2>1, <2>5, <2>6 DEF Proper, Names, q
<1> QED BY <1>1, <1>2

-----------------------------------------------------------------------------
(* References. *)

(* A tag without a name in the scope and without an entry is unregistered. *)
LEMMA TagUnknown ==
  ASSUME NEW s, NEW X, NEW c \in Tag, Good(s, X), ~Failed(s), NoTag(X),
         c \notin DOMAIN s.scope, c \notin DOMAIN s.tracked
  PROVE  TypeNode(c) \notin DOMAIN s.info
<1>1. TypeNode(c).name = c /\ TypeNode(c).kind = "Type"
  BY TagFacts
<1>2. Live(s, X, {})
  BY DEF Good
<1>3. TypeNode(c) \notin X
  BY <1>1 DEF NoTag
<1>4. TypeNode(c) \notin DOMAIN s.types
  BY <1>1, <1>2, <1>3 DEF Live, Placed, Known
<1> QED BY <1>1, <1>2, <1>3, <1>4 DEF Live, Registered, TypeKind

(* The name a tag is given is free, and not one that is only counted. *)
LEMMA TagNameFree ==
  ASSUME Spaces, NEW s, NEW c \in Tag, Names(s), CountOK(s.count), c \notin DOMAIN s.scope,
         c \in CName
  PROVE  LET v == SuffixCount(TypeGo[c], Users(s, TypeGo[c]) + 1)
         IN  /\ v \notin DOMAIN s.scope \/ s.scope[v].how \notin {"decl", "subst"}
             /\ \A b \in GoBase : b \in DOMAIN s.count => b # v
             /\ v \in Tag => v = c
<1> DEFINE g == TypeGo[c]
           k == Users(s, g) + 1
           v == SuffixCount(g, k)
<1>1. c \in TypeName /\ g \in GoBase
  BY DEF TypeName, GoBase
<1>2. k \in Nat \ {0} /\ \A b \in DOMAIN s.count : s.count[b] \in Nat \ {0}
  BY DEF CountOK, Users
<1>3. g \in DOMAIN s.count => k = s.count[g] + 1
  BY DEF Users
<1>4. \A a, b \in GoBase : \A i, j \in Nat \ {0} : SuffixCount(a, i) = SuffixCount(b, j) => a = b /\ i = j
  BY DEF Spaces, GoSpaces
<1>5. \A b \in GoBase : SuffixCount(b, 1) = b
  BY DEF Spaces, GoSpaces
<1>6. /\ v \notin DepName
      /\ \A e \in TypeName \ {c} : v = e => TypeGo[e] = e
      /\ v \in Tag => v = c
  <2>1. \A t \in Tag : \A e \in TypeName \ {t} : SuffixCount(TypeGo[e], k) # t
    BY <1>2 DEF Spaces, GoSpaces
  <2>2. /\ v \notin DepName
        /\ \A e \in TypeName \ {c} : v = e => TypeGo[e] = e
    BY <1>2 DEF Spaces, GoSpaces
  <2> QED BY <1>1, <2>1, <2>2
<1> HIDE DEF k, v, g
<1>7. ASSUME NEW b \in GoBase, b \in DOMAIN s.count PROVE b # v
  <2>1. b = v => g = b /\ k = 1
    <3>1. SuffixCount(b, 1) = b /\ 1 \in Nat \ {0}
      BY <1>5
    <3>2. v = SuffixCount(g, k)
      BY DEF v, k, g
    <3> QED BY <1>1, <1>2, <1>4, <3>1, <3>2
  <2> QED BY <1>2, <1>3, <1>7, <2>1
<1>8. ~Given(s.count, v)
  <2>1. ASSUME NEW b \in GoBase \cap DOMAIN s.count, NEW j \in 1..s.count[b], v = SuffixCount(b, j)
        PROVE  FALSE
    <3>1. j \in Nat \ {0}
      BY <1>2
    <3>2. b = g /\ j = k
      BY <1>1, <1>2, <1>4, <2>1, <3>1 DEF v, k, g
    <3> QED BY <1>2, <1>3, <2>1, <3>2
  <2> QED BY <2>1 DEF Given
<1>9. ASSUME v \in DOMAIN s.scope PROVE s.scope[v].how \notin {"decl", "subst"}
  <2>1. ASSUME s.scope[v].how = "subst" PROVE FALSE
    <3>1. v \in TypeName /\ TypeGo[v] \in DOMAIN s.count
      BY <1>6, <1>9, <2>1 DEF Names, ScopeNamed
    <3>2. TypeGo[v] = v
      BY <1>6, <1>9, <3>1
    <3>3. v \in GoBase /\ v \in DOMAIN s.count
      BY <3>1, <3>2 DEF GoBase
    <3> QED BY <1>7, <3>3
  <2> QED BY <1>8, <1>9, <2>1 DEF Names, ScopeNamed
<1> QED BY <1>6, <1>7, <1>9 DEF v, k, g

LEMMA ImplicitNames ==
  ASSUME Spaces, NEW s, NEW X, NEW Y, NEW c \in Tag, Good(s, X), ~Failed(s), NoTag(X),
         c \notin DOMAIN s.scope, Proper(s, Y)
  PROVE  LET q == ImplicitForwardDecl(s, c)
         IN  Proper(q, Y) /\ KeepsFree(s, q)
<1> DEFINE n == TypeNode(c)
           g == TypeGo[c]
           v == SuffixCount(g, Users(s, g) + 1)
           r == RegisterNode(s, n, g, TRUE)
           w == Register(s, n, g)
           d == EmptyTypeDecl(w, v, n)
           q == AddIncomplete(d, n, NoName)
<1>1. CASE c \in DOMAIN s.tracked
  <2>1. ImplicitForwardDecl(s, c) = s
    BY <1>1 DEF ImplicitForwardDecl
  <2> QED BY <2>1 DEF KeepsFree
<1>2. CASE c \notin DOMAIN s.tracked
  <2>1. n \notin DOMAIN s.info
    BY <1>2, TagUnknown
  <2>2. c \in CName /\ n.name = c /\ n \in Node
    BY TagFacts DEF IsTypeNode
  <2>3. /\ Names(s) /\ Told(s, Y) /\ Sound(s) /\ IsPkg(s) /\ ScopeOK(s.scope) /\ CountOK(s.count)
        /\ DOMAIN s.types \subseteq DOMAIN s.info
    BY DEF Proper, Good, Sound, Live, Registered
  <2>4. /\ v \notin DOMAIN s.scope
        /\ \A b \in GoBase : b \in DOMAIN s.count => b # v
        /\ v \in Tag => v = c
    BY <2>2, <2>3, TagNameFree DEF ScopeOK
  <2>5. ImplicitForwardDecl(s, c) = q
    <3>1. r.bad => v \in DOMAIN s.scope \/ n.name \in DOMAIN s.scope
      <4> HIDE DEF n, g
      <4> QED BY <2>1, <2>3, RegisterNodeNew, Zenon
    <3>2. ~r.bad
      BY <2>2, <2>4, <3>1
    <3>3. ~r.bad => r.name = v
      <4> HIDE DEF n, g
      <4> QED BY <2>1, <2>3, RegisterNodeNew, Zenon
    <3>4. r.pkg = w
      BY <2>1 DEF RegisterNode
    <3>5. ImplicitForwardDecl(s, c) = AddIncomplete(EmptyTypeDecl(r.pkg, r.name, n), n, NoName)
      BY <1>2 DEF ImplicitForwardDecl
    <3> HIDE DEF r
    <3> QED BY <3>2, <3>3, <3>4, <3>5
  <2>6. /\ w.info = Bind(s.info, n, v) /\ w.scope = s.scope /\ w.types = s.types
        /\ w.err = s.err /\ w.pubs = s.pubs
    BY <2>3, RegisterIs
  <2>7. Proper(w, Y) /\ KeepsFree(s, w) /\ Given(w.count, v) /\ g \in DOMAIN w.count
    <3>1. g \in GoBase
      BY DEF GoBase, TypeName
    <3> HIDE DEF g
    <3> QED BY <2>1, <2>2, <2>3, <3>1, RegisterNames
  <2>8. IsPkg(w)
    BY <2>2, <2>3, RegisterSound DEF Sound
  <2> HIDE DEF w, v
  <2>9. /\ d.info = w.info /\ d.count = w.count /\ d.pubs = w.pubs
        /\ d.scope = Bind(w.scope, v, Own(n)) /\ d.err = w.err
        /\ d.types = Bind(w.types, n, NewDef(w, v))
    BY <2>4, <2>6, <2>8, EmptyTypeDeclIs DEF Failed
  <2>10. IsPkg(d)
    <3>1. Sound(w)
      BY <2>2, <2>3, RegisterSound DEF w
    <3> QED BY <2>2, <3>1, EmptyTypeDeclSound DEF Sound
  <2> HIDE DEF d
  <2>11. /\ \A m : m \in DOMAIN d.types <=> m \in DOMAIN s.types \/ m = n
         /\ \A m \in DOMAIN s.types : d.types[m] = w.types[m] /\ m # n
         /\ d.types[n].go = v /\ w.info[n] = v
    <3>1. NewDef(w, v).go = v
      BY DEF NewDef
    <3> QED BY <2>1, <2>3, <2>6, <2>9, <3>1, BindDomain, BindAt
  <2>12. Names(w) /\ Told(w, Y)
    BY <2>6, <2>7 DEF Proper, Failed
  <2>13. TypesNamed(d)
    BY <2>2, <2>6, <2>7, <2>9, <2>11, <2>12 DEF Names, TypesNamed
  <2>14. Names(d)
    <3>1. v \in Tag => TypeNode(v) \in DOMAIN w.info /\ w.info[TypeNode(v)] = v
      BY <2>4, <2>6, <2>11, BindDomain
    <3> QED BY <2>4, <2>6, <2>7, <2>9, <2>12, <2>13, <3>1, DeclaredNames
  <2>15. Told(d, Y)
    BY <2>6, <2>9, <2>11, <2>12, ToldKept
  <2>16. Proper(d, Y)
    BY <2>7, <2>9, <2>14, <2>15 DEF Proper
  <2>17. KeepsFree(s, d)
    <3>1. /\ \A x : x \in DOMAIN d.scope <=> x \in DOMAIN s.scope \/ x = v
          /\ ~Failed(w)
      BY <2>6, <2>9, BindDomain DEF Failed
    <3> QED BY <2>4, <2>6, <2>7, <2>9, <3>1 DEF KeepsFree
  <2>18. SameNames(d, q)
    BY <2>10, AddIncompleteSame
  <2> HIDE DEF q
  <2>19. Failed(d) => Failed(q)
    BY <2>18 DEF SameNames, Failed
  <2>20. Proper(q, Y) /\ KeepsFree(d, q)
    BY <2>16, <2>18, ProperSame
  <2>21. KeepsFree(s, q)
    BY <2>17, <2>19, <2>20, KeepsFreeTrans
  <2> QED BY <2>5, <2>20, <2>21
<1> QED BY <1>1, <1>2

LEMMA LookupTypeNames ==
  ASSUME Spaces, NEW s, NEW X, NEW Y, NEW c \in CName, NEW third, Good(s, X), NoTag(X),
         Resolvable(s, c, third), Proper(s, Y)
  PROVE  LET q == LookupType(s, c, third)
         IN  Proper(q, Y) /\ KeepsFree(s, q)
<1> DEFINE q == IF c \in DOMAIN s.scope THEN s
                ELSE IF c \in third THEN Fail(s, "third")
                ELSE ImplicitForwardDecl(s, c)
           uses == Resolved(q, c)
           u == [q EXCEPT !.uses = uses]
<1>1. CASE Failed(s)
  BY <1>1 DEF LookupType, KeepsFree
<1>2. CASE ~Failed(s)
  <2>1. Proper(q, Y) /\ KeepsFree(s, q) /\ Sound(q)
    <3>1. CASE c \in DOMAIN s.scope
      BY <3>1 DEF KeepsFree, Good
    <3>2. CASE c \notin DOMAIN s.scope /\ c \in third
      <4>1. q = Fail(s, "third")
        BY <3>2
      <4>2. q.err = "third" /\ Sound(q)
        BY <4>1, FailIs, FailSound DEF Good, Sound, Errs
      <4> QED BY <4>2 DEF Proper, KeepsFree, Failed, Panics
    <3>3. CASE c \notin DOMAIN s.scope /\ c \notin third
      <4>1. c \in Tag /\ q = ImplicitForwardDecl(s, c)
        BY <3>3 DEF Resolvable
      <4>2. Sound(q)
        BY <4>1, ImplicitSound DEF Good
      <4> HIDE DEF q
      <4> QED BY <4>1, <4>2, <3>3, <1>2, ImplicitNames
    <3> QED BY <3>1, <3>2, <3>3
  <2>2. LookupType(s, c, third) = IF Failed(q) THEN q ELSE u
    BY <1>2 DEF LookupType, Resolved
  <2> HIDE DEF q, uses
  <2>3. SameNames(q, u)
    BY <2>1 DEF SameNames, Sound, IsPkg
  <2> HIDE DEF u
  <2>4. Proper(u, Y) /\ KeepsFree(q, u) /\ (Failed(q) => Failed(u))
    BY <2>1, <2>3, ProperSame DEF SameNames, Failed
  <2>5. KeepsFree(s, u)
    BY <2>1, <2>4, KeepsFreeTrans
  <2> QED BY <2>1, <2>2, <2>4, <2>5
<1> QED BY <1>1, <1>2

LEMMA ConvertRefsNames ==
  ASSUME Spaces, NEW s, NEW X, NEW Y, NEW refs, RefsOK(refs), NEW third, Good(s, X), NoTag(X),
         \A i \in DOMAIN refs : Resolvable(s, refs[i], third), Proper(s, Y)
  PROVE  LET q == ConvertRefs(s, refs, third)
         IN  Proper(q, Y) /\ KeepsFree(s, q)
<1>1. CASE DOMAIN refs = {}
  <2>1. ConvertRefs(s, refs, third) = s
    BY <1>1 DEF ConvertRefs
  <2> QED BY <2>1 DEF KeepsFree
<1>2. CASE DOMAIN refs = {1}
  <2>1. ConvertRefs(s, refs, third) = LookupType(s, refs[1], third)
    BY <1>2 DEF ConvertRefs
  <2>2. refs[1] \in CName /\ Resolvable(s, refs[1], third)
    BY <1>2 DEF RefsOK
  <2> QED BY <2>1, <2>2, LookupTypeNames
<1>3. CASE DOMAIN refs = {1, 2}
  <2> DEFINE q == LookupType(s, refs[1], third)
             w == LookupType(q, refs[2], third)
  <2>1. ConvertRefs(s, refs, third) = w
    BY <1>3 DEF ConvertRefs
  <2>2. /\ refs[1] \in CName /\ refs[2] \in CName
        /\ Resolvable(s, refs[1], third) /\ Resolvable(s, refs[2], third)
    BY <1>3 DEF RefsOK
  <2>3. Good(q, X) /\ Keeps(s, q)
    BY <2>2, LookupTypeGood
  <2>4. Proper(q, Y) /\ KeepsFree(s, q)
    BY <2>2, LookupTypeNames
  <2> HIDE DEF q
  <2>5. Resolvable(q, refs[2], third)
    BY <2>2, <2>3 DEF Resolvable, Keeps
  <2>6. Proper(w, Y) /\ KeepsFree(q, w)
    BY <2>2, <2>3, <2>4, <2>5, LookupTypeNames
  <2>7. Failed(q) => Failed(w)
    BY <2>2, <2>3, <2>5, LookupTypeGood DEF Keeps
  <2> HIDE DEF w
  <2> QED BY <2>1, <2>4, <2>6, <2>7, KeepsFreeTrans
<1> QED BY <1>1, <1>2, <1>3 DEF RefsOK

-----------------------------------------------------------------------------
(* The declarations. *)

LEMMA FailProper ==
  ASSUME NEW s, NEW Y, NEW e \in Errs \ ({"none"} \cup Panics), IsPkg(s)
  PROVE  Proper(Fail(s, e), Y)
<1>1. Fail(s, e).err = e
  BY FailIs
<1> QED BY <1>1 DEF Proper, Failed

LEMMA GivenNotEmpty ==
  ASSUME Spaces, NEW count, NEW g, CountOK(count), Given(count, g)
  PROVE  g # NoName
<1>1. PICK b \in GoBase \cap DOMAIN count : \E k \in 1..count[b] : g = SuffixCount(b, k)
  BY DEF Given
<1>2. PICK k \in 1..count[b] : g = SuffixCount(b, k)
  BY <1>1
<1>3. k \in Nat \ {0}
  BY <1>2 DEF CountOK
<1> QED BY <1>2, <1>3 DEF Spaces, GoSpaces

LEMMA InitTypeSame ==
  ASSUME NEW s, NEW node, NEW def, NEW of, IsPkg(s), ~Failed(s) => node \in DOMAIN s.types
  PROVE  SameNames(s, InitType(s, node, def, of))
<1> DEFINE q == InitType(s, node, def, of)
           t == DefAs(s, node, def, of)
<1>1. /\ Failed(s) => q = s
      /\ q.info = s.info /\ q.count = s.count /\ q.pubs = s.pubs /\ q.scope = s.scope
      /\ q.err = s.err
      /\ ~Failed(s) => q.types = Bind(s.types, node, t)
  BY InitTypeIs
<1>2. t.go = s.types[node].go
  BY DEF DefAs
<1> HIDE DEF q, t
<1>3. DOMAIN q.types = DOMAIN s.types /\ \A n \in DOMAIN s.types : q.types[n].go = s.types[n].go
  <2>1. CASE Failed(s)
    BY <1>1, <2>1
  <2>2. CASE ~Failed(s)
    <3>1. DOMAIN q.types = DOMAIN s.types \cup {node} /\ node \in DOMAIN s.types
      BY <1>1, <2>2, BindDomain
    <3>2. \A n \in DOMAIN s.types : q.types[n].go = s.types[n].go
      BY <1>1, <1>2, <2>2, BindAt
    <3> QED BY <3>1, <3>2
  <2> QED BY <2>1, <2>2
<1> QED BY <1>1, <1>3 DEF SameNames, q

LEMMA CurSame ==
  ASSUME NEW s, NEW f, IsPkg(s)
  PROVE  SameNames(s, [s EXCEPT !.cur = f])
  BY DEF SameNames, IsPkg

LEMMA SameTrans ==
  ASSUME NEW s, NEW q, NEW r, SameNames(s, q), SameNames(q, r)
  PROVE  SameNames(s, r)
  BY DEF SameNames

(* A type that can be registered gets a name that is free. *)
LEMMA RegisterTypeNames ==
  ASSUME Spaces, NEW s, NEW node, Good(s, {}), ~Failed(s), IsTypeNode(node), Proper(s, {}),
         node.name \in TypeName
  PROVE  LET r == RegisterNode(s, node, TypeGo[node.name], TRUE)
         IN  /\ ~r.bad => Proper(r.pkg, {})
             /\ r.exist => ~r.bad
             /\ ~r.bad /\ ~r.exist =>
                  /\ Given(r.pkg.count, r.name) /\ r.name \notin DOMAIN r.pkg.scope
                  /\ TypeGo[node.name] \in DOMAIN r.pkg.count
                  /\ r.name \in Tag => node = TypeNode(r.name)
<1> DEFINE g == TypeGo[node.name]
           r == RegisterNode(s, node, g, TRUE)
           w == Register(s, node, g)
           k == Users(s, g) + 1
           v == SuffixCount(g, k)
<1>1. CASE node \in DOMAIN s.info
  <2>1. r = [pkg |-> s, name |-> s.info[node], exist |-> TRUE, bad |-> FALSE]
    BY <1>1 DEF RegisterNode
  <2> HIDE DEF r
  <2>2. r.pkg = s /\ r.exist /\ ~r.bad
    BY <2>1, Zenon
  <2> QED BY <2>2 DEF r
<1>2. CASE node \notin DOMAIN s.info
  <2>1. IsPkg(s) /\ Sound(s) /\ DOMAIN s.types \subseteq DOMAIN s.info /\ CountOK(s.count)
    BY DEF Good, Sound, Live, Registered
  <2>2. ~r.exist
    BY <1>2, <2>1, RegisterNodeNew, Zenon
  <2>3. node.name \in DOMAIN s.scope => r.bad
    BY <1>2, <2>1, RegisterNodeNew, Zenon
  <2>4. ~r.bad => r.name = v
    BY <1>2, <2>1, RegisterNodeNew, Zenon
  <2>5. v \in DOMAIN s.scope => r.bad
    BY <1>2, <2>1, RegisterNodeNew, Zenon
  <2>6. r.pkg = w
    BY <1>2 DEF RegisterNode
  <2> HIDE DEF r
  <2>7. w.scope = s.scope /\ w.types = s.types /\ w.err = s.err /\ w.pubs = s.pubs
    BY <2>1, RegisterIs
  <2>8. g \in GoBase
    BY DEF GoBase
  <2>9. ~r.bad => Proper(w, {}) /\ g \in DOMAIN w.count /\ Given(w.count, v)
    <3> HIDE DEF g
    <3> QED BY <1>2, <2>1, <2>3, <2>8, RegisterNames
  <2>10. v \in Tag => node = TypeNode(v)
    <3>1. k \in Nat \ {0}
      BY <2>1 DEF CountOK, Users
    <3>2. \A t \in Tag : \A e \in TypeName \ {t} : SuffixCount(TypeGo[e], k) # t
      BY <3>1 DEF Spaces, GoSpaces
    <3>3. v \in Tag => node.name = v
      BY <3>2
    <3> HIDE DEF v
    <3> QED BY <3>3 DEF IsTypeNode, Node, TypeNode
  <2> QED BY <2>2, <2>4, <2>5, <2>6, <2>7, <2>9, <2>10 DEF r
<1> QED BY <1>1, <1>2

(* llcppg.pub is told a name, for a C name whose type may not be made yet. *)
LEMMA CollectNames ==
  ASSUME NEW s, NEW c, NEW nm, IsPkg(s), Proper(s, {}), nm # NoName
  PROVE  LET q == CollectNameMapping(s, c, nm)
         IN  /\ Proper(q, {c})
             /\ q.info = s.info /\ q.count = s.count /\ q.scope = s.scope /\ q.types = s.types
             /\ q.err = s.err
             /\ c \in DOMAIN q.pubs =>
                  \/ c \in DOMAIN s.pubs /\ q.pubs[c] = s.pubs[c]
                  \/ nm = IF q.pubs[c] = NoName THEN c ELSE q.pubs[c]
<1> DEFINE v == IF c = nm THEN NoName ELSE nm
           b == Bind(s.pubs, c, v)
           q == CollectNameMapping(s, c, nm)
<1>1. CASE c \in Private
  <2>1. q = s
    BY <1>1 DEF CollectNameMapping
  <2>2. Told(s, {}) => Told(s, {c})
    BY DEF Told
  <2> HIDE DEF q
  <2> QED BY <2>1, <2>2 DEF Proper, q
<1>2. CASE c \notin Private
  <2>1. q = [s EXCEPT !.pubs = b]
    BY <1>2 DEF CollectNameMapping
  <2> HIDE DEF q, b
  <2>2. /\ q.info = s.info /\ q.count = s.count /\ q.scope = s.scope /\ q.types = s.types
        /\ q.err = s.err /\ q.pubs = b
    BY <2>1 DEF IsPkg
  <2>3. /\ \A x : x \in DOMAIN b <=> x \in DOMAIN s.pubs \/ x = c
        /\ \A x \in DOMAIN s.pubs : x # c => b[x] = s.pubs[x]
        /\ b[c] = v
    BY BindDomain, BindAt DEF b
  <2>4. Told(s, {}) => Told(q, {c})
    BY <2>2, <2>3 DEF Told
  <2>5. Names(s) => Names(q)
    BY <2>2 DEF Names, TypesNamed, ScopeNamed, TagsFree
  <2>6. Failed(q) <=> Failed(s)
    BY <2>2 DEF Failed
  <2>7. Proper(q, {c})
    BY <2>2, <2>4, <2>5, <2>6 DEF Proper
  <2>8. nm = IF q.pubs[c] = NoName THEN c ELSE q.pubs[c]
    BY <2>2, <2>3
  <2> QED BY <2>2, <2>7, <2>8 DEF q
<1> QED BY <1>1, <1>2

(* A type is made under the name it was given, which llcppg.pub is told.   *)
LEMMA DeclareNames ==
  ASSUME Spaces, NEW s, NEW node \in Node, NEW nm, Sound(s), ~Failed(s), Proper(s, {}),
         Given(s.count, nm), nm \notin DOMAIN s.scope, node \notin DOMAIN s.types,
         node \in DOMAIN s.info, s.info[node] = nm, nm \in Tag => node = TypeNode(nm),
         TypeGo[node.name] \in DOMAIN s.count, node.name \in CName
  PROVE  LET q == EmptyTypeDecl(CollectNameMapping(s, node.name, nm), nm, node)
         IN  /\ Proper(q, {}) /\ ~Failed(q) /\ Sound(q)
             /\ q.count = s.count /\ q.info = s.info /\ node \in DOMAIN q.types
             /\ q.scope = Bind(s.scope, nm, Own(node)) /\ q.tracked = s.tracked
<1> DEFINE c == node.name
           m == CollectNameMapping(s, c, nm)
           q == EmptyTypeDecl(m, nm, node)
<1>1. nm # NoName
  BY GivenNotEmpty DEF Sound
<1>2. /\ Proper(m, {c})
      /\ m.info = s.info /\ m.count = s.count /\ m.scope = s.scope /\ m.types = s.types
      /\ m.err = s.err
      /\ c \in DOMAIN m.pubs => \/ c \in DOMAIN s.pubs /\ m.pubs[c] = s.pubs[c]
                                \/ nm = IF m.pubs[c] = NoName THEN c ELSE m.pubs[c]
  <2>1. IsPkg(s)
    BY DEF Sound
  <2> HIDE DEF c
  <2> QED BY <1>1, <2>1, CollectNames
<1>3. Sound(m) /\ m.tracked = s.tracked
  BY CollectSound
<1> HIDE DEF m
<1>4. /\ q.info = s.info /\ q.count = s.count /\ q.pubs = m.pubs /\ q.tracked = s.tracked
      /\ q.scope = Bind(s.scope, nm, Own(node)) /\ q.err = s.err
      /\ q.types = Bind(s.types, node, NewDef(m, nm))
  BY <1>2, <1>3, EmptyTypeDeclIs DEF Failed, Sound
<1>5. Sound(q)
  BY <1>3, EmptyTypeDeclSound
<1> HIDE DEF q
<1>6. /\ \A n : n \in DOMAIN q.types <=> n \in DOMAIN s.types \/ n = node
      /\ \A n \in DOMAIN s.types : q.types[n] = s.types[n]
      /\ q.types[node].go = nm
  <2>1. NewDef(m, nm).go = nm
    BY DEF NewDef
  <2> QED BY <1>4, <2>1, BindDomain, BindAt
<1>7. ~Failed(q) /\ ~Failed(m) /\ Names(s) /\ Told(s, {}) /\ Told(m, {c})
  BY <1>2, <1>4 DEF Failed, Proper
<1>8. TypesNamed(q)
  BY <1>4, <1>6, <1>7 DEF Names, TypesNamed
<1>9. Names(q)
  BY <1>4, <1>7, <1>8, DeclaredNames
<1>10. Told(q, {})
  <2>1. Told(q, {c})
    BY <1>2, <1>4, <1>6, <1>7, ToldKept
  <2>2. ASSUME c \in DOMAIN q.pubs
        PROVE  \E n \in DOMAIN q.types :
                 n.name = c /\ q.types[n].go = IF q.pubs[c] = NoName THEN c ELSE q.pubs[c]
    <3>1. CASE c \in DOMAIN s.pubs /\ m.pubs[c] = s.pubs[c]
      BY <1>4, <1>6, <1>7, <3>1 DEF Told
    <3>2. CASE nm = IF m.pubs[c] = NoName THEN c ELSE m.pubs[c]
      BY <1>4, <1>6, <3>2
    <3> QED BY <1>2, <1>4, <2>2, <3>1, <3>2
  <2> QED BY <2>1, <2>2 DEF Told
<1>11. Proper(q, {})
  BY <1>4, <1>7, <1>9, <1>10 DEF Proper
<1> QED BY <1>4, <1>5, <1>6, <1>7, <1>11 DEF q, m

LEMMA NamedNames ==
  ASSUME NEW s, NEW nm, NEW node, NEW c \in TypeName, NEW Y, IsPkg(s), Proper(s, Y),
         nm # c /\ ~Failed(s) => /\ TypeGo[c] \in DOMAIN s.count
                                 /\ c \in DOMAIN s.scope => s.scope[c].how = "subst"
  PROVE  Proper(Named(s, nm, c, node), Y)
  BY SubstNames DEF Named

LEMMA CompleteTypeNames ==
  ASSUME Spaces, NEW s, NEW node, NEW refs, RefsOK(refs), NEW c \in CName, NEW third, Good(s, {}),
         ~Failed(s) => node \in DOMAIN s.types,
         \A i \in DOMAIN refs : Resolvable(s, refs[i], third), Proper(s, {})
  PROVE  Proper(CompleteType(s, node, refs, c, third), {})
<1> DEFINE r == RestoreFile(s, node)
           q == ConvertRefs(r, refs, third)
           t == InitType(q, node, "struct", NoNode)
           b == [t EXCEPT !.cur = s.cur]
           f == Complete(b, c)
<1>1. CASE Failed(s)
  BY <1>1 DEF CompleteType
<1>2. CASE ~Failed(s)
  <2>1. CompleteType(s, node, refs, c, third) = f
    BY <1>2 DEF CompleteType
  <2>2. s.types[node].file \in GoFile
    BY <1>2 DEF Good, Sound, TypesOK, IsTypeDecl
  <2>3. Good(r, {}) /\ Keeps(s, r) /\ SameCore(s, r)
    BY <2>2, SetCurGood DEF RestoreFile
  <2>4. SameNames(s, r)
    BY CurSame DEF RestoreFile, Good, Sound
  <2> HIDE DEF r
  <2>5. Proper(r, {})
    BY <2>4, ProperSame
  <2>6. NoTag({}) /\ \A i \in DOMAIN refs : Resolvable(r, refs[i], third)
    BY <2>3 DEF NoTag, Resolvable, SameCore
  <2>7. Proper(q, {}) /\ Good(q, {}) /\ Keeps(r, q)
    BY <2>3, <2>5, <2>6, ConvertRefsNames, ConvertRefsGood
  <2> HIDE DEF q
  <2>8. IsPkg(q) /\ node \in DOMAIN q.types
    BY <1>2, <2>3, <2>7 DEF Good, Sound, Keeps
  <2>9. SameNames(q, t)
    BY <2>8, InitTypeSame
  <2>10. IsPkg(t)
    BY <2>8 DEF InitType, IsPkg
  <2> HIDE DEF t
  <2>11. SameNames(t, b) /\ IsPkg(b)
    BY <2>10 DEF SameNames, IsPkg
  <2> HIDE DEF b
  <2>12. SameNames(b, f)
    <3> DEFINE u == Unbind(b.tracked, c)
    <3>1. f = [b EXCEPT !.tracked = u]
      BY DEF Complete
    <3> HIDE DEF f, u
    <3> QED BY <2>11, <3>1 DEF SameNames, IsPkg
  <2> HIDE DEF f
  <2> QED BY <2>1, <2>7, <2>9, <2>11, <2>12, ProperSame
<1> QED BY <1>1, <1>2

(* A type that waits for its definition keeps the name it was given. *)
LEMMA WaitingNames ==
  ASSUME Spaces, NEW s, NEW n, NEW c \in CName, Sound(s), ~Failed(s), Proper(s, {}),
         n \in DOMAIN s.types, n.name = c
  PROVE  LET q == CollectNameMapping(s, c, s.info[n])
         IN  /\ Proper(q, {}) /\ ~Failed(q)
             /\ q.info = s.info /\ q.count = s.count /\ q.scope = s.scope
<1> DEFINE nm == s.info[n]
           q == CollectNameMapping(s, c, nm)
<1>1. Names(s) /\ Told(s, {}) /\ IsPkg(s) /\ CountOK(s.count)
  BY DEF Proper, Sound
<1>2. s.types[n].go = nm
  BY <1>1 DEF Names, TypesNamed
<1>3. nm # NoName
  <2>1. s.scope[nm] = Own(n) /\ nm \in DOMAIN s.scope /\ Own(n).how = "decl"
    BY <1>2 DEF Sound, OwnName, Own
  <2>2. Given(s.count, nm)
    BY <1>1, <2>1 DEF Names, ScopeNamed
  <2> QED BY <1>1, <2>2, GivenNotEmpty
<1> HIDE DEF nm
<1>4. /\ Proper(q, {c})
      /\ q.info = s.info /\ q.count = s.count /\ q.scope = s.scope /\ q.types = s.types
      /\ q.err = s.err
      /\ c \in DOMAIN q.pubs => \/ c \in DOMAIN s.pubs /\ q.pubs[c] = s.pubs[c]
                                \/ nm = IF q.pubs[c] = NoName THEN c ELSE q.pubs[c]
  BY <1>1, <1>3, CollectNames
<1> HIDE DEF q
<1>5. ~Failed(q) /\ Told(q, {c})
  BY <1>4 DEF Failed, Proper
<1>6. Told(q, {})
  <2>1. ASSUME c \in DOMAIN q.pubs
        PROVE  \E m \in DOMAIN q.types :
                 m.name = c /\ q.types[m].go = IF q.pubs[c] = NoName THEN c ELSE q.pubs[c]
    <3>1. CASE c \in DOMAIN s.pubs /\ q.pubs[c] = s.pubs[c]
      BY <1>1, <1>4, <3>1 DEF Told
    <3>2. CASE nm = IF q.pubs[c] = NoName THEN c ELSE q.pubs[c]
      BY <1>2, <1>4, <3>2
    <3> QED BY <1>4, <2>1, <3>1, <3>2
  <2> QED BY <1>5, <2>1 DEF Told
<1>7. Proper(q, {})
  BY <1>4, <1>5, <1>6 DEF Proper
<1> QED BY <1>4, <1>5, <1>7 DEF q, nm

LEMMA TypeMadeNames ==
  ASSUME Spaces, NEW s, NEW c \in Tag, Good(s, {}), ~Failed(s), Proper(s, {}),
         ~TypeReg(s, c).bad,
         TypeReg(s, c).exist => c \in DOMAIN TypeReg(s, c).pkg.tracked
  PROVE  /\ Proper(Made(s, c), {})
         /\ ~Failed(Made(s, c)) => Proper(NamedType(s, c), {})
<1> DEFINE n == TypeNode(c)
           r == TypeReg(s, c)
           g == TypeGo[n.name]
           x == RegisterNode(s, n, g, TRUE)
           isIncom == c \in DOMAIN r.pkg.tracked
           mapped == CollectNameMapping(r.pkg, c, r.name)
           empty == EmptyTypeDecl(mapped, r.name, n)
           added == AddIncomplete(empty, n, NoName)
           declared == Made(s, c)
<1>1. declared = IF isIncom THEN mapped ELSE added
  BY DEF Made
<1>2. IsTypeNode(n) /\ n.name = c /\ c \in CName /\ c \in TypeName /\ n \in Node
  BY TagFacts DEF TypeName, IsTypeNode
<1>3. /\ Sound(r.pkg) /\ r.pkg.types = s.types /\ r.pkg.tracked = s.tracked
      /\ r.pkg.scope = s.scope /\ ~Failed(r.pkg)
      /\ r.exist => n \in DOMAIN s.types /\ r.pkg = s /\ r.name = s.info[n]
      /\ ~r.exist => /\ n \in DOMAIN r.pkg.info /\ r.pkg.info[n] = r.name
                     /\ c \notin DOMAIN s.scope /\ c \notin DOMAIN s.tracked
                     /\ \A m \in DOMAIN s.types : m.name # c
      /\ Proper(r.pkg, {})
      /\ ~r.exist => /\ Given(r.pkg.count, r.name) /\ r.name \notin DOMAIN s.scope
                     /\ TypeGo[c] \in DOMAIN r.pkg.count
                     /\ r.name \in Tag => n = TypeNode(r.name)
  <2>1. r = x /\ ~x.bad
    BY <1>2 DEF TypeReg
  <2> HIDE DEF n
  <2>2. /\ Sound(x.pkg) /\ Apart(x.pkg) /\ Keeps(s, x.pkg)
        /\ x.pkg.types = s.types /\ x.pkg.tracked = s.tracked /\ x.pkg.scope = s.scope
        /\ ~Failed(x.pkg)
        /\ x.exist => n \in DOMAIN s.types /\ x.pkg = s /\ x.name = s.info[n]
        /\ ~x.exist /\ ~x.bad =>
             /\ Good(x.pkg, {n}) /\ n \in DOMAIN x.pkg.info /\ x.pkg.info[n] = x.name
             /\ n.name \notin DOMAIN s.scope
             /\ \A m \in DOMAIN s.types : m.name # n.name
             /\ n.name \notin DOMAIN s.tracked /\ n.name \notin DepName
    <3> HIDE DEF g
    <3> QED BY <1>2, RegisterTypeGood
  <2>3. /\ ~x.bad => Proper(x.pkg, {})
        /\ ~x.bad /\ ~x.exist =>
             /\ Given(x.pkg.count, x.name) /\ x.name \notin DOMAIN x.pkg.scope
             /\ TypeGo[n.name] \in DOMAIN x.pkg.count
             /\ x.name \in Tag => n = TypeNode(x.name)
    BY <1>2, RegisterTypeNames
  <2> HIDE DEF r, x
  <2> QED BY <1>2, <2>1, <2>2, <2>3
<1>4. ~r.bad /\ (r.exist => isIncom)
  OBVIOUS
<1> HIDE DEF r, declared
<1>5. Sound(declared)
  BY TypeMadeGood DEF Good, declared, r
<1>6. /\ Proper(declared, {})
      /\ r.name # c => /\ TypeGo[c] \in DOMAIN declared.count
                       /\ c \in DOMAIN declared.scope => declared.scope[c].how = "subst"
  <2>1. CASE r.exist
    <3>1. declared = mapped
      BY <1>1, <1>4, <2>1
    <3>2. mapped = CollectNameMapping(s, c, s.info[n])
      BY <1>3, <2>1
    <3>3. n \in DOMAIN s.types /\ r.name = s.info[n] /\ Sound(s) /\ Names(s)
      BY <1>3, <2>1 DEF Good, Proper
    <3> HIDE DEF mapped, n
    <3>4. Proper(mapped, {}) /\ mapped.count = s.count /\ mapped.scope = s.scope
      BY <1>2, <3>2, <3>3, WaitingNames
    <3>5. TypeGo[c] \in DOMAIN s.count
      BY <1>2, <3>3 DEF Names, TypesNamed
    <3>6. r.name # c /\ c \in DOMAIN s.scope => s.scope[c].how = "subst"
      <4>1. n \in DOMAIN s.info /\ n = TypeNode(c)
        BY <3>3 DEF Good, Live, Registered, n
      <4> QED BY <3>3, <4>1 DEF Names, TagsFree
    <3> QED BY <3>1, <3>4, <3>5, <3>6
  <2>2. CASE ~r.exist
    <3> HIDE DEF n
    <3>1. ~isIncom
      BY <1>3, <2>2
    <3>2. /\ Proper(empty, {}) /\ ~Failed(empty) /\ Sound(empty)
          /\ empty.count = r.pkg.count /\ empty.scope = Bind(r.pkg.scope, r.name, Own(n))
      <4>1. n \notin DOMAIN r.pkg.types
        BY <1>2, <1>3, <2>2
      <4>2. LET z == EmptyTypeDecl(CollectNameMapping(r.pkg, n.name, r.name), r.name, n)
            IN  /\ Proper(z, {}) /\ ~Failed(z) /\ Sound(z)
                /\ z.count = r.pkg.count /\ z.scope = Bind(r.pkg.scope, r.name, Own(n))
        BY <1>2, <1>3, <2>2, <4>1, DeclareNames
      <4> QED BY <1>2, <4>2
    <3> HIDE DEF empty
    <3>3. SameNames(empty, added)
      BY <3>2, AddIncompleteSame DEF Sound
    <3> HIDE DEF added
    <3>4. Proper(added, {}) /\ added.count = r.pkg.count
          /\ added.scope = Bind(r.pkg.scope, r.name, Own(n))
      BY <3>2, <3>3, ProperSame DEF SameNames
    <3>5. r.name # c => c \notin DOMAIN added.scope
      BY <1>3, <2>2, <3>4, BindDomain
    <3>6. declared = added
      BY <1>1, <3>1
    <3> QED BY <1>3, <2>2, <3>4, <3>5, <3>6
  <2> QED BY <2>1, <2>2
<1>7. Proper(NamedType(s, c), {})
  <2> DEFINE incom == declared.tracked[c]
  <2>1. NamedType(s, c) = Named(declared, r.name, c, incom)
    BY DEF NamedType, r, declared
  <2> HIDE DEF incom
  <2> QED BY <1>2, <1>5, <1>6, <2>1, NamedNames DEF Sound
<1> QED BY <1>6, <1>7 DEF declared

LEMMA NewTypeDeclNames ==
  ASSUME CSpaces, Spaces, NEW s, NEW d \in Decls, d.kind = "Type", NEW third, Good(s, {}),
         ~Failed(s), \A i \in DOMAIN d.refs : Resolvable(s, d.refs[i], third), Proper(s, {})
  PROVE  Proper(NewTypeDecl(s, d, third), {})
<1> DEFINE c == d.name
           r == TypeReg(s, c)
           isIncom == c \in DOMAIN r.pkg.tracked
           declared == Made(s, c)
           incom == declared.tracked[c]
           named == NamedType(s, c)
           fail == Fail(r.pkg, "defined")
           full == CompleteType(named, incom, d.refs, c, third)
<1>0. NewTypeDecl(s, d, third) =
        IF r.bad THEN fail
        ELSE IF r.exist /\ (~d.full \/ ~isIncom) THEN s
        ELSE IF Failed(declared) THEN declared
        ELSE IF d.full THEN full
        ELSE named
  BY NewTypeDeclIs
<1>1. c \in Tag /\ RefsOK(d.refs) /\ c \in CName
  BY DeclFacts, TagFacts DEF CSpaces, TypeKind
<1> HIDE DEF c
<1>2. Proper(fail, {})
  <2>1. IsPkg(r.pkg)
    BY <1>1, TagFacts, RegisterTypeGood DEF TypeReg, Sound
  <2>2. "defined" \in Errs \ ({"none"} \cup Panics)
    BY DEF Errs, Panics
  <2> HIDE DEF r
  <2> QED BY <2>1, <2>2, FailProper
<1> HIDE DEF fail
<1>3. ASSUME ~r.bad, ~(r.exist /\ (~d.full \/ ~isIncom))
      PROVE  /\ ~Failed(declared) =>
                  /\ Good(named, {}) /\ Keeps(s, named)
                  /\ ~Failed(named) => incom \in DOMAIN named.types
             /\ Proper(declared, {})
             /\ ~Failed(declared) => Proper(named, {})
  BY <1>1, <1>3, TypeMadeGood, TypeMadeNames
<1> HIDE DEF r, declared, named, incom, isIncom
<1>4. ASSUME ~r.bad, ~(r.exist /\ (~d.full \/ ~isIncom)), ~Failed(declared)
      PROVE  Proper(full, {})
  <2>1. \A i \in DOMAIN d.refs : Resolvable(named, d.refs[i], third)
    BY <1>3, <1>4, ResolvableKept
  <2> QED BY <1>1, <1>3, <1>4, <2>1, CompleteTypeNames
<1> HIDE DEF full
<1> QED BY <1>0, <1>2, <1>3, <1>4

(* A typedef or an enum that is declared, and then has its C name. *)
LEMMA DeclaredThenNamed ==
  ASSUME NEW s, NEW q, NEW node, NEW nm, NEW c \in TypeName, Proper(q, {}), IsPkg(q),
         TypeGo[c] \in DOMAIN q.count, c \notin DOMAIN s.scope,
         q.scope = Bind(s.scope, nm, Own(node))
  PROVE  Proper(Named(q, nm, c, node), {})
<1>1. nm # c => c \notin DOMAIN q.scope
  BY BindDomain
<1> QED BY <1>1, NamedNames

(* What RegisterNode says of a typedef or of an enum that is new. *)
New(r, n, c) ==
  /\ Proper(r.pkg, {}) /\ Good(r.pkg, {n}) /\ Sound(r.pkg) /\ ~Failed(r.pkg)
  /\ n \in DOMAIN r.pkg.info /\ r.pkg.info[n] = r.name
  /\ c \notin DOMAIN r.pkg.scope /\ c \notin DepName
  /\ \A m \in DOMAIN r.pkg.types : m.name # c
  /\ Given(r.pkg.count, r.name) /\ r.name \notin DOMAIN r.pkg.scope
  /\ TypeGo[c] \in DOMAIN r.pkg.count
  /\ r.name \in Tag => n = TypeNode(r.name)

LEMMA RegisterDecl ==
  ASSUME Spaces, NEW s, NEW n, NEW c \in TypeName, Good(s, {}), ~Failed(s), IsTypeNode(n),
         n.name = c, Proper(s, {})
  PROVE  LET r == RegisterNode(s, n, TypeGo[c], TRUE)
         IN  /\ r.bad => Proper(Fail(r.pkg, "defined"), {})
             /\ ~r.bad /\ ~r.exist => New(r, n, c)
<1> DEFINE g == TypeGo[n.name]
           x == RegisterNode(s, n, g, TRUE)
<1>1. /\ Sound(x.pkg) /\ Apart(x.pkg) /\ Keeps(s, x.pkg)
      /\ x.pkg.types = s.types /\ x.pkg.tracked = s.tracked /\ x.pkg.scope = s.scope
      /\ ~Failed(x.pkg)
      /\ x.exist => n \in DOMAIN s.types /\ x.pkg = s /\ x.name = s.info[n]
      /\ ~x.exist /\ ~x.bad =>
           /\ Good(x.pkg, {n}) /\ n \in DOMAIN x.pkg.info /\ x.pkg.info[n] = x.name
           /\ n.name \notin DOMAIN s.scope
           /\ \A m \in DOMAIN s.types : m.name # n.name
           /\ n.name \notin DOMAIN s.tracked /\ n.name \notin DepName
  <2> HIDE DEF g
  <2> QED BY RegisterTypeGood
<1>2. /\ ~x.bad => Proper(x.pkg, {})
      /\ ~x.bad /\ ~x.exist =>
           /\ Given(x.pkg.count, x.name) /\ x.name \notin DOMAIN x.pkg.scope
           /\ TypeGo[n.name] \in DOMAIN x.pkg.count
           /\ x.name \in Tag => n = TypeNode(x.name)
  BY RegisterTypeNames
<1>3. Proper(Fail(x.pkg, "defined"), {})
  <2>1. IsPkg(x.pkg) /\ "defined" \in Errs \ ({"none"} \cup Panics)
    BY <1>1 DEF Errs, Panics, Sound
  <2> HIDE DEF x
  <2> QED BY <2>1, FailProper
<1>4. RegisterNode(s, n, TypeGo[c], TRUE) = x
  OBVIOUS
<1> HIDE DEF x
<1> QED BY <1>1, <1>2, <1>3, <1>4 DEF New

LEMMA NewTypedefDeclNames ==
  ASSUME CSpaces, Spaces, NEW s, NEW d \in Decls, d.kind = "Typedef", NEW third, Good(s, {}),
         ~Failed(s), \A i \in DOMAIN d.refs : Resolvable(s, d.refs[i], third), Proper(s, {})
  PROVE  Proper(NewTypedefDecl(s, d, third), {})
<1> DEFINE c == d.name
           n == [name |-> c, kind |-> "Typedef"]
           r == RegisterNode(s, n, TypeGo[c], TRUE)
           mapped == CollectNameMapping(r.pkg, c, r.name)
           declared == EmptyTypeDecl(mapped, r.name, n)
           named == Named(declared, r.name, c, n)
           converted == ConvertRefs(named, d.refs, third)
           of == IF d.direct THEN Target(converted, d.refs[1]) ELSE NoNode
           fail == Fail(r.pkg, "defined")
           waits == AddIncomplete(named, n, d.refs[1])
           alias == InitType(converted, n, "alias", of)
           q == NewTypedefDecl(s, d, third)
<1>0. q = IF r.bad THEN fail
          ELSE IF r.exist THEN s
          ELSE IF Failed(named) THEN named
          ELSE IF Deferred(named, d) THEN waits
          ELSE IF Failed(converted) THEN converted
          ELSE alias
  BY DEF NewTypedefDecl, Named
<1>1. c \in CName /\ RefsOK(d.refs)
  BY DeclFacts
<1>2. IsTypeNode(n) /\ n \in Node /\ n.name = c /\ n.kind = "Typedef" /\ c \notin Tag
  BY <1>1, DeclNode DEF IsTypeNode
<1>3. c \in TypeName
  <2>1. c \in {e.name : e \in {f \in Decls : f.kind \in TypeKind}} /\ c # NoName
    BY <1>1, ConvertAssumption DEF TypeKind, ConvertAssumption
  <2> QED BY <2>1 DEF TypeName
<1> HIDE DEF n, q
<1>4. /\ r.bad => Proper(fail, {})
      /\ ~r.bad /\ ~r.exist => New(r, n, c)
  <2> HIDE DEF c
  <2>1. c \in TypeName /\ IsTypeNode(n) /\ n.name = c
    BY <1>2, <1>3
  <2> QED BY <2>1, RegisterDecl
<1> HIDE DEF r, fail, c
<1>5. ASSUME ~r.bad, ~r.exist
      PROVE  /\ Good(named, {n}) /\ Proper(named, {}) /\ Keeps(s, named)
             /\ ~Failed(named) => n \in DOMAIN named.types
  <2> DEFINE w == r.pkg
             nm == r.name
             z == Named(EmptyTypeDecl(CollectNameMapping(w, c, nm), nm, n), nm, c, n)
  <2>1. /\ Good(w, {n}) /\ ~Failed(w) /\ c \notin DepName /\ n \in DOMAIN w.info
        /\ \A m \in DOMAIN w.types : m.name # c
        /\ Proper(w, {}) /\ Sound(w) /\ Given(w.count, nm) /\ nm \notin DOMAIN w.scope
        /\ n \notin DOMAIN w.types /\ w.info[n] = nm /\ (nm \in Tag => n = TypeNode(nm))
        /\ TypeGo[c] \in DOMAIN w.count /\ c \notin DOMAIN w.scope
    BY <1>2, <1>4, <1>5 DEF New
  <2>2. Keeps(s, w)
    BY <1>2, RegisterTypeGood DEF r
  <2> HIDE DEF w, nm
  <2>3. /\ Good(z, {n}) /\ Keeps(w, z)
        /\ ~Failed(z) => n \in DOMAIN z.types /\ c \in DOMAIN z.scope
    BY <1>1, <1>2, <2>1, TypedefMadeGood
  <2>4. Keeps(s, z)
    BY <2>2, <2>3, KeepsTrans
  <2> DEFINE y == EmptyTypeDecl(CollectNameMapping(w, n.name, nm), nm, n)
  <2>5. /\ Proper(y, {}) /\ Sound(y) /\ y.count = w.count
        /\ y.scope = Bind(w.scope, nm, Own(n))
    BY <1>1, <1>2, <2>1, DeclareNames
  <2>6. z = Named(y, nm, c, n)
    BY <1>2
  <2> HIDE DEF y
  <2>7. Proper(z, {})
    BY <1>3, <2>1, <2>5, <2>6, DeclaredThenNamed DEF Sound
  <2>8. named = z
    BY DEF w, nm
  <2> HIDE DEF z, named
  <2> QED BY <2>3, <2>4, <2>7, <2>8
<1> HIDE DEF named
<1>6. ASSUME ~r.bad, ~r.exist PROVE Proper(waits, {})
  <2>1. SameNames(named, waits)
    BY <1>5, <1>6, AddIncompleteSame DEF Good, Sound
  <2> HIDE DEF waits
  <2> QED BY <1>5, <1>6, <2>1, ProperSame
<1>7. ASSUME ~r.bad, ~r.exist PROVE Proper(converted, {}) /\ Proper(alias, {})
  <2>1. NoTag({n})
    BY <1>2 DEF NoTag
  <2>2. \A i \in DOMAIN d.refs : Resolvable(named, d.refs[i], third)
    BY <1>5, <1>7, ResolvableKept
  <2>3. Good(converted, {n}) /\ Keeps(named, converted)
    BY <1>1, <1>5, <1>7, <2>1, <2>2, ConvertRefsGood
  <2>4. Proper(converted, {})
    BY <1>1, <1>5, <1>7, <2>1, <2>2, ConvertRefsNames
  <2>5. IsPkg(converted) /\ (~Failed(converted) => n \in DOMAIN converted.types)
    BY <1>5, <1>7, <2>3 DEF Good, Sound, Keeps
  <2> HIDE DEF of, converted
  <2>6. SameNames(converted, alias)
    BY <2>5, InitTypeSame
  <2> HIDE DEF alias
  <2> QED BY <2>4, <2>6, ProperSame
<1> HIDE DEF waits, converted, alias
<1>8. Proper(q, {})
  BY <1>0, <1>4, <1>5, <1>6, <1>7
<1> QED BY <1>8 DEF q

(* A name that has been given, and is no tag's, is declared as a value. *)
LEMMA InsertNames ==
  ASSUME NEW s, NEW nm, NEW node, Sound(s), Proper(s, {}), ~Failed(s), Given(s.count, nm),
         nm \notin DOMAIN s.scope, nm \notin Tag
  PROVE  Proper(Insert(s, nm, node), {})
<1> DEFINE q == Insert(s, nm, node)
<1>1. /\ q.info = s.info /\ q.types = s.types /\ q.count = s.count /\ q.pubs = s.pubs
      /\ q.scope = Bind(s.scope, nm, Own(node)) /\ q.err = s.err
  BY InsertIs DEF Sound
<1> HIDE DEF q
<1>2. Names(s) /\ Told(s, {}) /\ s.err \notin Panics
  BY DEF Proper
<1>3. TypesNamed(q)
  BY <1>1, <1>2 DEF Names, TypesNamed
<1>4. Names(q)
  BY <1>1, <1>2, <1>3, DeclaredNames
<1>5. Told(q, {})
  BY <1>1, <1>2 DEF Told
<1> QED BY <1>1, <1>2, <1>4, <1>5 DEF Proper, q

LEMMA NewConstNames ==
  ASSUME Spaces, NEW s, NEW c \in ConstName, c \in CName, NEW kind \in {"Item", "Macro"}, NEW emit,
         Good(s, {}), Proper(s, {})
  PROVE  Proper(NewConst(s, c, kind, emit), {})
<1> DEFINE n == [name |-> c, kind |-> kind]
           g == ConstGo[c]
           k == Users(s, g) + 1
           v == SuffixCount(g, k)
           r == RegisterNode(s, n, g, FALSE)
           w == Register(s, n, g)
           fail == Fail(r.pkg, "defined")
           ins == Insert(r.pkg, r.name, n)
           q == NewConst(s, c, kind, emit)
<1>0. q = IF Failed(s) \/ r.exist THEN s
          ELSE IF r.bad THEN fail
          ELSE IF emit THEN ins
          ELSE r.pkg
  BY DEF NewConst
<1> HIDE DEF q
<1>1. n \in Node /\ n.kind \notin TypeKind /\ n.name = c
  BY DEF Node, Kind, TypeKind
<1> HIDE DEF n
<1>2. CASE n \in DOMAIN s.info
  <2>1. r.exist
    BY <1>2 DEF RegisterNode
  <2> HIDE DEF r
  <2> QED BY <1>0, <2>1 DEF q
<1>3. CASE Failed(s)
  BY <1>0, <1>3 DEF q
<1>4. CASE n \notin DOMAIN s.info /\ ~Failed(s)
  <2>1. IsPkg(s) /\ Sound(s) /\ DOMAIN s.types \subseteq DOMAIN s.info /\ CountOK(s.count)
    BY <1>4 DEF Good, Sound, Live, Registered
  <2>2. n \notin DOMAIN s.types /\ n.kind # "Type"
    BY <1>1, <1>4, <2>1 DEF TypeKind
  <2>3. g \in GoBase
    BY DEF GoBase
  <2>4. v \notin Tag
    <3>1. k \in Nat \ {0}
      BY <2>1 DEF CountOK, Users
    <3> QED BY <3>1 DEF Spaces, GoSpaces
  <2>5. ~r.bad => r.name = v
    <3> HIDE DEF g
    <3> QED BY <1>4, <2>1, RegisterNodeNew, Zenon
  <2>6. v \in DOMAIN s.scope => r.bad
    <3> HIDE DEF g
    <3> QED BY <1>4, <2>1, RegisterNodeNew, Zenon
  <2>7. r.pkg = w
    BY <1>4 DEF RegisterNode
  <2> HIDE DEF r
  <2>8. Proper(w, {}) /\ Given(w.count, v)
    <3> HIDE DEF g
    <3> QED BY <1>4, <2>1, <2>2, <2>3, RegisterNames
  <2>9. Sound(w)
    BY <1>1, <2>1, RegisterSound
  <2>10. w.scope = s.scope /\ ~Failed(w)
    BY <1>4, <2>1, RegisterIs DEF Failed
  <2> HIDE DEF w, v, g, k
  <2>11. Proper(fail, {})
    <3>1. "defined" \in Errs \ ({"none"} \cup Panics)
      BY DEF Errs, Panics
    <3> QED BY <2>7, <2>9, <3>1, FailProper DEF Sound
  <2>12. ~r.bad => Proper(ins, {})
    BY <2>4, <2>5, <2>6, <2>7, <2>8, <2>9, <2>10, InsertNames
  <2> HIDE DEF fail, ins
  <2>13. Proper(q, {})
    BY <1>0, <2>7, <2>8, <2>11, <2>12
  <2> QED BY <2>13 DEF q
<1> QED BY <1>2, <1>3, <1>4

LEMMA EnumItemsNames ==
  ASSUME Spaces, NEW s, NEW items, RefsOK(items), \A i \in DOMAIN items : items[i] \in ConstName,
         Good(s, {}), Proper(s, {})
  PROVE  Proper(EnumItems(s, items), {})
<1>1. CASE DOMAIN items = {}
  BY <1>1 DEF EnumItems
<1>2. CASE DOMAIN items = {1}
  <2>1. /\ EnumItems(s, items) = NewConst(s, items[1], "Item", TRUE)
        /\ items[1] \in CName /\ items[1] \in ConstName
    BY <1>2 DEF EnumItems, RefsOK
  <2> QED BY <2>1, NewConstNames
<1>3. CASE DOMAIN items = {1, 2}
  <2> DEFINE q == NewConst(s, items[1], "Item", TRUE)
             r == NewConst(q, items[2], "Item", TRUE)
  <2>0. DOMAIN items # {} /\ DOMAIN items # {1}
    BY <1>3
  <2>1. EnumItems(s, items) = r
    BY <2>0, Zenon DEF EnumItems
  <2>2. /\ items[1] \in CName /\ items[2] \in CName
        /\ items[1] \in ConstName /\ items[2] \in ConstName
    BY <1>3 DEF RefsOK
  <2>3. Good(q, {}) /\ Proper(q, {})
    BY <2>2, NewConstGood, NewConstNames
  <2> HIDE DEF q
  <2> QED BY <2>1, <2>2, <2>3, NewConstNames
<1> QED BY <1>1, <1>2, <1>3 DEF RefsOK

LEMMA NewEnumTypeDeclNames ==
  ASSUME CSpaces, Spaces, NEW s, NEW d \in Decls, d.kind = "Enum", Good(s, {}), ~Failed(s),
         Proper(s, {})
  PROVE  Proper(NewEnumTypeDecl(s, d), {})
<1> DEFINE c == d.name
           n == [name |-> c, kind |-> "Enum"]
           r == RegisterNode(s, n, TypeGo[c], TRUE)
           mapped == CollectNameMapping(r.pkg, c, r.name)
           named == Named(InitType(EmptyTypeDecl(mapped, r.name, n), n, "enum", NoNode), r.name, c, n)
           fail == Fail(r.pkg, "defined")
           items == EnumItems(named, d.refs)
           q == NewEnumTypeDecl(s, d)
<1>0. q = IF c = NoName THEN EnumItems(s, d.refs)
          ELSE IF r.bad THEN fail
          ELSE IF r.exist THEN s
          ELSE items
  BY DEF NewEnumTypeDecl, Named
<1>1. c \in CName \cup {NoName} /\ RefsOK(d.refs) /\ \A i \in DOMAIN d.refs : d.refs[i] \in ConstName
  <2>1. {d.refs[i] : i \in DOMAIN d.refs} \subseteq ConstName
    BY DEF ConstName
  <2> QED BY <2>1, DeclFacts
<1> HIDE DEF q
<1>2. CASE c = NoName
  <2>1. Proper(EnumItems(s, d.refs), {})
    BY <1>1, EnumItemsNames
  <2>2. q = EnumItems(s, d.refs)
    BY <1>0, <1>2
  <2> QED BY <2>1, <2>2 DEF q
<1>3. CASE c # NoName
  <2>1. c \in CName
    BY <1>1, <1>3
  <2>2. IsTypeNode(n) /\ n \in Node /\ n.name = c /\ n.kind = "Enum" /\ c \notin Tag
    BY <2>1, DeclNode DEF IsTypeNode
  <2>3. c \in TypeName
    <3>1. c \in {e.name : e \in {f \in Decls : f.kind \in TypeKind}} /\ c # NoName
      BY <1>3 DEF TypeKind
    <3> QED BY <3>1 DEF TypeName
  <2> HIDE DEF n
  <2>4. /\ r.bad => Proper(fail, {})
        /\ ~r.bad /\ ~r.exist => New(r, n, c)
    <3> HIDE DEF c
    <3>1. c \in TypeName /\ IsTypeNode(n) /\ n.name = c
      BY <2>2, <2>3
    <3> QED BY <3>1, RegisterDecl
  <2> HIDE DEF r, fail, c
  <2>5. ASSUME ~r.bad, ~r.exist
        PROVE  Proper(items, {})
    <3> DEFINE w == r.pkg
               nm == r.name
               m == CollectNameMapping(w, c, nm)
               z == Named(InitType(EmptyTypeDecl(m, nm, n), n, "enum", NoNode), nm, c, n)
    <3>1. /\ Good(w, {n}) /\ ~Failed(w) /\ c \notin DepName /\ n \in DOMAIN w.info
          /\ \A t \in DOMAIN w.types : t.name # c
          /\ Proper(w, {}) /\ Sound(w) /\ Given(w.count, nm) /\ nm \notin DOMAIN w.scope
          /\ n \notin DOMAIN w.types /\ w.info[n] = nm /\ (nm \in Tag => n = TypeNode(nm))
          /\ TypeGo[c] \in DOMAIN w.count /\ c \notin DOMAIN w.scope
      BY <2>2, <2>4, <2>5 DEF New
    <3> HIDE DEF w, nm
    <3>2. Good(m, {n}) /\ SameCore(w, m)
      BY <2>1, <3>1, CollectGood
    <3>3. /\ ~Failed(m) /\ n \in DOMAIN m.info /\ c \notin DOMAIN m.scope
          /\ \A t \in DOMAIN m.types : t.name # c
      BY <3>1, <3>2 DEF SameCore, Failed
    <3>4. Good(z, {})
      <4> HIDE DEF m
      <4> QED BY <2>1, <2>2, <3>1, <3>2, <3>3, EnumTypeGood
    <3> DEFINE y == EmptyTypeDecl(CollectNameMapping(w, n.name, nm), nm, n)
               t == InitType(y, n, "enum", NoNode)
    <3>5. /\ Proper(y, {}) /\ Sound(y) /\ y.count = w.count /\ n \in DOMAIN y.types
          /\ y.scope = Bind(w.scope, nm, Own(n))
      BY <2>1, <2>2, <3>1, DeclareNames
    <3>6. z = Named(t, nm, c, n)
      BY <2>2
    <3> HIDE DEF y
    <3>7. SameNames(y, t) /\ IsPkg(t)
      <4>1. SameNames(y, t)
        BY <3>5, InitTypeSame DEF Sound
      <4>2. IsPkg(t)
        BY <3>5 DEF InitType, IsPkg, Sound
      <4> QED BY <4>1, <4>2
    <3> HIDE DEF t
    <3>8. Proper(t, {}) /\ t.count = w.count /\ t.scope = Bind(w.scope, nm, Own(n))
      BY <3>5, <3>7, ProperSame DEF SameNames
    <3>9. Proper(z, {})
      BY <2>3, <3>1, <3>6, <3>7, <3>8, DeclaredThenNamed
    <3>10. named = z
      BY DEF w, nm
    <3> HIDE DEF z, named
    <3> QED BY <1>1, <3>4, <3>9, <3>10, EnumItemsNames
  <2> HIDE DEF items
  <2>6. Proper(q, {})
    BY <1>0, <1>3, <2>4, <2>5 DEF c
  <2> QED BY <2>6 DEF q
<1> QED BY <1>2, <1>3

LEMMA NewMacroNames ==
  ASSUME Spaces, NEW s, NEW m \in Macros, Good(s, {}), Proper(s, {})
  PROVE  Proper(NewMacro(s, m), {})
<1>1. m.name \in CName /\ m.name \in ConstName
  BY ConvertAssumption DEF ConvertAssumption, ConstName
<1>2. CASE m.form = "none"
  BY <1>2 DEF NewMacro
<1>3. CASE m.form # "none"
  <2>1. NewMacro(s, m) = NewConst(s, m.name, "Macro", m.form = "ok")
    BY <1>3 DEF NewMacro
  <2> QED BY <1>1, <2>1, NewConstNames
<1> QED BY <1>2, <1>3

(* A function is registered under its Go name before its signature is      *)
(* converted, so no tag the signature declares takes that name.            *)
LEMMA NewFuncDeclNames ==
  ASSUME Spaces, NEW s, NEW d \in Decls, d.kind = "Func", FuncGo[d.name].form # "absent",
         NEW third, Good(s, {}), ~Failed(s),
         \A i \in DOMAIN d.refs : Resolvable(s, d.refs[i], third), Proper(s, {})
  PROVE  Proper(NewFuncDecl(s, d, third), {})
<1> DEFINE fn == FuncGo[d.name].fn
           n == [name |-> d.name, kind |-> "Func"]
           isMethod == FuncGo[d.name].form = "method"
           recv == IF isMethod THEN LookupType(s, d.refs[1], third) ELSE s
           method == <<Target(recv, d.refs[1]), fn>>
           dup == IF isMethod THEN method \in recv.methods ELSE FuncTaken(s, fn)
           e == IF isMethod THEN "method" ELSE "func"
           fail == Fail(recv, e)
           reg == Register(recv, n, fn)
           sig == ConvertRefs(reg, d.refs, third)
           methods == sig.methods \cup {method}
           added == [sig EXCEPT !.methods = methods]
           ins == Insert(sig, fn, n)
           ignored == FuncGo[d.name].form = "ignore"
           q == NewFuncDecl(s, d, third)
<1>0. q = IF ignored \/ n \in DOMAIN s.info THEN s
          ELSE IF Failed(recv) THEN recv
          ELSE IF dup THEN fail
          ELSE IF Failed(sig) THEN sig
          ELSE IF isMethod THEN added
          ELSE ins
  BY DEF NewFuncDecl
<1>1. d.name \in CName /\ RefsOK(d.refs) /\ (isMethod => 1 \in DOMAIN d.refs)
  BY DeclFacts
<1>2. n \in Node /\ n.kind \notin TypeKind /\ NoTag({})
  BY <1>1 DEF Node, Kind, TypeKind, NoTag
<1>3. ~isMethod /\ ~ignored => fn \in FuncGoName
  <2>1. ~isMethod /\ ~ignored => FuncGo[d.name].form = "func"
    BY <1>1, ConvertAssumption DEF ConvertAssumption
  <2> QED BY <2>1 DEF FuncGoName
<1>4. Good(recv, {}) /\ Keeps(s, recv) /\ Proper(recv, {})
  <2>1. CASE isMethod
    <3>1. d.refs[1] \in CName /\ Resolvable(s, d.refs[1], third)
      BY <1>1, <2>1 DEF RefsOK
    <3>2. Good(recv, {}) /\ Keeps(s, recv)
      BY <1>2, <2>1, <3>1, LookupTypeGood
    <3>3. Proper(recv, {})
      BY <1>2, <2>1, <3>1, LookupTypeNames
    <3> QED BY <3>2, <3>3
  <2>2. CASE ~isMethod
    BY <2>2, KeepsRefl
  <2> QED BY <2>1, <2>2
<1>5. ~isMethod => recv = s
  OBVIOUS
<1> HIDE DEF recv, n, fn, isMethod, ignored, q
<1>6. Proper(fail, {})
  <2>1. e \in Errs \ ({"none"} \cup Panics) /\ IsPkg(recv)
    BY <1>4 DEF Errs, Panics, Good, Sound
  <2> HIDE DEF e
  <2> QED BY <2>1, FailProper
<1> HIDE DEF fail
<1>7. ASSUME ~Failed(recv)
      PROVE  /\ Good(reg, {}) /\ Keeps(s, reg) /\ Proper(reg, {}) /\ fn \in DOMAIN reg.count
             /\ reg.scope = recv.scope
  <2>1. /\ Sound(recv) /\ IsPkg(recv) /\ DOMAIN recv.types \subseteq DOMAIN recv.info
        /\ n \notin DOMAIN recv.types
    BY <1>2, <1>4, <1>7 DEF Good, Live, Registered, Sound, Apart, KindsOK
  <2>2. Good(reg, {}) /\ Keeps(recv, reg)
    BY <1>2, <1>4, RegisterGood
  <2>3. n.kind # "Type"
    BY <1>2 DEF TypeKind
  <2>4. Proper(reg, {}) /\ fn \in DOMAIN reg.count
    BY <1>4, <1>7, <2>1, <2>3, RegisterNames
  <2>5. reg.scope = recv.scope
    BY <2>1, RegisterIs
  <2> QED BY <1>4, <2>2, <2>4, <2>5, KeepsTrans
<1> HIDE DEF reg
<1>8. ASSUME ~Failed(recv)
      PROVE  Good(sig, {}) /\ Proper(sig, {}) /\ KeepsFree(reg, sig)
  <2>1. \A i \in DOMAIN d.refs : Resolvable(reg, d.refs[i], third)
    BY <1>7, <1>8, ResolvableKept
  <2>2. Good(sig, {})
    BY <1>1, <1>2, <1>7, <1>8, <2>1, ConvertRefsGood
  <2>3. Proper(sig, {}) /\ KeepsFree(reg, sig)
    BY <1>1, <1>2, <1>7, <1>8, <2>1, ConvertRefsNames
  <2> QED BY <2>2, <2>3
<1> HIDE DEF sig, method
<1>9. ASSUME ~Failed(recv) PROVE Proper(added, {})
  <2>1. SameNames(sig, added)
    BY <1>8, <1>9 DEF SameNames, Good, Sound, IsPkg
  <2> HIDE DEF added
  <2> QED BY <1>8, <1>9, <2>1, ProperSame
<1> HIDE DEF added
<1>10. ASSUME ~Failed(recv), ~isMethod, ~ignored, ~dup, ~Failed(sig)
       PROVE  Proper(ins, {})
  <2>1. fn \notin DOMAIN reg.scope /\ fn \in DOMAIN reg.count
    BY <1>5, <1>7, <1>10 DEF FuncTaken
  <2>2. fn \in GoBase /\ fn \notin Tag
    BY <1>3, <1>10 DEF GoBase, Spaces, GoSpaces
  <2>3. fn \notin DOMAIN sig.scope /\ fn \in DOMAIN sig.count
    BY <1>8, <1>10, <2>1, <2>2 DEF KeepsFree
  <2>4. Given(sig.count, fn)
    <3>1. SuffixCount(fn, 1) = fn
      BY <2>2 DEF Spaces, GoSpaces
    <3>2. 1 \in 1..sig.count[fn]
      BY <1>8, <1>10, <2>3 DEF Good, Sound, CountOK
    <3> QED BY <2>2, <2>3, <3>1, <3>2 DEF Given
  <2> QED BY <1>8, <1>10, <2>2, <2>3, <2>4, InsertNames DEF Good
<1> HIDE DEF ins
<1>11. Proper(q, {})
  BY <1>0, <1>4, <1>6, <1>8, <1>9, <1>10
<1> QED BY <1>11 DEF q

LEMMA NewDeclNames ==
  ASSUME CSpaces, Spaces, NEW s, NEW d \in Decls, ~Skipped(d), NEW third, Good(s, {}), ~Failed(s),
         d.kind # "Enum" => \A i \in DOMAIN d.refs : Resolvable(s, d.refs[i], third),
         Proper(s, {})
  PROVE  Proper(NewDecl(s, d, third), {})
<1>1. CASE d.kind = "Type"
  <2>1. NewDecl(s, d, third) = NewTypeDecl(s, d, third)
    BY <1>1 DEF NewDecl
  <2> QED BY <1>1, <2>1, NewTypeDeclNames
<1>2. CASE d.kind = "Enum"
  <2>1. NewDecl(s, d, third) = NewEnumTypeDecl(s, d)
    BY <1>2 DEF NewDecl
  <2> QED BY <1>2, <2>1, NewEnumTypeDeclNames
<1>3. CASE d.kind = "Typedef"
  <2>1. NewDecl(s, d, third) = NewTypedefDecl(s, d, third)
    BY <1>3 DEF NewDecl
  <2> QED BY <1>3, <2>1, NewTypedefDeclNames
<1>4. CASE d.kind = "Func"
  <2>1. NewDecl(s, d, third) = NewFuncDecl(s, d, third)
    BY <1>4, Zenon DEF NewDecl
  <2>2. FuncGo[d.name].form # "absent"
    BY <1>4 DEF Skipped
  <2> QED BY <1>4, <2>1, <2>2, NewFuncDeclNames
<1> QED BY <1>1, <1>2, <1>3, <1>4, DeclFacts

(* What the package promises of names: it has not panicked, until the      *)
(* first error llcppg.pub is true, and until deferTypeBuild the names it   *)
(* gives are told apart.                                                   *)
NameInv ==
  /\ p.err \notin Panics
  /\ ~Failed(p) => Told(p, {})
  /\ phase \in {"macros", "decls"} => Names(p)

LEMMA NameInvInit == Init => NameInv
<1> SUFFICES ASSUME Init PROVE NameInv
  OBVIOUS
<1>1. /\ p.info = Empty /\ p.types = Empty /\ p.err = "none" /\ p.pubs = Empty
      /\ p.scope = [c \in DepName |-> [node |-> [name |-> c, kind |-> "Dep"], how |-> "subst"]]
  BY DEF Init, Fresh
<1>2. DOMAIN Empty = {}
  BY DEF Empty
<1> QED BY <1>1, <1>2 DEF NameInv, Panics, Told, Names, TypesNamed, ScopeNamed, TagsFree

(* A step of Process that leaves the package proper keeps the invariant. *)
LEMMA ProperStep ==
  ASSUME Proper(p', {}), phase' = "failed" <=> Failed(p')
  PROVE  NameInv'
  BY DEF NameInv, Proper

LEMMA SetGoFileProper ==
  ASSUME NEW s, NEW f, IsPkg(s), Proper(s, {})
  PROVE  Proper(SetGoFile(s, f), {})
<1> DEFINE q == [s EXCEPT !.cur = ToGoFile(f)]
<1>1. SameNames(s, q)
  BY CurSame
<1> HIDE DEF q
<1>2. Proper(q, {})
  BY <1>1, ProperSame
<1> QED BY <1>2 DEF q, SetGoFile

LEMMA MacroNames ==
  ASSUME Spaces, IInv, TypeInv, NameInv, NEW m \in Macros, ProcessMacro(m)
  PROVE  NameInv'
<1> DEFINE s == SetGoFile(p, m.file)
           q == NewMacro(s, m)
<1>1. Good(p, {}) /\ ~Failed(p) /\ Proper(p, {})
  BY GoodHere DEF ProcessMacro, NameInv, Proper
<1>2. m.file \in File
  BY ConvertAssumption DEF ConvertAssumption
<1>3. Good(s, {}) /\ Proper(s, {})
  BY <1>1, <1>2, SetGoFileGood, SetGoFileProper DEF Good, Sound
<1>4. p' = IF InCurPkg(m.file) THEN q ELSE p
  BY DEF ProcessMacro
<1> HIDE DEF s
<1>5. Proper(q, {})
  BY <1>3, NewMacroNames
<1> HIDE DEF q
<1>6. Proper(p', {})
  BY <1>1, <1>4, <1>5
<1>7. phase' = "failed" <=> Failed(p')
  BY DEF ProcessMacro
<1> QED BY <1>6, <1>7, ProperStep

LEMMA DeclNames ==
  ASSUME CSpaces, Spaces, IInv, TypeInv, NameInv, NEW d \in Decls, ProcessDecl(d)
  PROVE  NameInv'
<1> DEFINE s == SetGoFile(p, d.file)
           q == NewDecl(s, d, locMap')
<1>1. Good(p, {}) /\ ~Failed(p) /\ Proper(p, {})
  BY GoodHere DEF ProcessDecl, NameInv, Proper
<1>2. d.file \in File
  BY DeclFacts
<1>3. Good(s, {}) /\ Keeps(p, s) /\ ~Failed(s) /\ Proper(s, {})
  BY <1>1, <1>2, SetGoFileGood, SetGoFileProper DEF SameCore, Failed, Good, Sound
<1>4. p' = IF Skipped(d) THEN p ELSE q
  BY DEF ProcessDecl
<1>5. d.kind # "Enum" => \A i \in DOMAIN d.refs : Resolvable(s, d.refs[i], locMap')
  BY <1>3, DeclRefs DEF Resolvable, Keeps
<1> HIDE DEF s
<1>6. ~Skipped(d) => Proper(q, {})
  BY <1>3, <1>5, NewDeclNames
<1> HIDE DEF q
<1>7. Proper(p', {})
  BY <1>1, <1>4, <1>6
<1>8. phase' = "failed" <=> Failed(p')
  BY DEF ProcessDecl
<1> QED BY <1>7, <1>8, ProperStep

(* deferTypeBuild gives no name and takes none back. *)
LEMMA BuildNames ==
  ASSUME IInv, TypeInv, NameInv, BuildNext
  PROVE  NameInv'
<1> DEFINE e == p.incs[next.i]
           b == BuildType(p, e, locMap)
           q == IF StillIncomplete(p, e) THEN b ELSE p
<1>1. /\ phase = "build" /\ next.i <= next.last
      /\ p' = IF Failed(q) THEN Clear(q) ELSE q
      /\ phase' \in {"failed", "build"}
  BY DEF BuildNext
<1>2. /\ Live(p, {}, Built) /\ ~Failed(p) /\ Sound(p) /\ next.last = Len(p.incs)
      /\ next.i \in Nat \ {0}
  BY <1>1 DEF TypeInv, IInv
<1>3. next.i \in 1..Len(p.incs)
  BY <1>1, <1>2 DEF Sound, ListOK
<1>4. e.node \in DOMAIN p.types /\ (e.ref = NoName \/ Known(p, e.ref))
  BY <1>2, <1>3 DEF Sound, ListOK, Live, RefsKnown
<1>5. /\ q.pubs = p.pubs /\ q.err \in {p.err, "third"}
      /\ \A n \in DOMAIN p.types : n \in DOMAIN q.types /\ q.types[n].go = p.types[n].go
  <2>1. CASE StillIncomplete(p, e)
    <3>1. q = b
      BY <2>1
    <3>2. /\ b.pubs = p.pubs /\ b.err \in {p.err, "third"}
          /\ b.types = p.types \/ \E t : b.types = Bind(p.types, e.node, t) /\ t.go = p.types[e.node].go
      BY <1>2, <1>4, BuildTypeIs DEF Sound
    <3> HIDE DEF b, q, e
    <3>3. \A n \in DOMAIN p.types : n \in DOMAIN b.types /\ b.types[n].go = p.types[n].go
      BY <3>2, BindDomain, BindAt
    <3> QED BY <3>1, <3>2, <3>3
  <2>2. CASE ~StillIncomplete(p, e)
    BY <2>2
  <2> QED BY <2>1, <2>2
<1>6. IsPkg(q)
  <2>1. IsPkg(b)
    BY <1>2, <1>3, BuildTypeSound DEF Sound, ListOK
  <2> QED BY <1>2, <2>1 DEF Sound
<1> HIDE DEF q
<1>7. /\ p'.err = q.err /\ p'.pubs = q.pubs /\ p'.types = q.types
  BY <1>1, <1>6 DEF Clear, IsPkg
<1>8. p'.err \notin Panics
  BY <1>5, <1>7 DEF NameInv, Panics
<1>9. ~Failed(p) => Told(p', {})
  BY <1>5, <1>7, ToldKept DEF NameInv
<1> QED BY <1>1, <1>2, <1>8, <1>9 DEF NameInv

LEMMA NameStep ==
  ASSUME CSpaces, Spaces, IInv, TypeInv, NameInv, [Next]_vars
  PROVE  NameInv'
<1>1. ASSUME NEW m \in Macros, ProcessMacro(m) PROVE NameInv'
  BY <1>1, MacroNames
<1>2. ASSUME NEW d \in Decls, ProcessDecl(d) PROVE NameInv'
  BY <1>2, DeclNames
<1>3. CASE BuildNext
  BY <1>3, BuildNames
<1>4. CASE EndMacros \/ EndDecls \/ Terminated \/ UNCHANGED vars
  <2>1. p' = p /\ (phase' \in {"macros", "decls"} => phase \in {"macros", "decls"})
    BY <1>4 DEF EndMacros, EndDecls, Terminated, vars
  <2> QED BY <2>1 DEF NameInv
<1>5. CASE EndBuild
  <2>1. p' = Clear(p) /\ phase' = "done" /\ IsPkg(p)
    BY <1>5 DEF EndBuild, IInv, Sound
  <2>2. p'.err = p.err /\ p'.pubs = p.pubs /\ p'.types = p.types
    BY <2>1 DEF Clear, IsPkg
  <2> QED BY <2>1, <2>2 DEF NameInv, Failed, Told
<1> QED BY <1>1, <1>2, <1>3, <1>4, <1>5 DEF Next

(* The names the tables of internal/name give keep the package from ever   *)
(* declaring a Go name twice or substituting a declared one, and keep      *)
(* llcppg.pub true.                                                        *)
THEOREM NameInvariance == ASSUME CSpaces, Spaces PROVE Spec => []NameInv
<1>1. NameInv /\ IInv /\ TypeInv /\ [Next]_vars => NameInv'
  BY NameStep
<1> QED BY <1>1, NameInvInit, TypeInvariance, PTL DEF Spec

(* RegisterNode and funcIsDefined ask before every insertion, so gogen is  *)
(* never asked to declare a name again nor to substitute a declared one.   *)
THEOREM NeverPanics == ASSUME CSpaces, GoSpaces(Nat \ {0}) PROVE Spec => []NoPanic
<1>1. NameInv => NoPanic
  BY DEF NameInv, NoPanic, Panics
<1> QED BY <1>1, NameInvariance, PTL DEF Spaces

(* llcppg.pub records, for a C name, the name of a Go type of the package  *)
(* made for that C name.                                                   *)
THEOREM PubsTell == ASSUME CSpaces, GoSpaces(Nat \ {0}) PROVE Spec => []PubsTruthful
<1>1. NameInv => PubsTruthful
  BY DEF NameInv, PubsTruthful, Told
<1> QED BY <1>1, NameInvariance, PTL DEF Spaces
-----------------------------------------------------------------------------
(* The order of definitions: a typedef that names a type directly is built *)
(* after it, when the types that typedefs name are mentioned as Referents  *)
(* describes.                                                              *)

(* A dependency or the package has a type made for the name. *)
HasType(s, c) == c \in DepName \/ \E n \in DOMAIN s.types : n.name = c

(* A typedef that is built names a type that is. *)
AliasOK(types) ==
  \A n \in DOMAIN types : types[n].inits > 0 /\ types[n].of # NoNode =>
     \/ types[n].of.kind = "Dep"
     \/ types[n].of \in DOMAIN types /\ types[types[n].of].inits > 0

(* What the scope has for the names of dependencies, and for those of the  *)
(* typedefs and enums of the package.                                      *)
DepsBound(scope) == \A c \in DepName : c \in DOMAIN scope /\ scope[c].node.kind = "Dep"
Bound(s) ==
  \A n \in DOMAIN s.types : n.name \in DOMAIN s.scope => s.scope[n.name].node = n
PlainBound(s) ==
  \A n \in DOMAIN s.types : n.kind # "Type" =>
     n.name \in DOMAIN s.scope /\ s.scope[n.name].node = n

(* The type an entry waits for is built, or has an entry before it. *)
Ordered(s) ==
  \A i \in 1..Len(s.incs) : s.incs[i].ref # NoName =>
     \E n \in DOMAIN s.types :
        /\ n.name = s.incs[i].ref
        /\ s.types[n].inits > 0 \/ \E j \in 1..(i - 1) : s.incs[j].node = n

(* A node whose declaration has been converted, references included, has   *)
(* left a type for everything it mentions that a typedef may name.         *)
Settled(s, n) == n \in DOMAIN s.info /\ (n.kind = "Type" => n.name \notin DOMAIN s.tracked)
RefKind == {"Type", "Typedef", "Func"}
RefsMet(s) ==
  \A d \in Decls : d.kind \in RefKind /\ Settled(s, NodeOf(d)) /\ (d.kind = "Type" => d.full) =>
     \A c \in Mentions(d) \cap Referent : HasType(s, c)

(* How a method changes the package: what is built with a referent was,    *)
(* entries are only added, none of those waiting for a referent, and of    *)
(* the nodes that are not of record types only those of N are new.         *)
Plain(a, b) ==
  \A n \in DOMAIN b : b[n].inits > 0 /\ b[n].of # NoNode =>
     n \in DOMAIN a /\ a[n].inits > 0 /\ a[n].of = b[n].of
Lists(a, b) ==
  /\ \A i \in 1..Len(a) : i \in 1..Len(b) /\ b[i] = a[i]
  /\ \A i \in 1..Len(b) : i \in 1..Len(a) \/ b[i].ref = NoName
Grows(s, q, N) ==
  /\ Failed(s) => Failed(q)
  /\ Plain(s.types, q.types)
  /\ ~Failed(q) =>
       /\ Lists(s.incs, q.incs)
       /\ DOMAIN s.info \subseteq DOMAIN q.info
       /\ \A n : n.kind \in RefKind /\ Settled(q, n) => Settled(s, n) \/ n \in N
       /\ \A c : Known(s, c) => Known(q, c)
       /\ \A n \in DOMAIN q.types : n \in DOMAIN s.types \/ n.kind = "Type" \/ n \in N

LEMMA GrowsRefl == \A s : Grows(s, s, {})
  BY DEF Grows, Plain, Lists

LEMMA ListsTrans ==
  ASSUME NEW a, NEW b, NEW c, Lists(a, b), Lists(b, c)
  PROVE  Lists(a, c)
  BY DEF Lists

LEMMA GrowsTrans ==
  ASSUME NEW s, NEW q, NEW r, NEW M, NEW N, NEW L, Grows(s, q, M), Grows(q, r, N), M \cup N \subseteq L
  PROVE  Grows(s, r, L)
<1>1. Plain(s.types, r.types)
  BY DEF Grows, Plain
<1>2. CASE Failed(r)
  BY <1>1, <1>2 DEF Grows
<1>3. CASE ~Failed(r)
  <2>1. ~Failed(q)
    BY <1>3 DEF Grows
  <2>2. Lists(s.incs, r.incs)
    BY <1>3, <2>1, ListsTrans DEF Grows
  <2>3. /\ \A n : n.kind \in RefKind /\ Settled(r, n) => Settled(s, n) \/ n \in L
        /\ \A c : Known(s, c) => Known(r, c)
        /\ DOMAIN s.info \subseteq DOMAIN r.info
    BY <1>3, <2>1 DEF Grows
  <2>4. \A n \in DOMAIN r.types : n \in DOMAIN s.types \/ n.kind = "Type" \/ n \in L
    BY <1>3, <2>1 DEF Grows
  <2> QED BY <1>1, <1>3, <2>1, <2>2, <2>3, <2>4 DEF Grows
<1> QED BY <1>2, <1>3

(* Most methods change neither the nodes, the types nor the lists. *)
LEMMA GrowsScope ==
  ASSUME NEW s, NEW q, q.info = s.info, q.types = s.types, q.incs = s.incs, q.tracked = s.tracked,
         Failed(s) => Failed(q), ~Failed(q) => DOMAIN s.scope \subseteq DOMAIN q.scope
  PROVE  Grows(s, q, {})
<1>1. Plain(s.types, q.types) /\ Lists(s.incs, q.incs)
  BY DEF Plain, Lists
<1>2. ~Failed(q) => \A c : Known(s, c) => Known(q, c)
  BY DEF Known
<1>3. \A n : Settled(q, n) => Settled(s, n)
  BY DEF Settled
<1> QED BY <1>1, <1>2, <1>3 DEF Grows

(* A record type that waits for its body is not settled. *)
LEMMA GrowsUnsettled ==
  ASSUME NEW s, NEW q, NEW n, Grows(s, q, {n}), n.kind = "Type",
         ~Failed(q) => n.name \in DOMAIN q.tracked
  PROVE  Grows(s, q, {})
<1>1. ~Failed(q) => ~Settled(q, n)
  BY DEF Settled
<1> QED BY <1>1 DEF Grows

LEMMA RegisterGrows ==
  ASSUME NEW s, NEW node, NEW g, IsPkg(s)
  PROVE  /\ Grows(s, Register(s, node, g), {node})
         /\ node.kind \notin RefKind => Grows(s, Register(s, node, g), {})
         /\ node \in DOMAIN Register(s, node, g).info
<1> DEFINE q == Register(s, node, g)
           v == SuffixCount(g, Users(s, g) + 1)
<1>1. /\ q.info = Bind(s.info, node, v) /\ q.scope = s.scope /\ q.types = s.types
      /\ q.incs = s.incs /\ q.tracked = s.tracked /\ q.err = s.err
  BY RegisterIs
<1> HIDE DEF q, v
<1>2. \A n : n \in DOMAIN q.info <=> n \in DOMAIN s.info \/ n = node
  BY <1>1, BindDomain
<1>3. \A n : Settled(q, n) => Settled(s, n) \/ n = node
  BY <1>1, <1>2 DEF Settled
<1>4. Plain(s.types, q.types) /\ Lists(s.incs, q.incs) /\ (Failed(s) => Failed(q))
  BY <1>1 DEF Plain, Lists, Failed
<1>5. \A c : Known(s, c) => Known(q, c)
  BY <1>1 DEF Known
<1>6. Grows(s, q, {node})
  BY <1>1, <1>2, <1>3, <1>4, <1>5 DEF Grows
<1>7. node.kind \notin RefKind => Grows(s, q, {})
  BY <1>1, <1>2, <1>3, <1>4, <1>5 DEF Grows
<1> QED BY <1>2, <1>6, <1>7 DEF q

LEMMA InsertGrows ==
  ASSUME NEW s, NEW nm, NEW node, IsPkg(s)
  PROVE  Grows(s, Insert(s, nm, node), {})
<1> DEFINE q == Insert(s, nm, node)
<1>1. /\ q.info = s.info /\ q.types = s.types /\ q.incs = s.incs /\ q.tracked = s.tracked
      /\ IF nm \in DOMAIN s.scope THEN q.scope = s.scope /\ q.err = "redeclared"
         ELSE q.scope = Bind(s.scope, nm, Own(node)) /\ q.err = s.err
  BY InsertIs
<1> HIDE DEF q
<1>2. (Failed(s) => Failed(q)) /\ DOMAIN s.scope \subseteq DOMAIN q.scope
  BY <1>1, BindDomain DEF Failed
<1> QED BY <1>1, <1>2, GrowsScope DEF q

LEMMA SubstGrows ==
  ASSUME NEW s, NEW c, NEW node, IsPkg(s)
  PROVE  Grows(s, SubstObj(s, c, node), {})
<1> DEFINE q == SubstObj(s, c, node)
           o == [node |-> node, how |-> "subst"]
<1>1. /\ q.info = s.info /\ q.types = s.types /\ q.incs = s.incs /\ q.tracked = s.tracked
      /\ IF Failed(s) THEN q = s
         ELSE IF c \in DOMAIN s.scope /\ s.scope[c].how = "decl"
         THEN q.scope = s.scope /\ q.err = "redefined"
         ELSE q.scope = Bind(s.scope, c, o) /\ q.err = s.err
  BY SubstIs
<1> HIDE DEF q, o
<1>2. (Failed(s) => Failed(q)) /\ DOMAIN s.scope \subseteq DOMAIN q.scope
  BY <1>1, BindDomain DEF Failed
<1> QED BY <1>1, <1>2, GrowsScope DEF q

LEMMA NamedGrows ==
  ASSUME NEW s, NEW nm, NEW c, NEW node, IsPkg(s)
  PROVE  Grows(s, Named(s, nm, c, node), {})
  BY SubstGrows, GrowsRefl DEF Named

LEMMA FailGrows ==
  ASSUME NEW s, NEW e, e # "none", IsPkg(s)
  PROVE  Grows(s, Fail(s, e), {}) /\ Failed(Fail(s, e))
<1>1. /\ Fail(s, e).info = s.info /\ Fail(s, e).types = s.types /\ Fail(s, e).incs = s.incs
      /\ Fail(s, e).tracked = s.tracked /\ Fail(s, e).scope = s.scope /\ Failed(Fail(s, e))
  BY FailIs DEF Failed
<1> QED BY <1>1, GrowsScope

LEMMA SameGrows ==
  ASSUME NEW s, NEW q, SameCore(s, q)
  PROVE  Grows(s, q, {})
  BY GrowsScope DEF SameCore, Failed

LEMMA EmptyTypeDeclGrows ==
  ASSUME NEW s, NEW nm, NEW node, IsPkg(s)
  PROVE  Grows(s, EmptyTypeDecl(s, nm, node), {node})
<1> DEFINE q == EmptyTypeDecl(s, nm, node)
<1>1. /\ q.info = s.info /\ q.incs = s.incs /\ q.tracked = s.tracked
      /\ IF nm \in DOMAIN s.scope
         THEN q.scope = s.scope /\ q.types = s.types /\ q.err = "redeclared"
         ELSE /\ q.scope = Bind(s.scope, nm, Own(node))
              /\ q.err = s.err
              /\ q.types = IF Failed(s) THEN s.types ELSE Bind(s.types, node, NewDef(s, nm))
  BY EmptyTypeDeclIs
<1> HIDE DEF q
<1>2. (Failed(s) => Failed(q)) /\ DOMAIN s.scope \subseteq DOMAIN q.scope
  BY <1>1, BindDomain DEF Failed
<1>3. CASE q.types = s.types
  <2>1. Grows(s, q, {})
    BY <1>1, <1>2, <1>3, GrowsScope
  <2> QED BY <2>1 DEF Grows, q
<1>4. CASE q.types = Bind(s.types, node, NewDef(s, nm))
  <2>1. /\ \A n : n \in DOMAIN q.types <=> n \in DOMAIN s.types \/ n = node
        /\ q.types[node] = NewDef(s, nm)
        /\ \A n \in DOMAIN s.types : n # node => q.types[n] = s.types[n]
    BY <1>4, BindDomain, BindAt
  <2>2. NewDef(s, nm).inits = 0
    BY DEF NewDef
  <2>3. Plain(s.types, q.types)
    BY <2>1, <2>2 DEF Plain
  <2>4. Lists(s.incs, q.incs) /\ \A c : Known(s, c) => Known(q, c)
    BY <1>1, <1>2 DEF Lists, Known
  <2>5. \A n : Settled(q, n) => Settled(s, n)
    BY <1>1 DEF Settled
  <2> QED BY <1>1, <1>2, <2>1, <2>3, <2>4, <2>5 DEF Grows, q
<1> QED BY <1>1, <1>3, <1>4

(* An entry that waits for no type is appended. *)
LEMMA AddIncompleteGrows ==
  ASSUME NEW s, NEW node, Sound(s)
  PROVE  /\ Grows(s, AddIncomplete(s, node, NoName), {})
         /\ ~Failed(AddIncomplete(s, node, NoName)) =>
              node.name \in DOMAIN AddIncomplete(s, node, NoName).tracked
<1> DEFINE q == AddIncomplete(s, node, NoName)
           e == [node |-> node, ref |-> NoName]
<1>1. /\ Failed(s) => q = s
      /\ q.info = s.info /\ q.scope = s.scope /\ q.err = s.err /\ q.types = s.types
      /\ ~Failed(s) => q.incs = Append(s.incs, e) /\ q.tracked = Bind(s.tracked, node.name, node)
  BY AddIncompleteIs DEF Sound
<1>2. e.ref = NoName
  OBVIOUS
<1> HIDE DEF q, e
<1>3. CASE Failed(s)
  BY <1>1, <1>3, GrowsRefl DEF q
<1>4. CASE ~Failed(s)
  <2>1. s.incs \in Seq(Entry)
    BY DEF Sound, ListOK
  <2>2. Lists(s.incs, q.incs)
    <3> DEFINE L == s.incs
    <3>1. L \in Seq(Entry)
      BY <2>1
    <3> HIDE DEF L
    <3>2. Lists(L, Append(L, e))
      BY <1>2, <3>1 DEF Lists
    <3> QED BY <1>1, <1>4, <3>2 DEF L
  <2>3. \A c : c \in DOMAIN q.tracked <=> c \in DOMAIN s.tracked \/ c = node.name
    BY <1>1, <1>4, BindDomain
  <2>4. \A c : Known(s, c) => Known(q, c)
    BY <1>1, <2>3 DEF Known
  <2>5. \A n : Settled(q, n) => Settled(s, n)
    BY <1>1, <2>3 DEF Settled
  <2>6. Plain(s.types, q.types) /\ ~Failed(q)
    BY <1>1, <1>4 DEF Plain, Failed
  <2> QED BY <1>1, <1>4, <2>2, <2>3, <2>4, <2>5, <2>6 DEF Grows, q
<1> QED BY <1>3, <1>4

(* A body without a referent is given. *)
LEMMA InitTypeGrows ==
  ASSUME NEW s, NEW node, NEW def, IsPkg(s), ~Failed(s) => node \in DOMAIN s.types
  PROVE  Grows(s, InitType(s, node, def, NoNode), {})
<1> DEFINE q == InitType(s, node, def, NoNode)
           t == DefAs(s, node, def, NoNode)
<1>1. /\ Failed(s) => q = s
      /\ q.info = s.info /\ q.incs = s.incs /\ q.tracked = s.tracked /\ q.scope = s.scope
      /\ q.err = s.err
      /\ ~Failed(s) => q.types = Bind(s.types, node, t)
  BY InitTypeIs
<1>2. t.of = NoNode
  BY DEF DefAs
<1> HIDE DEF q, t
<1>3. CASE Failed(s)
  BY <1>1, <1>3, GrowsRefl DEF q
<1>4. CASE ~Failed(s)
  <2>1. /\ \A n : n \in DOMAIN q.types <=> n \in DOMAIN s.types
        /\ q.types[node] = t
        /\ \A n \in DOMAIN s.types : n # node => q.types[n] = s.types[n]
    BY <1>1, <1>4, BindDomain, BindAt
  <2>2. Plain(s.types, q.types)
    BY <1>2, <2>1 DEF Plain
  <2>3. Lists(s.incs, q.incs) /\ \A c : Known(s, c) => Known(q, c)
    BY <1>1 DEF Lists, Known
  <2>4. \A n : Settled(q, n) => Settled(s, n)
    BY <1>1 DEF Settled
  <2> QED BY <1>1, <1>4, <2>1, <2>2, <2>3, <2>4 DEF Grows, q, Failed
<1> QED BY <1>3, <1>4

(* The name of a record type stops being tracked once the scope has it. *)
LEMMA CompleteGrows ==
  ASSUME NEW s, NEW c, Sound(s), ~Failed(s) => c \in DOMAIN s.scope
  PROVE  /\ Grows(s, Complete(s, c), {TypeNode(c)})
         /\ ~Failed(Complete(s, c)) => c \notin DOMAIN Complete(s, c).tracked
<1> DEFINE q == Complete(s, c)
           u == Unbind(s.tracked, c)
<1>1. q = [s EXCEPT !.tracked = u]
  BY DEF Complete
<1> HIDE DEF u, q
<1>2. /\ q.info = s.info /\ q.incs = s.incs /\ q.tracked = u /\ q.scope = s.scope
      /\ q.err = s.err /\ q.types = s.types
  BY <1>1 DEF Sound, IsPkg
<1>3. \A x : x \in DOMAIN q.tracked <=> x \in DOMAIN s.tracked /\ x # c
  BY <1>2, UnbindDomain DEF u
<1>4. ASSUME NEW n, n.kind \in RefKind, Settled(q, n), ~Settled(s, n)
      PROVE  n = TypeNode(c)
  <2>1. n \in Node /\ n.kind = "Type" /\ n.name = c
    BY <1>2, <1>3, <1>4 DEF Settled, Sound
  <2>2. n = [name |-> n.name, kind |-> n.kind]
    BY <2>1 DEF Node
  <2> QED BY <2>1, <2>2 DEF TypeNode
<1>5. ~Failed(q) => \A x : Known(s, x) => Known(q, x)
  BY <1>2, <1>3 DEF Known, Failed
<1>6. Plain(s.types, q.types) /\ Lists(s.incs, q.incs) /\ (Failed(s) => Failed(q))
  BY <1>2 DEF Plain, Lists, Failed
<1> QED BY <1>2, <1>3, <1>4, <1>5, <1>6 DEF Grows, q

-----------------------------------------------------------------------------
(* References and declarations, as changes of the package. *)

LEMMA RegisterNodeGrows ==
  ASSUME NEW s, NEW node, NEW g, NEW origin, IsPkg(s)
  PROVE  LET r == RegisterNode(s, node, g, origin)
         IN  /\ Grows(s, r.pkg, {node})
             /\ node.kind \notin RefKind => Grows(s, r.pkg, {})
             /\ r.exist => node \in DOMAIN s.info /\ r.pkg = s
<1> DEFINE r == RegisterNode(s, node, g, origin)
<1>1. CASE node \in DOMAIN s.info
  <2>1. r.pkg = s /\ r.exist
    BY <1>1 DEF RegisterNode
  <2> HIDE DEF r
  <2>2. Grows(s, r.pkg, {}) /\ Grows(s, r.pkg, {node})
    BY <2>1, GrowsRefl DEF Grows
  <2> QED BY <1>1, <2>1, <2>2 DEF r
<1>2. CASE node \notin DOMAIN s.info
  <2>1. r.pkg = Register(s, node, g) /\ ~r.exist
    BY <1>2, RegisterNodeNew
  <2> HIDE DEF r
  <2> QED BY <1>2, <2>1, RegisterGrows DEF r
<1> QED BY <1>1, <1>2

LEMMA ImplicitGrows ==
  ASSUME NEW s, NEW c \in CName, Sound(s)
  PROVE  Grows(s, ImplicitForwardDecl(s, c), {})
<1> DEFINE n == TypeNode(c)
           r == RegisterNode(s, n, TypeGo[c], TRUE)
           d == EmptyTypeDecl(r.pkg, r.name, n)
           q == AddIncomplete(d, n, NoName)
<1>1. CASE c \in DOMAIN s.tracked
  BY <1>1, GrowsRefl DEF ImplicitForwardDecl
<1>2. CASE c \notin DOMAIN s.tracked
  <2>1. ImplicitForwardDecl(s, c) = q
    BY <1>2 DEF ImplicitForwardDecl
  <2>2. n \in Node /\ n.kind = "Type" /\ n.name = c
    BY TypeNodeFacts DEF TypeNode, Node, Kind
  <2> HIDE DEF n
  <2>3. Sound(r.pkg) /\ Grows(s, r.pkg, {n})
    BY <2>2, RegisterNodeSound, RegisterNodeGrows DEF Sound
  <2> HIDE DEF r
  <2>4. Sound(d) /\ Grows(r.pkg, d, {n})
    BY <2>2, <2>3, EmptyTypeDeclSound, EmptyTypeDeclGrows DEF Sound
  <2> HIDE DEF d
  <2>5. Grows(d, q, {}) /\ (~Failed(q) => n.name \in DOMAIN q.tracked)
    BY <2>4, AddIncompleteGrows
  <2> HIDE DEF q
  <2>6. Grows(s, d, {n})
    BY <2>3, <2>4, GrowsTrans
  <2>7. Grows(s, q, {n})
    BY <2>5, <2>6, GrowsTrans
  <2> QED BY <2>1, <2>2, <2>5, <2>7, GrowsUnsettled
<1> QED BY <1>1, <1>2

LEMMA LookupTypeGrows ==
  ASSUME NEW s, NEW c \in CName, NEW third, Sound(s)
  PROVE  LET q == LookupType(s, c, third)
         IN  Grows(s, q, {}) /\ (~Failed(q) => Known(q, c))
<1> DEFINE q == IF c \in DOMAIN s.scope THEN s
                ELSE IF c \in third THEN Fail(s, "third")
                ELSE ImplicitForwardDecl(s, c)
           uses == Resolved(q, c)
           u == [q EXCEPT !.uses = uses]
           z == LookupType(s, c, third)
<1>1. CASE Failed(s)
  BY <1>1, GrowsRefl DEF LookupType
<1>2. CASE ~Failed(s)
  <2>1. Sound(q) /\ Grows(s, q, {}) /\ (~Failed(q) => Known(q, c))
    <3>1. CASE c \in DOMAIN s.scope
      BY <3>1, GrowsRefl DEF Known
    <3>2. CASE c \notin DOMAIN s.scope /\ c \in third
      <4>1. q = Fail(s, "third")
        BY <3>2
      <4> HIDE DEF q
      <4> QED BY <4>1, FailGrows, FailSound DEF Errs, Sound
    <3>3. CASE c \notin DOMAIN s.scope /\ c \notin third
      <4>1. q = ImplicitForwardDecl(s, c)
        BY <3>3
      <4> HIDE DEF q
      <4> QED BY <4>1, ImplicitGrows, ImplicitSound DEF Known
    <3> QED BY <3>1, <3>2, <3>3
  <2>2. z = IF Failed(q) THEN q ELSE u
    BY <1>2 DEF LookupType, Resolved
  <2> HIDE DEF q, uses, z
  <2>3. SameCore([q EXCEPT !.uses = q.uses], q) /\ q.info = u.info /\ q.types = u.types
        /\ q.incs = u.incs /\ q.tracked = u.tracked /\ q.scope = u.scope /\ q.err = u.err
    BY <2>1 DEF SameCore, Sound, IsPkg
  <2> HIDE DEF u
  <2>4. Grows(q, u, {})
    BY <2>3, GrowsScope DEF Failed
  <2>5. Grows(s, u, {})
    BY <2>1, <2>4, GrowsTrans
  <2>6. ~Failed(q) => Known(u, c)
    BY <2>1, <2>3 DEF Known
  <2> QED BY <2>1, <2>2, <2>5, <2>6 DEF z
<1> QED BY <1>1, <1>2

(* Once references are converted without an error, their names are known.  *)
AllKnown(s, refs) == ~Failed(s) => \A i \in DOMAIN refs : Known(s, refs[i])

LEMMA AllKnownGrows ==
  ASSUME NEW s, NEW q, NEW N, NEW refs, AllKnown(s, refs), Grows(s, q, N)
  PROVE  AllKnown(q, refs)
  BY DEF AllKnown, Grows

LEMMA ConvertRefsGrows ==
  ASSUME NEW s, NEW refs, RefsOK(refs), NEW third, Sound(s)
  PROVE  LET q == ConvertRefs(s, refs, third)
         IN  Grows(s, q, {}) /\ AllKnown(q, refs)
<1>1. CASE DOMAIN refs = {}
  <2>1. ConvertRefs(s, refs, third) = s
    BY <1>1 DEF ConvertRefs
  <2> QED BY <1>1, <2>1, GrowsRefl DEF AllKnown
<1>2. CASE DOMAIN refs = {1}
  <2>1. ConvertRefs(s, refs, third) = LookupType(s, refs[1], third)
    BY <1>2 DEF ConvertRefs
  <2>2. refs[1] \in CName
    BY <1>2 DEF RefsOK
  <2> QED BY <1>2, <2>1, <2>2, LookupTypeGrows DEF AllKnown
<1>3. CASE DOMAIN refs = {1, 2}
  <2> DEFINE q == LookupType(s, refs[1], third)
             w == LookupType(q, refs[2], third)
  <2>1. ConvertRefs(s, refs, third) = w
    BY <1>3 DEF ConvertRefs
  <2>2. refs[1] \in CName /\ refs[2] \in CName
    BY <1>3 DEF RefsOK
  <2>3. Sound(q) /\ Grows(s, q, {}) /\ (~Failed(q) => Known(q, refs[1]))
    BY <2>2, LookupTypeGrows, LookupTypeSound
  <2> HIDE DEF q
  <2>4. Grows(q, w, {}) /\ (~Failed(w) => Known(w, refs[2]))
    BY <2>2, <2>3, LookupTypeGrows
  <2> HIDE DEF w
  <2>5. Grows(s, w, {})
    BY <2>3, <2>4, GrowsTrans
  <2>6. ~Failed(w) => Known(w, refs[1])
    BY <2>3, <2>4 DEF Grows
  <2> QED BY <1>3, <2>1, <2>4, <2>5, <2>6 DEF AllKnown
<1> QED BY <1>1, <1>2, <1>3 DEF RefsOK

LEMMA CompleteTypeGrows ==
  ASSUME NEW s, NEW node, NEW refs, RefsOK(refs), NEW c \in CName, NEW third, Good(s, {}),
         ~Failed(s) => node \in DOMAIN s.types /\ c \in DOMAIN s.scope,
         \A i \in DOMAIN refs : Resolvable(s, refs[i], third)
  PROVE  LET q == CompleteType(s, node, refs, c, third)
         IN  /\ Grows(s, q, {TypeNode(c)}) /\ AllKnown(q, refs)
             /\ ~Failed(q) => c \notin DOMAIN q.tracked
<1> DEFINE r == RestoreFile(s, node)
           q == ConvertRefs(r, refs, third)
           t == InitType(q, node, "struct", NoNode)
           b == [t EXCEPT !.cur = s.cur]
           f == Complete(b, c)
<1>1. CASE Failed(s)
  <2>1. CompleteType(s, node, refs, c, third) = s
    BY <1>1 DEF CompleteType
  <2>2. Grows(s, s, {TypeNode(c)})
    BY GrowsRefl DEF Grows
  <2> QED BY <1>1, <2>1, <2>2 DEF AllKnown
<1>2. CASE ~Failed(s)
  <2>1. CompleteType(s, node, refs, c, third) = f
    BY <1>2 DEF CompleteType
  <2>2. Sound(r) /\ SameCore(s, r) /\ Good(r, {})
    <3>1. s.types[node].file \in GoFile
      BY <1>2 DEF Good, Sound, TypesOK, IsTypeDecl
    <3> QED BY <3>1, SetCurGood DEF RestoreFile, Good
  <2>3. Grows(s, r, {})
    BY <2>2, SameGrows
  <2>10. \A i \in DOMAIN refs : Resolvable(r, refs[i], third)
    BY <2>2 DEF Resolvable, SameCore
  <2>11. node \in DOMAIN r.types /\ r.types[node].file = r.cur /\ c \in DOMAIN r.scope
    <3>1. r.cur = s.types[node].file /\ r.types = s.types
      BY <1>2, RestoreSound DEF Good
    <3> QED BY <1>2, <2>2, <3>1 DEF SameCore
  <2> HIDE DEF r
  <2>12. NoTag({})
    BY DEF NoTag
  <2>4. Sound(q) /\ Grows(r, q, {}) /\ AllKnown(q, refs) /\ Extends(r, q) /\ Keeps(r, q)
    BY <2>2, <2>10, <2>12, ConvertRefsGood, ConvertRefsGrows, ConvertRefsSound DEF Good
  <2>13. node \in DOMAIN q.types /\ q.types[node].file = q.cur /\ c \in DOMAIN q.scope
    BY <2>4, <2>11 DEF Keeps, Extends
  <2> HIDE DEF q
  <2>5. Sound(t) /\ Grows(q, t, {}) /\ t.scope = q.scope
    BY <2>4, <2>13, InitTypeSound, InitTypeGrows, InitTypeIs DEF Defs, Sound
  <2> HIDE DEF t
  <2>6. Sound(b) /\ SameCore(t, b)
    <3>1. s.cur \in GoFile
      BY DEF Good, Sound
    <3> QED BY <2>5, <3>1, CurSound DEF SameCore, Sound, IsPkg
  <2>7. Grows(t, b, {}) /\ c \in DOMAIN b.scope
    BY <2>5, <2>6, <2>13, SameGrows DEF SameCore
  <2> HIDE DEF b
  <2>8. Grows(b, f, {TypeNode(c)}) /\ (~Failed(f) => c \notin DOMAIN f.tracked)
    BY <2>6, <2>7, CompleteGrows
  <2> HIDE DEF f
  <2>9. Grows(s, f, {TypeNode(c)}) /\ AllKnown(f, refs)
    <3>1. Grows(s, q, {})
      BY <2>3, <2>4, GrowsTrans
    <3>2. Grows(q, b, {})
      BY <2>5, <2>7, GrowsTrans
    <3>3. Grows(q, f, {TypeNode(c)})
      BY <3>2, <2>8, GrowsTrans
    <3> QED BY <2>4, <3>1, <3>3, GrowsTrans, AllKnownGrows
  <2> QED BY <2>1, <2>8, <2>9
<1> QED BY <1>1, <1>2

LEMMA CollectGrows ==
  ASSUME NEW s, NEW c, NEW nm, IsPkg(s)
  PROVE  /\ Grows(s, CollectNameMapping(s, c, nm), {})
         /\ SameCore(s, CollectNameMapping(s, c, nm))
<1> DEFINE q == CollectNameMapping(s, c, nm)
<1>1. SameCore(s, q)
  BY DEF CollectNameMapping, SameCore, IsPkg
<1> HIDE DEF q
<1>2. Grows(s, q, {})
  BY <1>1, SameGrows
<1> QED BY <1>1, <1>2 DEF q

LEMMA TypeMadeGrows ==
  ASSUME NEW s, NEW c \in CName, Sound(s)
  PROVE  /\ Sound(Made(s, c)) /\ Grows(s, Made(s, c), {})
         /\ Grows(s, NamedType(s, c), {})
<1> DEFINE n == TypeNode(c)
           r == TypeReg(s, c)
           mapped == CollectNameMapping(r.pkg, c, r.name)
           empty == EmptyTypeDecl(mapped, r.name, n)
           added == AddIncomplete(empty, n, NoName)
           made == Made(s, c)
<1>1. made = IF c \in DOMAIN r.pkg.tracked THEN mapped ELSE added
  BY DEF Made
<1>2. n \in Node /\ n.name = c /\ n.kind = "Type"
  BY TypeNodeFacts DEF TypeNode, Node, Kind
<1> HIDE DEF n
<1>3. Sound(r.pkg) /\ Grows(s, r.pkg, {n})
  BY <1>2, RegisterNodeSound, RegisterNodeGrows DEF Sound, TypeReg, n
<1>8. NamedType(s, c) = Named(made, r.name, c, made.tracked[c])
  BY DEF NamedType
<1> HIDE DEF r, made
<1>4. Sound(mapped) /\ Grows(r.pkg, mapped, {}) /\ mapped.tracked = r.pkg.tracked
  BY <1>3, CollectSound, CollectGrows DEF Sound
<1>5. Grows(s, mapped, {n})
  BY <1>3, <1>4, GrowsTrans
<1> HIDE DEF mapped
<1>6. Sound(empty) /\ Grows(mapped, empty, {n}) /\ (~Failed(empty) => n \in DOMAIN empty.types)
  BY <1>2, <1>4, EmptyTypeDeclSound, EmptyTypeDeclGrows DEF Sound
<1> HIDE DEF empty
<1>7. Sound(made) /\ Grows(s, made, {})
  <2>1. CASE c \in DOMAIN r.pkg.tracked
    <3>1. made = mapped
      BY <1>1, <2>1
    <3>2. Grows(s, mapped, {})
      BY <1>2, <1>4, <1>5, <2>1, GrowsUnsettled
    <3> QED BY <1>4, <3>1, <3>2
  <2>2. CASE c \notin DOMAIN r.pkg.tracked
    <3>1. Grows(empty, added, {}) /\ (~Failed(added) => n.name \in DOMAIN added.tracked)
      BY <1>6, AddIncompleteGrows
    <3>2. Sound(added)
      <4>1. \A ref \in CName \cup {NoName} : Sound(AddIncomplete(empty, n, ref))
        BY <1>2, <1>6, AddIncompleteSound
      <4> QED BY <4>1
    <3> HIDE DEF added
    <3>3. Grows(s, empty, {n})
      BY <1>5, <1>6, GrowsTrans
    <3>4. Grows(s, added, {n})
      BY <3>1, <3>3, GrowsTrans
    <3>5. Grows(s, added, {})
      BY <1>2, <3>1, <3>4, GrowsUnsettled
    <3> QED BY <1>1, <2>2, <3>2, <3>5
  <2> QED BY <2>1, <2>2
<1> DEFINE named == Named(made, r.name, c, made.tracked[c])
<1>9. Grows(made, named, {})
  BY <1>7, NamedGrows DEF Sound
<1> HIDE DEF named
<1>10. Grows(s, named, {})
  BY <1>7, <1>9, GrowsTrans
<1> QED BY <1>7, <1>8, <1>10 DEF made, named

(* What the conversion of a declaration other than a typedef leaves.       *)
Done(q, d) ==
  ~Failed(q) => /\ NodeOf(d) \in DOMAIN q.info
                /\ d.kind = "Type" /\ d.full => d.name \notin DOMAIN q.tracked
Converts(s, q, d) ==
  /\ Grows(s, q, {NodeOf(d)}) /\ Done(q, d)
  /\ Grows(s, q, {}) \/ (AllKnown(q, d.refs) /\ (d.kind = "Type" => d.full))

LEMMA NoGrowth ==
  ASSUME NEW s, NEW q, NEW N, Grows(s, q, {})
  PROVE  Grows(s, q, N)
  BY DEF Grows

LEMMA FailConverts ==
  ASSUME NEW s, NEW q, NEW N, NEW e, NEW d, Grows(s, q, N), e # "none", IsPkg(q)
  PROVE  Grows(s, Fail(q, e), {}) /\ Failed(Fail(q, e)) /\ Converts(s, Fail(q, e), d)
<1> DEFINE f == Fail(q, e)
<1>1. Grows(q, f, {}) /\ Failed(f)
  BY FailGrows
<1> HIDE DEF f
<1>2. Grows(s, f, N)
  BY <1>1, GrowsTrans
<1>3. Grows(s, f, {}) /\ Grows(s, f, {NodeOf(d)})
  BY <1>1, <1>2 DEF Grows
<1> QED BY <1>1, <1>3 DEF f, Converts, Done

LEMMA TypeRegGrows ==
  ASSUME NEW s, NEW c \in CName, Sound(s)
  PROVE  /\ Grows(s, TypeReg(s, c).pkg, {TypeNode(c)}) /\ Sound(TypeReg(s, c).pkg)
         /\ TypeReg(s, c).exist => TypeNode(c) \in DOMAIN s.info /\ TypeReg(s, c).pkg = s
<1> DEFINE n == TypeNode(c)
           g == TypeGo[c]
           r == RegisterNode(s, n, g, TRUE)
<1>1. n \in Node /\ r = TypeReg(s, c)
  BY TypeNodeFacts DEF TypeReg
<1> HIDE DEF n, g
<1>2. Sound(r.pkg) /\ Grows(s, r.pkg, {n})
  BY <1>1, RegisterNodeSound, RegisterNodeGrows DEF Sound
<1>3. r.exist => n \in DOMAIN s.info /\ r.pkg = s
  <2>1. CASE n \in DOMAIN s.info
    BY <2>1 DEF RegisterNode
  <2>2. CASE n \notin DOMAIN s.info
    <3>1. ~r.exist
      BY <2>2, RegisterNodeNew DEF Sound
    <3> QED BY <3>1
  <2> QED BY <2>1, <2>2
<1> HIDE DEF r
<1> QED BY <1>1, <1>2, <1>3 DEF n

LEMMA NewTypeDeclConverts ==
  ASSUME CSpaces, NEW s, NEW d \in Decls, d.kind = "Type", NEW third, Good(s, {}), ~Failed(s),
         \A i \in DOMAIN d.refs : Resolvable(s, d.refs[i], third)
  PROVE  Converts(s, NewTypeDecl(s, d, third), d)
<1> DEFINE c == d.name
           n == TypeNode(c)
           r == TypeReg(s, c)
           isIncom == c \in DOMAIN r.pkg.tracked
           made == Made(s, c)
           incom == made.tracked[c]
           named == NamedType(s, c)
           fail == Fail(r.pkg, "defined")
           full == CompleteType(named, incom, d.refs, c, third)
           q == NewTypeDecl(s, d, third)
<1>0. q = IF r.bad THEN fail
          ELSE IF r.exist /\ (~d.full \/ ~isIncom) THEN s
          ELSE IF Failed(made) THEN made
          ELSE IF d.full THEN full
          ELSE named
  BY NewTypeDeclIs
<1>1. c \in Tag /\ RefsOK(d.refs) /\ c \in CName /\ n = NodeOf(d) /\ n \in Node /\ n.kind = "Type"
  BY DeclFacts, TagFacts DEF CSpaces, TypeKind, TypeNode, NodeOf, IsTypeNode
<1>2. Sound(s)
  BY DEF Good
<1>3. /\ Grows(s, r.pkg, {n}) /\ Sound(r.pkg)
      /\ r.exist => n \in DOMAIN s.info /\ r.pkg = s
  BY <1>1, <1>2, TypeRegGrows
<1>4. Converts(s, fail, d)
  BY <1>3, FailConverts DEF Sound
<1>5. Sound(made) /\ Grows(s, made, {}) /\ Grows(s, named, {})
  BY <1>1, <1>2, TypeMadeGrows
<1>6. ASSUME ~r.bad, ~(r.exist /\ (~d.full \/ ~isIncom)), ~Failed(made)
      PROVE  /\ Good(named, {}) /\ Keeps(s, named)
             /\ ~Failed(named) => /\ incom \in DOMAIN named.types /\ incom.name = c
                                  /\ c \in DOMAIN named.scope /\ c \in DOMAIN named.tracked
  BY <1>1, <1>6, TypeMadeGood
<1> HIDE DEF c, n, r, made, incom, named, fail
<1>7. ASSUME r.exist, ~d.full \/ ~isIncom PROVE Converts(s, s, d)
  <2>1. Grows(s, s, {}) /\ Grows(s, s, {NodeOf(d)})
    BY GrowsRefl, NoGrowth
  <2>2. Done(s, d)
    BY <1>1, <1>3, <1>7 DEF Done, c
  <2> QED BY <2>1, <2>2 DEF Converts
<1>8. ASSUME Failed(made) PROVE Converts(s, made, d)
  BY <1>5, <1>8, NoGrowth DEF Converts, Done
<1>9. ASSUME ~r.bad, ~(r.exist /\ (~d.full \/ ~isIncom)), ~Failed(made)
      PROVE  ~Failed(named) => NodeOf(d) \in DOMAIN named.info
  <2> SUFFICES ASSUME ~Failed(named) PROVE n \in DOMAIN named.info
    BY <1>1
  <2>1. incom \in DOMAIN named.types /\ incom.name = c /\ Live(named, {}, {}) /\ KindsOK(named.types)
        /\ TypesOK(named.types)
    BY <1>6, <1>9 DEF Good, Apart, Sound
  <2>2. incom.kind = "Type" /\ incom \in Node
    BY <1>1, <2>1 DEF KindsOK, TypesOK
  <2>3. incom = n
    BY <2>1, <2>2 DEF n, TypeNode, Node
  <2> QED BY <2>1, <2>3 DEF Live, Registered
<1>10. ASSUME ~r.bad, ~(r.exist /\ (~d.full \/ ~isIncom)), ~Failed(made), ~d.full
       PROVE  Converts(s, named, d)
  BY <1>5, <1>9, <1>10, NoGrowth DEF Converts, Done
<1>11. ASSUME ~r.bad, ~(r.exist /\ (~d.full \/ ~isIncom)), ~Failed(made), d.full
       PROVE  Converts(s, full, d)
  <2>1. \A i \in DOMAIN d.refs : Resolvable(named, d.refs[i], third)
    BY <1>6, <1>11, ResolvableKept
  <2>2. /\ Grows(named, full, {n}) /\ AllKnown(full, d.refs)
        /\ ~Failed(full) => c \notin DOMAIN full.tracked
    BY <1>1, <1>6, <1>11, <2>1, CompleteTypeGrows DEF n
  <2> HIDE DEF full
  <2>3. Grows(s, full, {n})
    BY <1>5, <2>2, GrowsTrans
  <2>4. ~Failed(full) => NodeOf(d) \in DOMAIN full.info
    BY <1>9, <1>11, <2>2 DEF Grows
  <2> QED BY <1>1, <1>11, <2>2, <2>3, <2>4 DEF Converts, Done, c
<1> HIDE DEF full
<1>12. Converts(s, q, d)
  BY <1>0, <1>4, <1>7, <1>8, <1>10, <1>11
<1> QED BY <1>12 DEF q

LEMMA NewConstGrows ==
  ASSUME NEW s, NEW c \in CName, NEW kind \in {"Item", "Macro"}, NEW emit, Sound(s)
  PROVE  Grows(s, NewConst(s, c, kind, emit), {}) /\ Sound(NewConst(s, c, kind, emit))
<1> DEFINE n == [name |-> c, kind |-> kind]
           r == RegisterNode(s, n, ConstGo[c], FALSE)
           fail == Fail(r.pkg, "defined")
           ins == Insert(r.pkg, r.name, n)
           q == NewConst(s, c, kind, emit)
<1>0. q = IF Failed(s) \/ r.exist THEN s
          ELSE IF r.bad THEN fail
          ELSE IF emit THEN ins
          ELSE r.pkg
  BY DEF NewConst
<1> HIDE DEF q
<1>1. n \in Node /\ n.kind \notin RefKind
  BY DEF Node, Kind, RefKind
<1> HIDE DEF n
<1>2. Sound(r.pkg) /\ Grows(s, r.pkg, {})
  BY <1>1, RegisterNodeSound, RegisterNodeGrows DEF Sound
<1> HIDE DEF r
<1>3. Sound(fail) /\ Grows(s, fail, {})
  BY <1>2, FailGrows, FailSound, GrowsTrans DEF Errs, Sound
<1> HIDE DEF fail
<1>4. Sound(ins) /\ Grows(s, ins, {})
  <2>1. Sound(ins) /\ Grows(r.pkg, ins, {})
    BY <1>1, <1>2, InsertSound, InsertGrows DEF Sound
  <2> HIDE DEF ins
  <2> QED BY <1>2, <2>1, GrowsTrans
<1> HIDE DEF ins
<1>5. Grows(s, q, {}) /\ Sound(q)
  BY <1>0, <1>2, <1>3, <1>4, GrowsRefl
<1> QED BY <1>5 DEF q

LEMMA EnumItemsGrows ==
  ASSUME NEW s, NEW items, RefsOK(items), Sound(s)
  PROVE  Grows(s, EnumItems(s, items), {})
<1>1. CASE DOMAIN items = {}
  <2>1. EnumItems(s, items) = s
    BY <1>1 DEF EnumItems
  <2> QED BY <2>1, GrowsRefl
<1>2. CASE DOMAIN items = {1}
  <2>1. EnumItems(s, items) = NewConst(s, items[1], "Item", TRUE)
    BY <1>2 DEF EnumItems
  <2>2. items[1] \in CName
    BY <1>2 DEF RefsOK
  <2> QED BY <2>1, <2>2, NewConstGrows
<1>3. CASE DOMAIN items = {1, 2}
  <2> DEFINE q == NewConst(s, items[1], "Item", TRUE)
             w == NewConst(q, items[2], "Item", TRUE)
  <2>0. DOMAIN items # {} /\ DOMAIN items # {1}
    BY <1>3
  <2>1. EnumItems(s, items) = w
    BY <2>0, Zenon DEF EnumItems
  <2>2. items[1] \in CName /\ items[2] \in CName
    BY <1>3 DEF RefsOK
  <2>3. Sound(q) /\ Grows(s, q, {})
    BY <2>2, NewConstGrows
  <2> HIDE DEF q
  <2>4. Grows(q, w, {})
    BY <2>2, <2>3, NewConstGrows
  <2> HIDE DEF w
  <2> QED BY <2>1, <2>3, <2>4, GrowsTrans
<1> QED BY <1>1, <1>2, <1>3 DEF RefsOK

LEMMA NewMacroGrows ==
  ASSUME NEW s, NEW m \in Macros, Sound(s)
  PROVE  Grows(s, NewMacro(s, m), {})
<1>1. m.name \in CName
  BY ConvertAssumption DEF ConvertAssumption
<1> QED BY <1>1, NewConstGrows, GrowsRefl DEF NewMacro

(* A function that is not ignored has had its references converted.        *)
LEMMA NewFuncDeclConverts ==
  ASSUME NEW s, NEW d \in Decls, d.kind = "Func", NEW third, Sound(s),
         FuncGo[d.name].form # "ignore"
  PROVE  Converts(s, NewFuncDecl(s, d, third), d)
<1> DEFINE fn == FuncGo[d.name].fn
           n == [name |-> d.name, kind |-> "Func"]
           isMethod == FuncGo[d.name].form = "method"
           recv == IF isMethod THEN LookupType(s, d.refs[1], third) ELSE s
           method == <<Target(recv, d.refs[1]), fn>>
           dup == IF isMethod THEN method \in recv.methods ELSE FuncTaken(s, fn)
           e == IF isMethod THEN "method" ELSE "func"
           fail == Fail(recv, e)
           reg == Register(recv, n, fn)
           sig == ConvertRefs(reg, d.refs, third)
           methods == sig.methods \cup {method}
           added == [sig EXCEPT !.methods = methods]
           ins == Insert(sig, fn, n)
           q == NewFuncDecl(s, d, third)
<1>0. q = IF n \in DOMAIN s.info THEN s
          ELSE IF Failed(recv) THEN recv
          ELSE IF dup THEN fail
          ELSE IF Failed(sig) THEN sig
          ELSE IF isMethod THEN added
          ELSE ins
  BY DEF NewFuncDecl
<1>1. d.name \in CName /\ RefsOK(d.refs) /\ (isMethod => 1 \in DOMAIN d.refs)
  BY DeclFacts
<1>2. n \in Node /\ n = NodeOf(d)
  BY <1>1 DEF Node, Kind, NodeOf
<1>3. Sound(recv) /\ Grows(s, recv, {})
  <2>1. CASE isMethod
    <3>1. d.refs[1] \in CName
      BY <1>1, <2>1 DEF RefsOK
    <3> QED BY <2>1, <3>1, LookupTypeSound, LookupTypeGrows
  <2>2. CASE ~isMethod
    BY <2>2, GrowsRefl
  <2> QED BY <2>1, <2>2
<1> HIDE DEF recv, n, fn, isMethod, q
<1>4. Converts(s, fail, d)
  <2>1. e # "none"
    OBVIOUS
  <2> HIDE DEF e
  <2> QED BY <1>3, <2>1, FailConverts DEF Sound
<1> HIDE DEF fail, dup
<1>5. Sound(reg) /\ Grows(recv, reg, {n}) /\ n \in DOMAIN reg.info
  BY <1>2, <1>3, RegisterSound, RegisterGrows DEF Sound
<1> HIDE DEF reg
<1>6. Sound(sig) /\ Grows(reg, sig, {}) /\ AllKnown(sig, d.refs)
  BY <1>1, <1>5, ConvertRefsSound, ConvertRefsGrows
<1> HIDE DEF sig
<1>7. Grows(s, sig, {n}) /\ (~Failed(sig) => n \in DOMAIN sig.info)
  <2>1. Grows(s, reg, {n})
    BY <1>3, <1>5, GrowsTrans
  <2> QED BY <1>5, <1>6, <2>1, GrowsTrans DEF Grows
<1>8. ASSUME NEW z, Grows(sig, z, {}) PROVE Converts(s, z, d)
  <2>1. Grows(s, z, {n}) /\ AllKnown(z, d.refs)
    BY <1>6, <1>7, <1>8, GrowsTrans, AllKnownGrows
  <2>2. ~Failed(z) => n \in DOMAIN z.info
    BY <1>7, <1>8 DEF Grows
  <2> QED BY <1>2, <2>1, <2>2 DEF Converts, Done
<1>9. Grows(sig, sig, {}) /\ Grows(sig, ins, {})
  BY <1>6, GrowsRefl, InsertGrows DEF Sound
<1>10. Grows(sig, added, {})
  <2>1. SameCore(sig, added)
    BY <1>6 DEF SameCore, Sound, IsPkg
  <2> HIDE DEF added
  <2> QED BY <2>1, SameGrows
<1> HIDE DEF added, ins
<1>11. ASSUME n \in DOMAIN s.info PROVE Converts(s, s, d)
  <2>1. Grows(s, s, {}) /\ Grows(s, s, {NodeOf(d)})
    BY GrowsRefl, NoGrowth
  <2> QED BY <1>2, <1>11, <2>1 DEF Converts, Done
<1>12. ASSUME Failed(recv) PROVE Converts(s, recv, d)
  BY <1>3, <1>12, NoGrowth DEF Converts, Done
<1>13. Converts(s, q, d)
  BY <1>0, <1>4, <1>8, <1>9, <1>10, <1>11, <1>12
<1> QED BY <1>13 DEF q

(* A node is registered, and declared if it is the node of a type. *)
LEMMA NodeRegGrows ==
  ASSUME NEW s, NEW n \in Node, NEW g, NEW origin, Sound(s)
  PROVE  /\ Sound(RegisterNode(s, n, g, origin).pkg)
         /\ Grows(s, RegisterNode(s, n, g, origin).pkg, {n})
         /\ n \in DOMAIN RegisterNode(s, n, g, origin).pkg.info
         /\ RegisterNode(s, n, g, origin).pkg.tracked = s.tracked
<1> DEFINE r == RegisterNode(s, n, g, origin)
<1>1. Sound(r.pkg) /\ Grows(s, r.pkg, {n})
  BY RegisterNodeSound, RegisterNodeGrows DEF Sound
<1>2. n \in DOMAIN r.pkg.info /\ r.pkg.tracked = s.tracked
  <2>1. CASE n \in DOMAIN s.info
    <3>1. r.pkg = s
      BY <2>1 DEF RegisterNode
    <3> QED BY <2>1, <3>1
  <2>2. CASE n \notin DOMAIN s.info
    <3>0. IsPkg(s)
      BY DEF Sound
    <3>1. r.pkg = Register(s, n, g) /\ ~r.exist
      BY <2>2, <3>0, RegisterNodeNew
    <3>2. n \in DOMAIN Register(s, n, g).info
      BY RegisterGrows DEF Sound
    <3>3. Register(s, n, g).tracked = s.tracked
      BY <3>0, RegisterIs
    <3> QED BY <3>1, <3>2, <3>3
  <2> QED BY <2>1, <2>2
<1> QED BY <1>1, <1>2

LEMMA DeclMadeGrows ==
  ASSUME NEW s, NEW n \in Node, NEW c \in CName, NEW nm, Sound(s)
  PROVE  LET q == EmptyTypeDecl(CollectNameMapping(s, c, nm), nm, n)
         IN  /\ Sound(q) /\ Grows(s, q, {n}) /\ q.tracked = s.tracked
             /\ ~Failed(q) => n \in DOMAIN q.types /\ q.types[n].file = q.cur
<1> DEFINE m == CollectNameMapping(s, c, nm)
           q == EmptyTypeDecl(m, nm, n)
<1>1. Sound(m) /\ Grows(s, m, {}) /\ m.tracked = s.tracked
  BY CollectSound, CollectGrows DEF Sound
<1> HIDE DEF m
<1>2. Sound(q) /\ Grows(m, q, {n}) /\ q.tracked = m.tracked
  BY <1>1, EmptyTypeDeclSound, EmptyTypeDeclGrows, EmptyTypeDeclIs DEF Sound
<1>3. ~Failed(q) => n \in DOMAIN q.types /\ q.types[n].file = q.cur
  BY <1>1, EmptyTypeDeclSound DEF Extends
<1> HIDE DEF q
<1>4. Grows(s, q, {n})
  BY <1>1, <1>2, GrowsTrans
<1> QED BY <1>1, <1>2, <1>3, <1>4 DEF q, m

LEMMA NewEnumTypeDeclGrows ==
  ASSUME NEW s, NEW d \in Decls, d.kind = "Enum", Sound(s)
  PROVE  /\ Grows(s, NewEnumTypeDecl(s, d), {NodeOf(d)})
         /\ ~Failed(NewEnumTypeDecl(s, d)) /\ d.name # NoName =>
              NodeOf(d) \in DOMAIN NewEnumTypeDecl(s, d).info
<1> DEFINE c == d.name
           n == [name |-> c, kind |-> "Enum"]
           r == RegisterNode(s, n, TypeGo[c], TRUE)
           mapped == CollectNameMapping(r.pkg, c, r.name)
           empty == EmptyTypeDecl(mapped, r.name, n)
           inited == InitType(empty, n, "enum", NoNode)
           named == Named(inited, r.name, c, n)
           items == EnumItems(named, d.refs)
           fail == Fail(r.pkg, "defined")
           q == NewEnumTypeDecl(s, d)
<1>0. q = IF c = NoName THEN EnumItems(s, d.refs)
          ELSE IF r.bad THEN fail
          ELSE IF r.exist THEN s
          ELSE items
  BY DEF NewEnumTypeDecl, Named
<1>1. RefsOK(d.refs) /\ d.name \in CName \cup {NoName}
  BY DeclFacts
<1>2. n = NodeOf(d)
  BY DEF NodeOf
<1>3. CASE c = NoName
  <2>1. q = EnumItems(s, d.refs)
    BY <1>0, <1>3
  <2> HIDE DEF q
  <2>2. Grows(s, q, {})
    BY <1>1, <2>1, EnumItemsGrows
  <2> QED BY <1>3, <2>2, NoGrowth DEF q
<1>4. CASE c # NoName
  <2>1. n \in Node
    BY <1>1, <1>4 DEF Node, Kind
  <2>2. r.exist => n \in DOMAIN s.info
    BY DEF RegisterNode
  <2> HIDE DEF n, q, c
  <2>3. Sound(r.pkg) /\ Grows(s, r.pkg, {n}) /\ n \in DOMAIN r.pkg.info
    BY <2>1, NodeRegGrows, Zenon
  <2> HIDE DEF r
  <2>4. Failed(fail) /\ Grows(s, fail, {n})
    <3>1. Grows(r.pkg, fail, {}) /\ Failed(fail)
      BY <2>3, FailGrows DEF Sound
    <3> HIDE DEF fail
    <3> QED BY <2>3, <3>1, GrowsTrans
  <2> HIDE DEF fail
  <2>5. /\ Sound(empty) /\ Grows(r.pkg, empty, {n})
        /\ ~Failed(empty) => n \in DOMAIN empty.types /\ empty.types[n].file = empty.cur
    BY <1>1, <1>4, <2>1, <2>3, DeclMadeGrows DEF c
  <2> HIDE DEF empty
  <2>6. Sound(inited) /\ Grows(empty, inited, {})
    <3>1. "enum" \in Defs
      BY DEF Defs
    <3> QED BY <2>5, <3>1, InitTypeSound, InitTypeGrows DEF Sound
  <2> HIDE DEF inited
  <2>7. Sound(named) /\ Grows(inited, named, {})
    BY <2>1, <2>6, SubstSound, NamedGrows DEF Named, Sound
  <2> HIDE DEF named
  <2>8. Grows(named, items, {})
    BY <1>1, <2>7, EnumItemsGrows
  <2> HIDE DEF items
  <2>9. Grows(r.pkg, items, {n})
    <3>1. Grows(r.pkg, inited, {n})
      BY <2>5, <2>6, GrowsTrans
    <3>2. Grows(inited, items, {})
      BY <2>7, <2>8, GrowsTrans
    <3> QED BY <3>1, <3>2, GrowsTrans
  <2>10. Grows(s, items, {n}) /\ (~Failed(items) => n \in DOMAIN items.info)
    <3>1. Grows(s, items, {n})
      BY <2>3, <2>9, GrowsTrans
    <3> QED BY <2>3, <2>9, <3>1 DEF Grows
  <2>11. Grows(s, s, {n})
    BY GrowsRefl, NoGrowth
  <2>12. Grows(s, q, {n}) /\ (~Failed(q) => n \in DOMAIN q.info)
    BY <1>0, <1>4, <2>2, <2>4, <2>10, <2>11 DEF c
  <2> QED BY <1>2, <2>12 DEF q
<1> QED BY <1>3, <1>4

(* What the scope has for a tag, once it has a name in the scope, and that *)
(* a tag the package knows has a type.                                     *)
LEMMA TagBound ==
  ASSUME NEW s, NEW c \in Tag, Good(s, {}), ~Failed(s), Names(s), NEW n \in DOMAIN s.types,
         n.name = c, c \in DOMAIN s.scope
  PROVE  s.scope[c].node = n
<1>1. /\ KindsOK(s.types) /\ OneType(s.types) /\ SubstByName(s.scope, s.types)
      /\ ScopeOK(s.scope) /\ OwnName(s.types, s.scope) /\ TypesOK(s.types)
  BY DEF Good, Apart, Sound
<1>2. n.kind = "Type" /\ c \notin DepName /\ n \in Node
  BY <1>1 DEF KindsOK, TypesOK
<1>3. n = TypeNode(c)
  BY <1>2 DEF TypeNode, Node
<1>4. CASE s.scope[c].how = "subst"
  <2>1. s.scope[c].node.name = c /\ s.scope[c].node \in DOMAIN s.types
    BY <1>1, <1>2, <1>4 DEF SubstByName
  <2> QED BY <1>1, <2>1 DEF OneType
<1>5. CASE s.scope[c].how # "subst"
  <2>1. s.info[n] = c
    BY <1>3, <1>5 DEF Names, TagsFree
  <2>2. s.types[n].go = c
    BY <2>1 DEF Names, TypesNamed
  <2>3. s.scope[c] = Own(n)
    BY <1>1, <2>2 DEF OwnName
  <2> QED BY <2>3 DEF Own
<1> QED BY <1>4, <1>5

LEMMA TagMet ==
  ASSUME NEW s, NEW c \in Tag, Good(s, {}), ~Failed(s), Names(s), Known(s, c)
  PROVE  HasType(s, c)
<1>1. /\ SubstByName(s.scope, s.types) /\ TrackedByName(s.tracked) /\ MapOK(s.tracked, s.types)
      /\ Registered(s, {})
  BY DEF Good, Apart, Sound, Live
<1>2. CASE c \in DOMAIN s.tracked
  BY <1>1, <1>2 DEF TrackedByName, MapOK, HasType
<1>3. CASE c \in DOMAIN s.scope /\ s.scope[c].how = "subst"
  BY <1>1, <1>3 DEF SubstByName, HasType
<1>4. CASE c \in DOMAIN s.scope /\ s.scope[c].how # "subst"
  <2>1. TypeNode(c) \in DOMAIN s.info
    BY <1>4 DEF Names, TagsFree
  <2>2. TypeNode(c).name = c /\ TypeNode(c).kind = "Type"
    BY TagFacts
  <2>3. TypeNode(c) \in DOMAIN s.types
    BY <1>1, <2>1, <2>2 DEF Registered, TypeKind
  <2> QED BY <2>2, <2>3 DEF HasType
<1> QED BY <1>2, <1>3, <1>4 DEF Known

(* What the conversion of any declaration leaves. *)
Follows(s, q, N) ==
  ~Failed(q) =>
     /\ \A n : n.kind \in RefKind /\ Settled(q, n) => Settled(s, n) \/ n \in N
     /\ \A n \in DOMAIN q.types : n \in DOMAIN s.types \/ n.kind = "Type" \/ n \in N
Leaves(s, q, d) ==
  /\ AliasOK(q.types) /\ (~Failed(q) => Ordered(q))
  /\ Follows(s, q, {NodeOf(d)})
  /\ ~Failed(q) /\ d.name # NoName =>
       /\ NodeOf(d) \in DOMAIN q.info
       /\ d.kind = "Type" /\ d.full => d.name \notin DOMAIN q.tracked
  /\ d.kind \in RefKind => \/ Follows(s, q, {})
                           \/ AllKnown(q, d.refs) /\ (d.kind = "Type" => d.full)

LEMMA AliasKept ==
  ASSUME NEW s, NEW q, AliasOK(s.types), Plain(s.types, q.types), Keeps(s, q)
  PROVE  AliasOK(q.types)
  BY DEF AliasOK, Plain, Keeps

LEMMA OrderedKept ==
  ASSUME NEW s, NEW q, Ordered(s), Lists(s.incs, q.incs), Keeps(s, q), Sound(s), Sound(q)
  PROVE  Ordered(q)
<1>1. Len(s.incs) \in Nat /\ Len(q.incs) \in Nat
  BY DEF Sound, ListOK
<1> SUFFICES ASSUME NEW i \in 1..Len(q.incs), q.incs[i].ref # NoName
             PROVE  \E n \in DOMAIN q.types :
                       /\ n.name = q.incs[i].ref
                       /\ q.types[n].inits > 0 \/ \E j \in 1..(i - 1) : q.incs[j].node = n
  BY DEF Ordered
<1>2. i \in 1..Len(s.incs) /\ q.incs[i] = s.incs[i]
  BY DEF Lists
<1>3. PICK n \in DOMAIN s.types :
             /\ n.name = s.incs[i].ref
             /\ s.types[n].inits > 0 \/ \E j \in 1..(i - 1) : s.incs[j].node = n
  BY <1>2 DEF Ordered
<1>4. \A j \in 1..(i - 1) : q.incs[j] = s.incs[j]
  BY <1>1, <1>2 DEF Lists
<1> QED BY <1>2, <1>3, <1>4 DEF Keeps

LEMMA GrowsFollows ==
  ASSUME NEW s, NEW q, NEW N, Grows(s, q, N)
  PROVE  Follows(s, q, N)
  BY DEF Grows, Follows

LEMMA GrowsLeaves ==
  ASSUME NEW s, NEW q, NEW N, Grows(s, q, N), Keeps(s, q), Good(s, {}), Good(q, {}),
         AliasOK(s.types), Ordered(s)
  PROVE  AliasOK(q.types) /\ (~Failed(q) => Ordered(q))
<1>1. Plain(s.types, q.types) /\ (~Failed(q) => Lists(s.incs, q.incs))
  BY DEF Grows
<1> QED BY <1>1, AliasKept, OrderedKept DEF Good

PlainReg(s, n, c) == RegisterNode(s, n, TypeGo[c], TRUE)
PlainMade(s, n, c) ==
  LET r == PlainReg(s, n, c)
  IN  Named(EmptyTypeDecl(CollectNameMapping(r.pkg, c, r.name), r.name, n), r.name, c, n)

(* A typedef that is new is declared: what it names is as it was. *)
LEMMA TypedefNamed ==
  ASSUME CSpaces, NEW s, NEW n \in Node, NEW c \in CName, IsTypeNode(n), n.name = c,
         n.kind = "Typedef", Good(s, {}), ~Failed(s)
  PROVE  /\ Grows(s, PlainMade(s, n, c), {n}) /\ PlainMade(s, n, c).tracked = s.tracked
         /\ PlainReg(s, n, c).pkg.types = s.types /\ IsPkg(PlainReg(s, n, c).pkg)
         /\ PlainReg(s, n, c).exist => n \in DOMAIN s.types
         /\ ~PlainReg(s, n, c).bad /\ ~PlainReg(s, n, c).exist =>
              /\ Good(PlainMade(s, n, c), {n}) /\ Keeps(s, PlainMade(s, n, c))
              /\ ~Failed(PlainMade(s, n, c)) => /\ n \in DOMAIN PlainMade(s, n, c).types
                                                /\ n \in DOMAIN PlainMade(s, n, c).info
<1> DEFINE r == PlainReg(s, n, c)
           q == PlainMade(s, n, c)
<1>1. r = RegisterNode(s, n, TypeGo[c], TRUE)
  BY DEF PlainReg
<1>2. q = Named(EmptyTypeDecl(CollectNameMapping(r.pkg, c, r.name), r.name, n), r.name, c, n)
  BY DEF PlainMade
<1> HIDE DEF r, q
<1> DEFINE w == r.pkg
           nm == r.name
           empty == EmptyTypeDecl(CollectNameMapping(w, c, nm), nm, n)
           x == Named(empty, nm, c, n)
<1>3. /\ Sound(r.pkg) /\ r.pkg.types = s.types /\ r.pkg.tracked = s.tracked
      /\ ~Failed(r.pkg) /\ Keeps(s, r.pkg) /\ (r.exist => n \in DOMAIN s.types)
      /\ ~r.exist /\ ~r.bad =>
           /\ Good(r.pkg, {n}) /\ n \in DOMAIN r.pkg.info /\ n.name \notin DepName
           /\ \A m \in DOMAIN s.types : m.name # n.name
  <2> DEFINE g == TypeGo[n.name]
             y == RegisterNode(s, n, g, TRUE)
  <2>1. r = y
    BY <1>1
  <2>2. /\ Sound(y.pkg) /\ Apart(y.pkg) /\ Keeps(s, y.pkg)
        /\ y.pkg.types = s.types /\ y.pkg.tracked = s.tracked /\ y.pkg.scope = s.scope
        /\ ~Failed(y.pkg)
        /\ y.exist => n \in DOMAIN s.types /\ y.pkg = s /\ y.name = s.info[n]
        /\ ~y.exist /\ ~y.bad =>
             /\ Good(y.pkg, {n}) /\ n \in DOMAIN y.pkg.info /\ y.pkg.info[n] = y.name
             /\ n.name \notin DOMAIN s.scope
             /\ \A m \in DOMAIN s.types : m.name # n.name
             /\ n.name \notin DOMAIN s.tracked /\ n.name \notin DepName
    <3> HIDE DEF g
    <3> QED BY RegisterTypeGood
  <2> HIDE DEF y
  <2> QED BY <2>1, <2>2
<1>4. Sound(w) /\ Grows(s, w, {n}) /\ n \in DOMAIN w.info /\ w.tracked = s.tracked
  <2> DEFINE g == TypeGo[c]
             y == RegisterNode(s, n, g, TRUE)
  <2>1. Sound(s) /\ w = y.pkg
    BY <1>1 DEF Good
  <2> HIDE DEF g, w
  <2>2. Sound(y.pkg) /\ Grows(s, y.pkg, {n}) /\ n \in DOMAIN y.pkg.info
    BY <2>1, NodeRegGrows, Zenon
  <2> HIDE DEF y
  <2> QED BY <1>3, <2>1, <2>2 DEF w
<1>5. ASSUME ~r.bad, ~r.exist
      PROVE  Good(x, {n}) /\ Keeps(w, x) /\ (~Failed(x) => n \in DOMAIN x.types)
  <2>1. /\ Good(w, {n}) /\ ~Failed(w) /\ c \notin DepName /\ n \in DOMAIN w.info
        /\ \A m \in DOMAIN w.types : m.name # c
    BY <1>3, <1>5
  <2> HIDE DEF w, nm
  <2>2. /\ Good(x, {n}) /\ Keeps(w, x)
        /\ ~Failed(x) => n \in DOMAIN x.types /\ c \in DOMAIN x.scope /\ x.scope[c].node = n
    BY <2>1, TypedefMadeGood
  <2> HIDE DEF x
  <2> QED BY <2>2
<1>6. Keeps(s, w) /\ q = x
  BY <1>3, <1>2
<1> HIDE DEF w, nm
<1>7. Sound(empty) /\ Grows(w, empty, {n}) /\ empty.tracked = w.tracked
  BY <1>4, DeclMadeGrows
<1> HIDE DEF empty
<1>8. Grows(empty, x, {}) /\ x.tracked = empty.tracked
  BY <1>7, NamedGrows, SubstSound DEF Named, Sound
<1> HIDE DEF x
<1>9. Grows(w, x, {n})
  BY <1>7, <1>8, GrowsTrans
<1>10. Grows(s, x, {n}) /\ (~Failed(x) => n \in DOMAIN x.info)
  <2>1. Grows(s, x, {n})
    BY <1>4, <1>9, GrowsTrans
  <2> QED BY <1>4, <1>9, <2>1 DEF Grows
<1>11. ~r.bad /\ ~r.exist => Keeps(s, x)
  BY <1>5, <1>6, KeepsTrans
<1> QED BY <1>3, <1>4, <1>5, <1>6, <1>7, <1>8, <1>10, <1>11 DEF Sound, r, q

LEMMA TypedefTypes ==
  ASSUME CSpaces, NEW s, NEW n \in Node, NEW c \in CName, IsTypeNode(n), n.name = c,
         n.kind = "Typedef", Good(s, {}), ~Failed(s)
  PROVE  \A m \in DOMAIN PlainMade(s, n, c).types : m \in DOMAIN s.types \/ m = n
<1> DEFINE r == PlainReg(s, n, c)
           w == r.pkg
           nm == r.name
           mapped == CollectNameMapping(w, c, nm)
           empty == EmptyTypeDecl(mapped, nm, n)
           q == PlainMade(s, n, c)
<1>1. q = IF nm # c THEN SubstObj(empty, c, n) ELSE empty
  BY DEF PlainMade, Named
<1>2. w.types = s.types /\ Sound(w)
  <2>1. Sound(w)
    <3> DEFINE g == TypeGo[c]
               y == RegisterNode(s, n, g, TRUE)
    <3>1. Sound(s) /\ w = y.pkg
      BY DEF Good, PlainReg
    <3> HIDE DEF g, w
    <3>2. Sound(y.pkg) /\ Grows(s, y.pkg, {n}) /\ n \in DOMAIN y.pkg.info
      BY <3>1, NodeRegGrows, Zenon
    <3> HIDE DEF y
    <3> QED BY <3>1, <3>2
  <2>2. w.types = s.types
    BY TypedefNamed
  <2> QED BY <2>1, <2>2
<1> HIDE DEF r, w, nm
<1>3. Sound(mapped) /\ mapped.types = w.types
  BY <1>2, CollectSound, CollectGrows DEF Sound, SameCore
<1> HIDE DEF mapped
<1>4. Sound(empty)
  BY <1>3, EmptyTypeDeclSound
<1>5. empty.types = mapped.types \/ empty.types = Bind(mapped.types, n, NewDef(mapped, nm))
  BY <1>3, EmptyTypeDeclIs DEF Sound
<1> HIDE DEF empty, q
<1>6. q.types = empty.types
  <2>1. SubstObj(empty, c, n).types = empty.types
    BY <1>4, SubstSound
  <2> QED BY <1>1, <2>1
<1>7. \A m \in DOMAIN empty.types : m \in DOMAIN mapped.types \/ m = n
  BY <1>5, BindDomain
<1>8. \A m \in DOMAIN q.types : m \in DOMAIN s.types \/ m = n
  BY <1>2, <1>3, <1>6, <1>7
<1> QED BY <1>8 DEF q

LEMMA FailLeaves ==
  ASSUME NEW s, NEW q, NEW d, Failed(q), AliasOK(q.types)
  PROVE  Leaves(s, q, d)
  BY DEF Leaves, Follows

(* What a typedef names directly, if it is not incomplete, is built, and   *)
(* the scope has it.                                                       *)
LEMMA ReferentBuilt ==
  ASSUME NEW s, NEW c \in CName, Good(s, {}), ~Failed(s), Names(s), DepsBound(s.scope),
         PlainBound(s), HasType(s, c), c \notin DOMAIN s.tracked
  PROVE  /\ c \in DOMAIN s.scope
         /\ \/ s.scope[c].node.kind = "Dep"
            \/ s.scope[c].node \in DOMAIN s.types /\ s.types[s.scope[c].node].inits > 0
<1>1. CASE c \in DepName
  BY <1>1 DEF DepsBound
<1>2. CASE c \notin DepName
  <2>1. PICK m \in DOMAIN s.types : m.name = c
    BY <1>2 DEF HasType
  <2>2. Tracks(s, {}, {}) /\ Placed(s, {}) /\ Once(s.types) /\ KindsOK(s.types)
    BY DEF Good, Live, Apart
  <2>3. s.types[m].inits > 0
    BY <2>1, <2>2 DEF Tracks, Once
  <2>4. c \in DOMAIN s.scope
    BY <2>1, <2>2 DEF Placed, Known
  <2>5. s.scope[c].node = m
    <3>1. CASE m.kind = "Type"
      <4>1. c \in Tag
        BY <2>1, <2>2, <3>1 DEF KindsOK
      <4> QED BY <2>1, <2>4, <4>1, TagBound
    <3>2. CASE m.kind # "Type"
      BY <2>1, <3>2 DEF PlainBound
    <3> QED BY <3>1, <3>2
  <2> QED BY <2>3, <2>4, <2>5
<1> QED BY <1>1, <1>2

LEMMA WaitsLeaves ==
  ASSUME NEW s, NEW y, NEW d, d.kind = "Typedef", DOMAIN d.refs = {1}, Good(s, {}),
         Good(y, {NodeOf(d)}), ~Failed(y), Grows(s, y, {NodeOf(d)}), Keeps(s, y),
         NodeOf(d) \in DOMAIN y.info, AliasOK(s.types), Ordered(s), d.refs[1] \in DOMAIN y.tracked,
         Good(AddIncomplete(y, NodeOf(d), d.refs[1]), {})
  PROVE  Leaves(s, AddIncomplete(y, NodeOf(d), d.refs[1]), d)
<1> DEFINE n == NodeOf(d)
           ref == d.refs[1]
           e == [node |-> n, ref |-> ref]
           q == AddIncomplete(y, n, ref)
<1>1. n.kind = "Typedef"
  BY DEF NodeOf
<1>2. /\ q.info = y.info /\ q.scope = y.scope /\ q.types = y.types /\ q.err = y.err
      /\ q.incs = Append(y.incs, e) /\ q.tracked = Bind(y.tracked, n.name, n)
  BY AddIncompleteIs DEF Good, Sound
<1> HIDE DEF n, q
<1>3. Sound(s) /\ Sound(y) /\ Sound(q) /\ Len(y.incs) \in Nat /\ y.incs \in Seq(Entry)
  BY DEF Good, Sound, ListOK, q, n
<1>4. AliasOK(q.types)
  BY <1>2, AliasKept DEF Grows
<1>5. Ordered(y)
  BY <1>3, OrderedKept DEF Grows, n
<1>6. Ordered(q)
  <2>1. e.node = n /\ e.ref = ref
    OBVIOUS
  <2> HIDE DEF e
  <2>2. e \in Entry
    <3>1. Len(q.incs) = Len(y.incs) + 1 /\ q.incs[Len(y.incs) + 1] = e
      BY <1>2, <1>3
    <3> QED BY <1>3, <3>1 DEF Sound, ListOK
  <2>3. /\ Len(q.incs) = Len(y.incs) + 1 /\ q.incs[Len(y.incs) + 1] = e
        /\ \A i \in 1..Len(y.incs) : q.incs[i] = y.incs[i]
    BY <1>2, <1>3, <2>2
  <2>4. /\ y.tracked[ref] \in DOMAIN y.types /\ y.tracked[ref].name = ref
        /\ \E j \in 1..Len(y.incs) : y.incs[j].node = y.tracked[ref]
    <3>1. Listed(y) /\ TrackedByName(y.tracked) /\ MapOK(y.tracked, y.types)
      BY DEF Good, Live, Apart, Sound
    <3> QED BY <3>1 DEF Listed, TrackedByName, MapOK
  <2> SUFFICES ASSUME NEW i \in 1..Len(q.incs), q.incs[i].ref # NoName
               PROVE  \E m \in DOMAIN q.types :
                         /\ m.name = q.incs[i].ref
                         /\ q.types[m].inits > 0 \/ \E j \in 1..(i - 1) : q.incs[j].node = m
    BY DEF Ordered
  <2>5. CASE i = Len(y.incs) + 1
    <3>1. 1..(i - 1) = 1..Len(y.incs) /\ q.incs[i].ref = ref
      BY <1>3, <2>1, <2>3, <2>5
    <3> QED BY <1>2, <2>3, <2>4, <3>1
  <2>6. CASE i \in 1..Len(y.incs)
    <3>1. \A j \in 1..(i - 1) : q.incs[j] = y.incs[j]
      BY <1>3, <2>3, <2>6
    <3>2. q.incs[i] = y.incs[i]
      BY <2>3, <2>6
    <3>3. PICK m \in DOMAIN y.types :
             /\ m.name = y.incs[i].ref
             /\ y.types[m].inits > 0 \/ \E j \in 1..(i - 1) : y.incs[j].node = m
      BY <1>5, <2>6, <3>2 DEF Ordered
    <3> QED BY <1>2, <3>1, <3>2, <3>3
  <2> QED BY <1>3, <2>3, <2>5, <2>6
<1>7. \A c : c \in DOMAIN y.tracked => c \in DOMAIN q.tracked
  BY <1>2, BindDomain
<1>8. Follows(s, q, {n})
  <2>1. \A k : Settled(q, k) => Settled(y, k)
    BY <1>2, <1>7 DEF Settled
  <2> QED BY <1>2, <2>1 DEF Follows, Grows, Failed, n
<1>9. AllKnown(q, d.refs)
  BY <1>7 DEF AllKnown, Known
<1> QED BY <1>2, <1>4, <1>6, <1>8, <1>9 DEF Leaves, n, q

LEMMA AliasLeaves ==
  ASSUME NEW s, NEW z, NEW q, NEW t, NEW d, d.kind = "Typedef", Good(s, {}), Good(q, {}),
         Keeps(s, z), Keeps(s, q), Grows(s, z, {NodeOf(d)}), AllKnown(z, d.refs), ~Failed(z),
         NodeOf(d) \in DOMAIN z.info, AliasOK(s.types), Ordered(s),
         q.info = z.info, q.incs = z.incs, q.tracked = z.tracked, q.scope = z.scope,
         q.err = z.err, NodeOf(d) \in DOMAIN z.types, q.types = Bind(z.types, NodeOf(d), t),
         t.inits > 0,
         \/ t.of = NoNode \/ t.of.kind = "Dep"
         \/ t.of \in DOMAIN z.types /\ z.types[t.of].inits > 0
  PROVE  Leaves(s, q, d)
<1> DEFINE n == NodeOf(d)
<1>1. n.kind = "Typedef"
  BY DEF NodeOf
<1>2. /\ \A m : m \in DOMAIN q.types <=> m \in DOMAIN z.types
      /\ \A m \in DOMAIN z.types : m # n => q.types[m] = z.types[m]
      /\ q.types[n] = t
  BY BindDomain, BindAt
<1> HIDE DEF n
<1>3. AliasOK(z.types)
  BY AliasKept DEF Grows
<1>4. \A m \in DOMAIN z.types : z.types[m].inits > 0 => q.types[m].inits > 0
  BY <1>2
<1>5. AliasOK(q.types)
  <2> SUFFICES ASSUME NEW m \in DOMAIN q.types, q.types[m].inits > 0, q.types[m].of # NoNode
               PROVE  \/ q.types[m].of.kind = "Dep"
                      \/ q.types[m].of \in DOMAIN q.types /\ q.types[q.types[m].of].inits > 0
    BY DEF AliasOK
  <2>1. CASE m = n
    BY <1>2, <1>4, <2>1
  <2>2. CASE m # n
    BY <1>2, <1>3, <1>4, <2>2 DEF AliasOK
  <2> QED BY <2>1, <2>2
<1>6. Ordered(q)
  <2>1. Lists(s.incs, q.incs)
    BY DEF Grows
  <2> QED BY <2>1, OrderedKept DEF Good
<1>7. Follows(s, q, {n})
  BY <1>2 DEF Follows, Grows, Settled, Failed, n
<1>8. AllKnown(q, d.refs)
  BY DEF AllKnown, Known, Failed
<1> QED BY <1>5, <1>6, <1>7, <1>8 DEF Leaves, n

LEMMA NewTypedefDeclIs ==
  ASSUME NEW s, NEW d, d.kind = "Typedef", NEW third
  PROVE  LET n == NodeOf(d)
             r == PlainReg(s, n, d.name)
             named == PlainMade(s, n, d.name)
             converted == ConvertRefs(named, d.refs, third)
         IN  NewTypedefDecl(s, d, third) =
               IF r.bad THEN Fail(r.pkg, "defined")
               ELSE IF r.exist THEN s
               ELSE IF Failed(named) THEN named
               ELSE IF Deferred(named, d) THEN AddIncomplete(named, n, d.refs[1])
               ELSE IF Failed(converted) THEN converted
               ELSE InitType(converted, n, "alias",
                             IF d.direct THEN Target(converted, d.refs[1]) ELSE NoNode)
  BY DEF NewTypedefDecl, Named, NodeOf, PlainReg, PlainMade

(* The conversion of a typedef: what it names is built, or it waits.       *)
LEMMA NewTypedefDeclLeaves ==
  ASSUME CSpaces, NEW s, NEW d \in Decls, d.kind = "Typedef", NEW third, Good(s, {}), ~Failed(s),
         \A i \in DOMAIN d.refs : Resolvable(s, d.refs[i], third),
         Names(s), DepsBound(s.scope), PlainBound(s), AliasOK(s.types), Ordered(s),
         d.direct => HasType(s, d.refs[1]) \/ d.refs[1] \in third \cap Tag,
         ~Failed(NewTypedefDecl(s, d, third)) => Names(NewTypedefDecl(s, d, third))
  PROVE  Leaves(s, NewTypedefDecl(s, d, third), d)
<1> DEFINE c == d.name
           n == NodeOf(d)
           r == PlainReg(s, n, c)
           named == PlainMade(s, n, c)
           converted == ConvertRefs(named, d.refs, third)
           of == IF d.direct THEN Target(converted, d.refs[1]) ELSE NoNode
           fail == Fail(r.pkg, "defined")
           waits == AddIncomplete(named, n, d.refs[1])
           alias == InitType(converted, n, "alias", of)
           q == NewTypedefDecl(s, d, third)
<1>0. q = IF r.bad THEN fail
          ELSE IF r.exist THEN s
          ELSE IF Failed(named) THEN named
          ELSE IF Deferred(named, d) THEN waits
          ELSE IF Failed(converted) THEN converted
          ELSE alias
  BY NewTypedefDeclIs
<1>1. c \in CName /\ RefsOK(d.refs) /\ (d.direct => DOMAIN d.refs = {1})
  BY DeclFacts
<1>2. /\ IsTypeNode(n) /\ n.name = c /\ n.kind = "Typedef" /\ c \notin Tag /\ n \in Node
  BY <1>1, DeclNode DEF NodeOf, IsTypeNode
<1>3. Good(q, {}) /\ Keeps(s, q) /\ (~Failed(q) => Names(q))
  BY NewTypedefDeclGood
<1> HIDE DEF n, q, c
<1>4. /\ Grows(s, named, {n}) /\ named.tracked = s.tracked
      /\ r.pkg.types = s.types /\ IsPkg(r.pkg) /\ (r.exist => n \in DOMAIN s.types)
      /\ ~r.bad /\ ~r.exist =>
           /\ Good(named, {n}) /\ Keeps(s, named)
           /\ ~Failed(named) => n \in DOMAIN named.types /\ n \in DOMAIN named.info
  BY <1>1, <1>2, TypedefNamed
<1>5. r.exist => n \in DOMAIN s.info
  <2> HIDE DEF r
  <2> QED BY <1>4 DEF Good, Live, Registered
<1> HIDE DEF r
<1>6. CASE r.bad
  <2>1. fail.types = s.types /\ Failed(fail)
    BY <1>4, FailIs DEF Failed
  <2> HIDE DEF fail
  <2>2. q = fail
    BY <1>0, <1>6
  <2> QED BY <2>1, <2>2, FailLeaves DEF q
<1>7. CASE ~r.bad /\ r.exist
  <2>1. q = s
    BY <1>0, <1>7
  <2>2. Follows(s, s, {}) /\ Follows(s, s, {n})
    BY DEF Follows
  <2>3. Leaves(s, s, d)
    BY <1>2, <1>5, <1>7, <2>2 DEF Leaves, n
  <2> QED BY <2>1, <2>3 DEF q
<1>8. ASSUME ~r.bad, ~r.exist, Failed(named) PROVE Leaves(s, named, d)
  <2> HIDE DEF named
  <2>1. AliasOK(named.types)
    BY <1>4, <1>8, AliasKept DEF Grows
  <2> QED BY <1>8, <2>1, FailLeaves
<1>9. ASSUME ~r.bad, ~r.exist, ~Failed(named), Deferred(named, d)
      PROVE  Leaves(s, waits, d)
  <2>1. q = waits /\ DOMAIN d.refs = {1} /\ d.refs[1] \in DOMAIN named.tracked
    BY <1>0, <1>1, <1>9 DEF Deferred
  <2> HIDE DEF named
  <2> QED BY <1>2, <1>3, <1>4, <1>9, <2>1, WaitsLeaves DEF n
<1>10. ASSUME ~r.bad, ~r.exist, ~Failed(named)
       PROVE  /\ Good(converted, {n}) /\ Keeps(s, converted) /\ Keeps(named, converted)
              /\ Grows(s, converted, {n}) /\ AllKnown(converted, d.refs)
              /\ Grows(named, converted, {})
  <2>1. NoTag({n})
    BY <1>2 DEF NoTag
  <2>2. \A i \in DOMAIN d.refs : Resolvable(named, d.refs[i], third)
    BY <1>4, <1>10, ResolvableKept
  <2> HIDE DEF named
  <2>3. Good(converted, {n}) /\ Keeps(named, converted)
    BY <1>1, <1>4, <1>10, <2>1, <2>2, ConvertRefsGood
  <2>4. Grows(named, converted, {}) /\ AllKnown(converted, d.refs)
    BY <1>1, <1>4, <1>10, ConvertRefsGrows DEF Good
  <2> HIDE DEF converted
  <2> QED BY <1>4, <1>10, <2>3, <2>4, KeepsTrans, GrowsTrans
<1>11. ASSUME ~r.bad, ~r.exist, ~Failed(named), Failed(converted)
       PROVE  Leaves(s, converted, d)
  <2>1. Keeps(s, converted) /\ Grows(s, converted, {n})
    BY <1>10, <1>11
  <2> HIDE DEF converted
  <2>2. AliasOK(converted.types)
    BY <2>1, AliasKept DEF Grows
  <2> QED BY <1>11, <2>2, FailLeaves
<1>12. ASSUME ~r.bad, ~r.exist, ~Failed(named), ~Deferred(named, d), ~Failed(converted)
       PROVE  /\ q = alias /\ n \in DOMAIN converted.types /\ n \in DOMAIN converted.info
              /\ alias.info = converted.info /\ alias.incs = converted.incs
              /\ alias.tracked = converted.tracked /\ alias.scope = converted.scope
              /\ alias.err = converted.err
              /\ alias.types = Bind(converted.types, n, DefAs(converted, n, "alias", of))
  <2>1. Good(converted, {n}) /\ Keeps(named, converted) /\ Grows(named, converted, {})
    BY <1>10, <1>12
  <2>2. n \in DOMAIN named.types /\ n \in DOMAIN named.info
    BY <1>4, <1>12
  <2>3. q = alias
    BY <1>0, <1>12
  <2> HIDE DEF converted, of, named
  <2>4. n \in DOMAIN converted.types /\ n \in DOMAIN converted.info
    BY <1>12, <2>1, <2>2 DEF Keeps, Grows
  <2> QED BY <1>12, <2>1, <2>3, <2>4, InitTypeIs DEF Good, Sound
<1>13. ASSUME ~r.bad, ~r.exist, ~Failed(named), ~Deferred(named, d), ~Failed(converted), d.direct
       PROVE  HasType(s, d.refs[1])
  <2> DEFINE a == d.refs[1]
  <2> SUFFICES ASSUME ~HasType(s, a) PROVE FALSE
    OBVIOUS
  <2>1. a \in third /\ a \in Tag
    BY <1>13
  <2>2. converted = LookupType(named, a, third)
    BY <1>1, <1>13 DEF ConvertRefs
  <2>3. Good(named, {n})
    BY <1>4, <1>13
  <2> HIDE DEF a, named
  <2>4. a \in DOMAIN named.scope
    <3> SUFFICES ASSUME a \notin DOMAIN named.scope PROVE Failed(converted)
      BY <1>13
    <3>1. Failed(Fail(named, "third"))
      BY <2>3, FailGrows DEF Good, Sound
    <3> QED BY <1>13, <2>1, <2>2, <3>1 DEF LookupType
  <2>5. converted.types = named.types /\ converted.scope = named.scope
    BY <1>13, <2>2, <2>3, <2>4, KnownLookup DEF Known, Good, Sound
  <2> HIDE DEF converted, of
  <2>6. q = alias /\ ~Failed(q) /\ a \in DOMAIN q.scope
    BY <1>12, <1>13, <2>4, <2>5 DEF Failed
  <2>7. \A m \in DOMAIN q.types : m \in DOMAIN s.types \/ m = n
    <3>1. \A m \in DOMAIN named.types : m \in DOMAIN s.types \/ m = n
      BY <1>1, <1>2, TypedefTypes DEF named
    <3> QED BY <1>12, <1>13, <2>5, <2>6, <3>1, BindDomain
  <2>8. HasType(q, a)
    BY <1>3, <2>1, <2>6, TagMet DEF Known
  <2> QED BY <1>2, <2>1, <2>7, <2>8 DEF HasType
<1>14. ASSUME ~r.bad, ~r.exist, ~Failed(named), ~Deferred(named, d), ~Failed(converted), d.direct
       PROVE  of.kind = "Dep" \/ (of \in DOMAIN converted.types /\ converted.types[of].inits > 0)
  <2> DEFINE a == d.refs[1]
  <2>1. a \in CName /\ a \notin DOMAIN s.tracked /\ HasType(s, a)
    BY <1>1, <1>4, <1>13, <1>14 DEF RefsOK, Deferred
  <2> HIDE DEF a
  <2>2. /\ a \in DOMAIN s.scope
        /\ \/ s.scope[a].node.kind = "Dep"
           \/ s.scope[a].node \in DOMAIN s.types /\ s.types[s.scope[a].node].inits > 0
    BY <2>1, ReferentBuilt
  <2>3. Keeps(s, converted)
    BY <1>10, <1>14
  <2> HIDE DEF converted
  <2>4. of = converted.scope[a].node
    BY <1>14, <2>2, <2>3 DEF Target, Keeps, a
  <2> QED BY <2>2, <2>3, <2>4 DEF Keeps
<1>15. ASSUME ~r.bad, ~r.exist, ~Failed(named), ~Deferred(named, d), ~Failed(converted)
       PROVE  Leaves(s, alias, d)
  <2> DEFINE t == DefAs(converted, n, "alias", of)
  <2>1. /\ Good(converted, {n}) /\ Keeps(s, converted) /\ Grows(s, converted, {n})
        /\ AllKnown(converted, d.refs)
    BY <1>10, <1>15
  <2>2. of = NoNode \/ of.kind = "Dep" \/ (of \in DOMAIN converted.types /\ converted.types[of].inits > 0)
    BY <1>14, <1>15
  <2>3. /\ q = alias /\ n \in DOMAIN converted.types /\ n \in DOMAIN converted.info
        /\ alias.info = converted.info /\ alias.incs = converted.incs
        /\ alias.tracked = converted.tracked /\ alias.scope = converted.scope
        /\ alias.err = converted.err /\ alias.types = Bind(converted.types, n, t)
    BY <1>12, <1>15
  <2> HIDE DEF converted, of, named
  <2>4. t.inits > 0 /\ t.of = of
    <3>1. converted.types[n].inits \in Nat
      BY <2>1, <2>3 DEF Good, Sound, TypesOK, IsTypeDecl
    <3> QED BY <3>1 DEF DefAs
  <2> HIDE DEF t, alias
  <2> QED BY <1>2, <1>3, <1>15, <2>1, <2>2, <2>3, <2>4, AliasLeaves DEF n
<1> HIDE DEF named, waits, alias, converted
<1>16. Leaves(s, q, d)
  BY <1>0, <1>6, <1>7, <1>8, <1>9, <1>11, <1>15 DEF q
<1> QED BY <1>16 DEF q

LEMMA ConvertsLeaves ==
  ASSUME NEW s, NEW q, NEW d, Good(s, {}), Good(q, {}), Keeps(s, q), AliasOK(s.types), Ordered(s),
         Converts(s, q, d)
  PROVE  Leaves(s, q, d)
<1>1. Grows(s, q, {NodeOf(d)}) /\ Done(q, d)
  BY DEF Converts
<1>2. AliasOK(q.types) /\ (~Failed(q) => Ordered(q)) /\ Follows(s, q, {NodeOf(d)})
  BY <1>1, GrowsLeaves, GrowsFollows
<1>3. Follows(s, q, {}) \/ (AllKnown(q, d.refs) /\ (d.kind = "Type" => d.full))
  BY GrowsFollows DEF Converts
<1> QED BY <1>1, <1>2, <1>3 DEF Leaves, Done

(* The conversion of a declaration that is not left out. *)
LEMMA NewDeclLeaves ==
  ASSUME CSpaces, NEW s, NEW d \in Decls, NEW third, Good(s, {}), ~Failed(s),
         d.kind # "Enum" => \A i \in DOMAIN d.refs : Resolvable(s, d.refs[i], third),
         Names(s), DepsBound(s.scope), PlainBound(s), AliasOK(s.types), Ordered(s),
         d.kind = "Typedef" /\ d.direct => HasType(s, d.refs[1]) \/ d.refs[1] \in third \cap Tag,
         ~Failed(NewDecl(s, d, third)) => Names(NewDecl(s, d, third)), Converted(d)
  PROVE  Leaves(s, NewDecl(s, d, third), d)
<1> DEFINE q == NewDecl(s, d, third)
<1>0. Good(q, {}) /\ Keeps(s, q) /\ Sound(s)
  BY NewDeclGood DEF Good
<1>1. CASE d.kind = "Type"
  <2>1. q = NewTypeDecl(s, d, third)
    BY <1>1 DEF NewDecl
  <2>2. Converts(s, NewTypeDecl(s, d, third), d)
    BY <1>1, NewTypeDeclConverts
  <2> HIDE DEF q
  <2> QED BY <1>0, <2>1, <2>2, ConvertsLeaves DEF q
<1>2. CASE d.kind = "Enum"
  <2>1. q = NewEnumTypeDecl(s, d)
    BY <1>2 DEF NewDecl
  <2>2. /\ Grows(s, NewEnumTypeDecl(s, d), {NodeOf(d)})
        /\ ~Failed(NewEnumTypeDecl(s, d)) /\ d.name # NoName =>
             NodeOf(d) \in DOMAIN NewEnumTypeDecl(s, d).info
    BY <1>0, <1>2, NewEnumTypeDeclGrows
  <2> HIDE DEF q
  <2>3. AliasOK(q.types) /\ (~Failed(q) => Ordered(q)) /\ Follows(s, q, {NodeOf(d)})
    BY <1>0, <2>1, <2>2, GrowsLeaves, GrowsFollows
  <2> QED BY <1>2, <2>1, <2>2, <2>3 DEF Leaves, RefKind, q
<1>3. CASE d.kind = "Typedef"
  <2>1. q = NewTypedefDecl(s, d, third)
    BY <1>3 DEF NewDecl
  <2> HIDE DEF q
  <2> QED BY <1>3, <2>1, NewTypedefDeclLeaves DEF q
<1>4. CASE d.kind = "Func"
  <2>1. q = NewFuncDecl(s, d, third)
    BY <1>4, Zenon DEF NewDecl
  <2>2. Converts(s, NewFuncDecl(s, d, third), d)
    BY <1>0, <1>4, NewFuncDeclConverts DEF Converted
  <2> HIDE DEF q
  <2> QED BY <1>0, <2>1, <2>2, ConvertsLeaves DEF q
<1> QED BY <1>1, <1>2, <1>3, <1>4, DeclFacts

(* What a package that has not failed keeps until deferTypeBuild. *)
OrderOK(s) ==
  /\ AliasOK(s.types) /\ DepsBound(s.scope)
  /\ ~Failed(s) => PlainBound(s) /\ Ordered(s) /\ RefsMet(s)

LEMMA DepsKept ==
  ASSUME NEW s, NEW q, DepsBound(s.scope), Keeps(s, q)
  PROVE  DepsBound(q.scope)
  BY DEF DepsBound, Keeps

LEMMA HasKept ==
  ASSUME NEW s, NEW q, NEW c, HasType(s, c), Keeps(s, q)
  PROVE  HasType(q, c)
  BY DEF HasType, Keeps

LEMMA OrderGrown ==
  ASSUME NEW s, NEW q, Good(s, {}), Good(q, {}), Keeps(s, q), Grows(s, q, {}), OrderOK(s)
  PROVE  OrderOK(q)
<1>1. AliasOK(q.types) /\ DepsBound(q.scope)
  BY AliasKept, DepsKept DEF OrderOK, Grows
<1>2. ASSUME ~Failed(q) PROVE PlainBound(q) /\ Ordered(q) /\ RefsMet(q)
  <2>1. ~Failed(s) /\ PlainBound(s) /\ Ordered(s) /\ RefsMet(s) /\ AliasOK(s.types)
    BY <1>2 DEF OrderOK, Grows
  <2>2. Ordered(q)
    BY <1>2, <2>1, GrowsLeaves
  <2>3. PlainBound(q)
    BY <1>2, <2>1 DEF PlainBound, Grows, Keeps
  <2>4. RefsMet(q)
    <3> SUFFICES ASSUME NEW d \in Decls, d.kind \in RefKind, Settled(q, NodeOf(d)),
                        d.kind = "Type" => d.full, NEW c \in Mentions(d) \cap Referent
                 PROVE  HasType(q, c)
      BY DEF RefsMet
    <3>1. NodeOf(d).kind \in RefKind
      BY DEF NodeOf
    <3>2. Settled(s, NodeOf(d))
      BY <1>2, <3>1 DEF Grows
    <3> QED BY <2>1, <3>2, HasKept DEF RefsMet
  <2> QED BY <2>2, <2>3, <2>4
<1> QED BY <1>1, <1>2 DEF OrderOK

LEMMA PlainKept ==
  ASSUME CSpaces, NEW s, NEW d \in Decls, NEW q, Good(q, {}), Keeps(s, q), ~Failed(q),
         Follows(s, q, {NodeOf(d)}), PlainBound(s),
         d.kind \in {"Typedef", "Enum"} /\ d.name # NoName =>
           /\ d.name \in DOMAIN q.scope
           /\ NodeOf(d) \in DOMAIN s.types \/ q.scope[d.name].node = NodeOf(d)
  PROVE  PlainBound(q)
<1> SUFFICES ASSUME NEW n \in DOMAIN q.types, n.kind # "Type"
             PROVE  n.name \in DOMAIN q.scope /\ q.scope[n.name].node = n
  BY DEF PlainBound
<1>1. CASE n \in DOMAIN s.types
  BY <1>1 DEF PlainBound, Keeps
<1>2. CASE n \notin DOMAIN s.types
  <2>1. n = NodeOf(d)
    BY <1>2 DEF Follows
  <2>2. n.kind \in TypeKind /\ n.name \in CName
    BY DEF Good, Apart, KindsOK
  <2>3. d.kind = n.kind /\ d.name = n.name
    BY <2>1 DEF NodeOf
  <2>4. d.kind \in {"Typedef", "Enum"} /\ d.name # NoName
    BY <2>2, <2>3, ConvertAssumption DEF ConvertAssumption, TypeKind
  <2> QED BY <1>2, <2>1, <2>3, <2>4
<1> QED BY <1>1, <1>2

(* The references of a declaration and its own name have types after it. *)
LEMMA RefsNamed ==
  ASSUME CSpaces, NEW s, NEW d \in Decls, NEW q, Good(q, {}), Keeps(s, q), ~Failed(q), Names(q),
         AllKnown(q, d.refs), d.kind \in RefKind, NodeOf(d) \in DOMAIN q.info,
         \A i \in DOMAIN d.refs : d.refs[i] \in Referent \ Tag => HasType(s, d.refs[i]),
         NEW c \in Mentions(d) \cap Referent
  PROVE  HasType(q, c)
<1>1. CASE c \in Declares(d)
  <2>1. c = d.name /\ d.kind \in TypeKind
    BY <1>1 DEF Declares, RefKind, TypeKind
  <2>2. NodeOf(d).kind \in TypeKind /\ NodeOf(d).name = c
    BY <2>1 DEF NodeOf
  <2>3. NodeOf(d) \in DOMAIN q.types
    BY <2>2 DEF Good, Live, Registered
  <2> QED BY <2>2, <2>3 DEF HasType
<1>2. ASSUME NEW i \in DOMAIN d.refs, c = d.refs[i] PROVE HasType(q, c)
  <2>1. CASE c \in Tag
    BY <1>2, <2>1, TagMet DEF AllKnown
  <2>2. CASE c \notin Tag
    <3>1. HasType(s, c)
      BY <1>2, <2>2
    <3> QED BY <3>1, HasKept
  <2> QED BY <2>1, <2>2
<1> QED BY <1>1, <1>2 DEF Mentions

LEMMA RefsMetKept ==
  ASSUME CSpaces, Referents, NEW s, NEW d \in Decls, NEW q, Good(q, {}), Keeps(s, q), ~Failed(q),
         Names(q), Leaves(s, q, d), RefsMet(s),
         d.kind # "Enum" =>
           \A i \in DOMAIN d.refs : d.refs[i] \in Referent \ Tag => HasType(s, d.refs[i])
  PROVE  RefsMet(q)
<1> SUFFICES ASSUME NEW e \in Decls, e.kind \in RefKind, Settled(q, NodeOf(e)),
                    e.kind = "Type" => e.full, NEW c \in Mentions(e) \cap Referent
             PROVE  HasType(q, c)
  BY DEF RefsMet
<1>1. NodeOf(e).kind = e.kind /\ NodeOf(e).name = e.name
  BY DEF NodeOf
<1>2. CASE Settled(s, NodeOf(e))
  <2>1. HasType(s, c)
    BY <1>2 DEF RefsMet
  <2> QED BY <2>1, HasKept
<1>3. CASE ~Settled(s, NodeOf(e))
  <2>1. NodeOf(e) = NodeOf(d)
    BY <1>1, <1>3 DEF Leaves, Follows
  <2>2. e.kind = d.kind /\ e.name = d.name
    BY <2>1 DEF NodeOf
  <2>3. ~Follows(s, q, {})
    BY <1>1, <1>3 DEF Follows
  <2>4. AllKnown(q, d.refs) /\ (d.kind = "Type" => d.full)
    BY <2>2, <2>3 DEF Leaves
  <2>5. Mentions(d) \cap Referent = Mentions(e) \cap Referent
    <3>1. d.kind = "Type" => d.full = e.full
      <4>1. d.kind = "Type" => d.full \in BOOLEAN /\ e.full \in BOOLEAN
        BY ConvertAssumption DEF ConvertAssumption
      <4> QED BY <2>2, <2>4, <4>1
    <3> QED BY <2>2, <3>1 DEF Referents
  <2>6. NodeOf(d) \in DOMAIN q.info /\ d.kind # "Enum"
    BY <2>1, <2>2 DEF Settled, RefKind
  <2> QED BY <2>2, <2>4, <2>5, <2>6, RefsNamed
<1> QED BY <1>2, <1>3

LEMMA MentionsMet ==
  ASSUME CSpaces, NEW s, NEW d \in Decls, NEW q, Good(q, {}), ~Failed(q), Leaves(s, q, d),
         RefsMet(q), NEW c \in Mentions(d) \cap Referent
  PROVE  HasType(q, c)
<1>1. c \in CName /\ c # NoName
  <2>1. PICK e \in Decls : e.kind = "Typedef" /\ e.direct /\ c = e.refs[1]
    BY DEF Referent
  <2>2. RefsOK(e.refs) /\ DOMAIN e.refs = {1}
    BY <2>1, DeclFacts
  <2>3. c \in CName
    BY <2>1, <2>2 DEF RefsOK
  <2> QED BY <2>3, ConvertAssumption DEF ConvertAssumption
<1>2. d.kind \in {"Func", "Type", "Typedef", "Enum"}
  BY DeclFacts
<1>3. d.name # NoName
  <2>1. d.kind # "Enum" => d.name # NoName
    BY ConvertAssumption DEF ConvertAssumption
  <2>2. d.kind = "Enum" => c = d.name
    BY DEF Mentions, Declares
  <2> QED BY <1>1, <2>1, <2>2
<1>4. NodeOf(d) \in DOMAIN q.info /\ (d.kind = "Type" /\ d.full => d.name \notin DOMAIN q.tracked)
  BY <1>3 DEF Leaves
<1>5. NodeOf(d).kind = d.kind /\ NodeOf(d).name = d.name
  BY DEF NodeOf
<1>6. CASE d.kind = "Enum" \/ (d.kind = "Type" /\ ~d.full)
  <2>1. c = d.name
    <3>1. d.kind = "Type" /\ ~d.full => DOMAIN d.refs = {}
      BY ConvertAssumption DEF ConvertAssumption
    <3> QED BY <1>6, <3>1 DEF Mentions, Declares
  <2>2. NodeOf(d) \in DOMAIN q.types
    BY <1>4, <1>5, <1>6 DEF Good, Live, Registered, TypeKind
  <2> QED BY <1>5, <2>1, <2>2 DEF HasType
<1>7. CASE d.kind \in RefKind /\ (d.kind = "Type" => d.full)
  <2>1. Settled(q, NodeOf(d))
    BY <1>4, <1>5, <1>7 DEF Settled
  <2> QED BY <1>7, <2>1 DEF RefsMet
<1> QED BY <1>2, <1>6, <1>7 DEF RefKind

(* The invariant: a typedef that is built names a type that is; what the   *)
(* input has mentioned of what typedefs name has a type; and the entries   *)
(* of deferTypeBuild are in an order in which they can be built.           *)
OrderInv ==
  /\ AliasOK(p.types) /\ DepsBound(p.scope)
  /\ phase \in {"macros", "decls"} => OrderOK(p)
  /\ phase = "decls" => \A c \in seen \cap Referent : HasType(p, c) \/ c \in locMap \cap Tag
  /\ phase = "build" => Bound(p) /\ Ordered(p)

LEMMA OrderInit == Init => OrderInv
<1> SUFFICES ASSUME Init PROVE OrderInv
  OBVIOUS
<1>1. /\ p.info = Empty /\ p.types = Empty /\ p.incs = <<>> /\ phase = "macros"
      /\ p.scope = [c \in DepName |-> [node |-> [name |-> c, kind |-> "Dep"], how |-> "subst"]]
  BY DEF Init, Fresh
<1>2. DOMAIN Empty = {} /\ Len(<<>>) = 0
  BY DEF Empty
<1>3. AliasOK(p.types) /\ DepsBound(p.scope) /\ PlainBound(p) /\ Ordered(p) /\ RefsMet(p)
  BY <1>1, <1>2 DEF AliasOK, DepsBound, PlainBound, Ordered, RefsMet, Settled
<1> QED BY <1>1, <1>3 DEF OrderInv, OrderOK

LEMMA SetGoFileOrder ==
  ASSUME NEW s, NEW f \in File, Good(s, {}), OrderOK(s)
  PROVE  OrderOK(SetGoFile(s, f))
<1> DEFINE q == SetGoFile(s, f)
<1>1. Good(q, {}) /\ Keeps(s, q) /\ SameCore(s, q)
  BY SetGoFileGood
<1> HIDE DEF q
<1>2. Grows(s, q, {})
  BY <1>1, SameGrows
<1>3. OrderOK(q)
  BY <1>1, <1>2, OrderGrown
<1> QED BY <1>3 DEF q

LEMMA MacroOrder ==
  ASSUME IInv, TypeInv, OrderInv, NEW m \in Macros, ProcessMacro(m)
  PROVE  OrderInv'
<1> DEFINE s == SetGoFile(p, m.file)
           q == NewMacro(s, m)
<1>1. Good(p, {}) /\ ~Failed(p) /\ OrderOK(p)
  BY GoodHere DEF ProcessMacro, OrderInv
<1>2. m.file \in File
  BY ConvertAssumption DEF ConvertAssumption
<1>3. Good(s, {}) /\ OrderOK(s)
  BY <1>1, <1>2, SetGoFileGood, SetGoFileOrder
<1>4. p' = IF InCurPkg(m.file) THEN q ELSE p
  BY DEF ProcessMacro
<1> HIDE DEF s
<1>5. Good(q, {}) /\ Keeps(s, q) /\ Grows(s, q, {})
  BY <1>3, NewMacroGood, NewMacroGrows DEF Good
<1> HIDE DEF q
<1>6. OrderOK(p')
  BY <1>1, <1>3, <1>4, <1>5, OrderGrown
<1>7. phase' \in {"failed", "macros"}
  BY DEF ProcessMacro
<1> QED BY <1>6, <1>7 DEF OrderInv, OrderOK

LEMMA DeclOrder ==
  ASSUME CSpaces, Referents, IInv, TypeInv, NameInv, NameInv', OrderInv,
         NEW d \in Decls, ProcessDecl(d)
  PROVE  OrderInv'
<1> DEFINE s == SetGoFile(p, d.file)
           q == NewDecl(s, d, locMap')
<1>1. /\ Good(p, {}) /\ ~Failed(p) /\ OrderOK(p) /\ Names(p)
      /\ \A c \in seen \cap Referent : HasType(p, c) \/ c \in locMap \cap Tag
  BY GoodHere DEF ProcessDecl, OrderInv, NameInv
<1>2. /\ d.file \in File /\ RefsOK(d.refs) /\ (d.direct => DOMAIN d.refs = {1})
      /\ d.kind \in {"Func", "Type", "Typedef", "Enum"}
  BY DeclFacts
<1>3. Good(s, {}) /\ Keeps(p, s) /\ ~Failed(s) /\ OrderOK(s) /\ Names(s)
  <2>1. /\ SameCore(p, s) /\ s.count = p.count
    <3>1. SameCore(p, s)
      BY <1>1, <1>2, SetGoFileGood
    <3>2. s.count = p.count
      BY <1>1 DEF SetGoFile, Good, Sound, IsPkg
    <3> QED BY <3>1, <3>2
  <2>2. Good(s, {}) /\ Keeps(p, s) /\ OrderOK(s)
    BY <1>1, <1>2, SetGoFileGood, SetGoFileOrder
  <2> HIDE DEF s
  <2>3. ~Failed(s)
    BY <1>1, <2>1 DEF SameCore, Failed
  <2>4. Names(s)
    BY <1>1, <2>1 DEF SameCore, Names, TypesNamed, ScopeNamed, TagsFree
  <2> QED BY <2>2, <2>3, <2>4
<1>4. /\ p' = IF Skipped(d) THEN p ELSE q
      /\ phase' \in {"failed", "decls"} /\ (phase' = "failed" <=> Failed(p'))
      /\ seen' = seen \cup (Mentions(d) \ {NoName})
      /\ locMap \subseteq locMap'
  BY DEF ProcessDecl
<1>5. d.kind # "Enum" => \A i \in DOMAIN d.refs : Resolvable(s, d.refs[i], locMap')
  BY <1>3, DeclRefs DEF Resolvable, Keeps
<1>6. \A c \in (seen \cup DepName) \cap Referent : HasType(s, c) \/ c \in locMap' \cap Tag
  BY <1>1, <1>3, <1>4, HasKept DEF HasType
<1>7. d.kind # "Enum" =>
        \A i \in DOMAIN d.refs : d.refs[i] \in Referent \ Tag => HasType(s, d.refs[i])
  BY <1>6 DEF ProcessDecl, Nameable
<1>8. ~Skipped(d) /\ d.kind = "Typedef" /\ d.direct =>
        HasType(s, d.refs[1]) \/ d.refs[1] \in locMap' \cap Tag
  <2> SUFFICES ASSUME ~Skipped(d), d.kind = "Typedef", d.direct
               PROVE  HasType(s, d.refs[1]) \/ d.refs[1] \in locMap' \cap Tag
    OBVIOUS
  <2>1. d.refs[1] \in Referent
    BY DEF Referent
  <2>2. d.refs[1] \in seen \cup DepName
    BY <1>2 DEF ProcessDecl, Nameable
  <2> QED BY <1>6, <2>1, <2>2
<1> HIDE DEF s
<1>9. ASSUME Converted(d)
      PROVE  /\ OrderOK(q) /\ Keeps(s, q)
             /\ ~Failed(q) => \A c \in Mentions(d) \cap Referent : HasType(q, c)
  <2>1. ~Skipped(d) /\ p' = q
    BY <1>4, <1>9 DEF Converted
  <2>2. /\ Good(q, {}) /\ Keeps(s, q)
        /\ ~Failed(q) /\ d.kind \in {"Typedef", "Enum"} /\ d.name # NoName =>
             /\ d.name \in DOMAIN q.scope
             /\ NodeOf(d) \in DOMAIN s.types \/ q.scope[d.name].node = NodeOf(d)
    BY <1>3, <1>5, NewDeclGood
  <2>3. Leaves(s, q, d)
    <3>1. ~Failed(q) => Names(q)
      BY <1>4, <2>1 DEF NameInv
    <3> QED BY <1>3, <1>5, <1>8, <1>9, <2>1, <3>1, NewDeclLeaves DEF OrderOK
  <2> HIDE DEF q
  <2>4. AliasOK(q.types) /\ DepsBound(q.scope)
    BY <1>3, <2>2, <2>3, DepsKept DEF Leaves, OrderOK
  <2>5. ASSUME ~Failed(q)
        PROVE  /\ PlainBound(q) /\ Ordered(q) /\ RefsMet(q)
               /\ \A c \in Mentions(d) \cap Referent : HasType(q, c)
    <3>1. Names(q) /\ PlainBound(s) /\ RefsMet(s)
      BY <1>3, <1>4, <2>1, <2>5 DEF OrderOK, NameInv
    <3>2. Ordered(q) /\ Follows(s, q, {NodeOf(d)})
      BY <2>3, <2>5 DEF Leaves
    <3>3. PlainBound(q)
      BY <2>2, <2>5, <3>1, <3>2, PlainKept
    <3>4. RefsMet(q)
      BY <1>7, <2>2, <2>3, <2>5, <3>1, RefsMetKept
    <3>5. \A c \in Mentions(d) \cap Referent : HasType(q, c)
      BY <2>2, <2>3, <2>5, <3>4, MentionsMet
    <3> QED BY <3>2, <3>3, <3>4, <3>5
  <2> QED BY <2>2, <2>4, <2>5 DEF OrderOK
<1>10. ASSUME ~Converted(d), ~Skipped(d) PROVE q = s
  <2>1. d.kind = "Func" /\ FuncGo[d.name].form = "ignore"
    BY <1>10 DEF Converted
  <2>2. q = NewFuncDecl(s, d, locMap')
    BY <2>1, Zenon DEF NewDecl
  <2> QED BY <2>1, <2>2 DEF NewFuncDecl
<1> HIDE DEF q
<1>11. ~Converted(d) => OrderOK(p') /\ Keeps(p, p')
  BY <1>1, <1>3, <1>4, <1>10, KeepsRefl
<1>12. Converted(d) => OrderOK(p') /\ Keeps(p, p')
  <2>1. Converted(d) => ~Skipped(d)
    BY DEF Converted
  <2> QED BY <1>3, <1>4, <1>9, <2>1, KeepsTrans
<1>13. ASSUME phase' = "decls", NEW c \in seen' \cap Referent
       PROVE  HasType(p', c) \/ c \in locMap' \cap Tag
  <2>1. CASE c \in seen
    BY <1>1, <1>4, <1>11, <1>12, <1>13, <2>1, HasKept
  <2>2. CASE c \in Mentions(d) /\ Converted(d)
    <3>1. p' = q /\ ~Failed(q)
      BY <1>4, <1>13, <2>2 DEF Converted
    <3> QED BY <1>9, <1>13, <2>2, <3>1
  <2>3. CASE c \in Mentions(d) /\ c # NoName /\ ~Converted(d)
    <3>1. c \in DepName \cup Foreign(d)
      BY <1>13, <2>3 DEF Referents
    <3>2. c \in Foreign(d) => c \in locMap' \cap Tag
      BY <2>3 DEF Foreign, ProcessDecl
    <3> QED BY <3>1, <3>2 DEF HasType
  <2> QED BY <1>4, <1>13, <2>1, <2>2, <2>3
<1> QED BY <1>4, <1>11, <1>12, <1>13 DEF OrderInv, OrderOK

(* What an entry waits for is built when its turn comes. *)
LEMMA EntryReady ==
  ASSUME IInv, TypeInv, OrderInv, phase = "build", next.i \in 1..Len(p.incs),
         p.incs[next.i].ref # NoName
  PROVE  LET m == Target(p, p.incs[next.i].ref)
         IN  m \in DOMAIN p.types /\ p.types[m].inits > 0
<1> DEFINE i == next.i
           ref == p.incs[i].ref
<1>1. /\ Tracks(p, {}, Built) /\ RefsKnown(p) /\ Once(p.types) /\ OneType(p.types)
      /\ TrackedByName(p.tracked) /\ MapOK(p.tracked, p.types)
  BY DEF TypeInv, Live, Apart, IInv, Sound
<1>2. Ordered(p) /\ Bound(p)
  BY DEF OrderInv
<1>3. PICK m \in DOMAIN p.types :
             /\ m.name = ref
             /\ p.types[m].inits > 0 \/ \E j \in 1..(i - 1) : p.incs[j].node = m
  BY <1>2 DEF Ordered
<1>4. Built = {p.incs[j].node : j \in 1..(i - 1)}
  BY DEF Built
<1>5. p.types[m].inits > 0
  <2>1. CASE m \in Built
    <3>1. p.types[m].inits # 0
      BY <1>1, <2>1 DEF Tracks
    <3> QED BY <1>1, <3>1 DEF Once
  <2>2. CASE m \notin Built
    BY <1>3, <1>4, <2>2
  <2> QED BY <2>1, <2>2
<1>6. Known(p, ref)
  BY <1>1 DEF RefsKnown
<1>7. Target(p, ref) = m
  <2>1. CASE ref \in DOMAIN p.scope
    BY <1>2, <1>3, <2>1 DEF Bound, Target
  <2>2. CASE ref \notin DOMAIN p.scope
    <3>1. ref \in DOMAIN p.tracked /\ Target(p, ref) = p.tracked[ref]
      BY <1>6, <2>2 DEF Known, Target
    <3>2. p.tracked[ref] \in DOMAIN p.types /\ p.tracked[ref].name = ref
      BY <1>1, <3>1 DEF TrackedByName, MapOK
    <3> QED BY <1>1, <1>3, <3>1, <3>2 DEF OneType
  <2> QED BY <2>1, <2>2
<1> QED BY <1>5, <1>7

LEMMA BuildOrder ==
  ASSUME IInv, TypeInv, OrderInv, BuildNext
  PROVE  OrderInv'
<1> DEFINE e == p.incs[next.i]
           n == e.node
           b == BuildType(p, e, locMap)
           q == IF StillIncomplete(p, e) THEN b ELSE p
<1>1. /\ phase = "build" /\ next.i <= next.last
      /\ p' = IF Failed(q) THEN Clear(q) ELSE q
      /\ phase' = IF Failed(q) THEN "failed" ELSE "build"
  BY DEF BuildNext
<1>2. /\ Live(p, {}, Built) /\ ~Failed(p) /\ Sound(p) /\ Apart(p) /\ next.last = Len(p.incs)
      /\ next.i \in Nat \ {0} /\ AliasOK(p.types) /\ DepsBound(p.scope) /\ Bound(p) /\ Ordered(p)
  BY <1>1 DEF TypeInv, IInv, OrderInv
<1>3. next.i \in 1..Len(p.incs) /\ Len(p.incs) \in Nat
  BY <1>1, <1>2 DEF Sound, ListOK
<1>4. e.node \in DOMAIN p.types /\ (e.ref = NoName \/ Known(p, e.ref))
  BY <1>2, <1>3 DEF Sound, ListOK, Live, RefsKnown
<1>5. e.ref # NoName => LET m == Target(p, e.ref) IN m \in DOMAIN p.types /\ p.types[m].inits > 0
  BY <1>1, <1>3, EntryReady
<1>6. /\ q.scope = p.scope /\ q.incs = p.incs /\ IsPkg(q)
      /\ \/ q.types = p.types
         \/ \E t : /\ q.types = Bind(p.types, n, t) /\ t.inits = p.types[n].inits + 1
                   /\ t.of = IF e.ref = NoName THEN NoNode ELSE Target(p, e.ref)
  <2>1. CASE StillIncomplete(p, e)
    <3>1. q = b /\ IsPkg(b)
      BY <1>2, <1>3, <2>1, BuildTypeSound DEF Sound, ListOK
    <3>2. /\ b.scope = p.scope /\ b.incs = p.incs
          /\ \/ b.types = p.types
             \/ \E t : /\ b.types = Bind(p.types, n, t) /\ t.inits = p.types[n].inits + 1
                       /\ t.of = IF e.ref = NoName THEN NoNode ELSE Target(p, e.ref)
      BY <1>2, <1>4, BuildTypeIs DEF Sound
    <3> HIDE DEF b, q, e, n
    <3> QED BY <3>1, <3>2
  <2>2. CASE ~StillIncomplete(p, e)
    BY <1>2, <2>2 DEF Sound
  <2> QED BY <2>1, <2>2
<1> HIDE DEF q, e
<1>7. /\ \A m : m \in DOMAIN q.types <=> m \in DOMAIN p.types
      /\ \A m \in DOMAIN p.types : p.types[m].inits > 0 => q.types[m].inits > 0
      /\ AliasOK(q.types)
  <2>1. CASE q.types = p.types
    BY <1>2, <2>1
  <2>2. ASSUME NEW t, q.types = Bind(p.types, n, t), t.inits = p.types[n].inits + 1,
               t.of = IF e.ref = NoName THEN NoNode ELSE Target(p, e.ref)
        PROVE  /\ \A m : m \in DOMAIN q.types <=> m \in DOMAIN p.types
               /\ \A m \in DOMAIN p.types : p.types[m].inits > 0 => q.types[m].inits > 0
               /\ AliasOK(q.types)
    <3>1. p.types[n].inits \in {0, 1}
      BY <1>2, <1>4 DEF Apart, Once
    <3>2. /\ \A m : m \in DOMAIN q.types <=> m \in DOMAIN p.types
          /\ \A m \in DOMAIN p.types : m # n => q.types[m] = p.types[m]
          /\ q.types[n] = t
      BY <1>4, <2>2, BindDomain, BindAt
    <3>3. \A m \in DOMAIN p.types : p.types[m].inits > 0 => q.types[m].inits > 0
      BY <2>2, <3>1, <3>2
    <3> SUFFICES ASSUME NEW m \in DOMAIN q.types, q.types[m].inits > 0, q.types[m].of # NoNode
                 PROVE  \/ q.types[m].of.kind = "Dep"
                        \/ q.types[m].of \in DOMAIN q.types /\ q.types[q.types[m].of].inits > 0
      BY <3>2, <3>3 DEF AliasOK
    <3>4. CASE m = n
      BY <1>5, <2>2, <3>2, <3>3, <3>4
    <3>5. CASE m # n
      BY <1>2, <3>2, <3>3, <3>5 DEF AliasOK
    <3> QED BY <3>4, <3>5
  <2> QED BY <1>6, <2>1, <2>2
<1>8. p'.types = q.types /\ p'.scope = q.scope /\ (~Failed(q) => p' = q)
  BY <1>1, <1>6 DEF Clear, IsPkg
<1>9. Bound(q) /\ Ordered(q)
  BY <1>2, <1>6, <1>7 DEF Bound, Ordered
<1> QED BY <1>1, <1>2, <1>6, <1>7, <1>8, <1>9 DEF OrderInv

LEMMA OrderStep ==
  ASSUME CSpaces, Referents, IInv, TypeInv, NameInv, NameInv', OrderInv, [Next]_vars
  PROVE  OrderInv'
<1>1. ASSUME NEW m \in Macros, ProcessMacro(m) PROVE OrderInv'
  BY <1>1, MacroOrder
<1>2. CASE EndMacros
  <2>1. p' = p /\ seen' = seen /\ phase = "macros" /\ phase' = "decls"
    BY <1>2 DEF EndMacros
  <2>2. seen = {}
    BY <2>1 DEF TypeInv
  <2> QED BY <2>1, <2>2 DEF OrderInv
<1>3. ASSUME NEW d \in Decls, ProcessDecl(d) PROVE OrderInv'
  BY <1>3, DeclOrder
<1>4. CASE EndDecls
  <2>1. p' = p /\ phase = "decls" /\ phase' = "build"
    BY <1>4 DEF EndDecls
  <2>2. Good(p, {}) /\ ~Failed(p) /\ Names(p) /\ PlainBound(p) /\ Ordered(p)
    BY <2>1, GoodHere DEF NameInv, OrderInv, OrderOK
  <2>3. Bound(p)
    <3> SUFFICES ASSUME NEW n \in DOMAIN p.types, n.name \in DOMAIN p.scope
                 PROVE  p.scope[n.name].node = n
      BY DEF Bound
    <3>1. CASE n.kind = "Type"
      <4>1. n.name \in Tag
        BY <2>2, <3>1 DEF Good, Apart, KindsOK
      <4> QED BY <2>2, <4>1, TagBound
    <3>2. CASE n.kind # "Type"
      BY <2>2, <3>2 DEF PlainBound
    <3> QED BY <3>1, <3>2
  <2> QED BY <2>1, <2>2, <2>3 DEF OrderInv
<1>5. CASE BuildNext
  BY <1>5, BuildOrder
<1>6. CASE EndBuild
  <2>1. p' = Clear(p) /\ phase' = "done" /\ IsPkg(p)
    BY <1>6 DEF EndBuild, IInv, Sound
  <2>2. p'.types = p.types /\ p'.scope = p.scope
    BY <2>1 DEF Clear, IsPkg
  <2> QED BY <2>1, <2>2 DEF OrderInv
<1>7. CASE Terminated \/ UNCHANGED vars
  <2>1. p' = p /\ phase' = phase /\ seen' = seen /\ locMap' = locMap
    BY <1>7 DEF Terminated, vars
  <2> QED BY <2>1 DEF OrderInv
<1> QED BY <1>1, <1>2, <1>3, <1>4, <1>5, <1>6, <1>7 DEF Next

(* "type A B" comes when B has an underlying type: a typedef is never      *)
(* initialised before the type it names (handleTyperefIncomplete defers it *)
(* while that type is incomplete, and deferTypeBuild builds what was       *)
(* deferred in the order in which it was met).                             *)
THEOREM TypedefsInOrder ==
  ASSUME CSpaces, GoSpaces(Nat \ {0}), Referents PROVE Spec => []TypedefAfterReferent
<1>1. OrderInv /\ IInv /\ TypeInv /\ NameInv /\ NameInv' /\ [Next]_vars => OrderInv'
  BY OrderStep
<1>2. OrderInv => TypedefAfterReferent
  BY DEF OrderInv, AliasOK, TypedefAfterReferent, Inited
<1> QED BY <1>1, <1>2, OrderInit, TypeInvariance, NameInvariance, PTL DEF Spec, Spaces
=============================================================================
