----------------------------- MODULE DepsProofs ----------------------------
(***************************************************************************)
(* Proofs about Deps for any set of packages and any llcppg.cfg files,     *)
(* cycles included: what is registered, that every published type can be   *)
(* referred to, and that dependencies come first.  Both passes are depth-  *)
(* first traversals, and the invariant says of each what such a traversal  *)
(* keeps: whatever a visited package depends on has been visited, or is    *)
(* still to do in a frame of that package.                                 *)
(***************************************************************************)
EXTENDS DepsSafety, SequenceTheorems, TLAPS

Node == Pkg \cup {Root}
FrameOf(T) == [pkg : Node, todo : Seq(T)]
OnStack(p) == \E k \in DOMAIN stack : stack[k].pkg = p
Published(p) == {c \in DOMAIN Pubs[p] : Pubs[p][c] \in Defines[p]}

TypeOK ==
  /\ graph \in Graph /\ phase \in {"import", "register", "done", "failed", "overflow"}
  /\ pkgCache \subseteq Pkg /\ regCache \subseteq Pkg
  /\ cfgDeps \in [Node -> Seq(Dep)] /\ deps \in [Node -> Seq(Pkg)]
  /\ phase = "import" => stack \in Seq(FrameOf(Dep))
  /\ phase = "register" => stack \in Seq(FrameOf(Pkg))
Bottom(visited) ==
  /\ stack # <<>> /\ stack[1].pkg = Root
  /\ \A k \in DOMAIN stack : k # 1 => stack[k].pkg \in visited

(* PkgBase.Deps of p is what its llcppg.cfg lists.                         *)
Lists(p) == \A q : DependsOn(p, q) <=> \E i \in DOMAIN cfgDeps[p] : Path[cfgDeps[p][i]] = q
ImportTodo(p, q) ==
  \E k \in DOMAIN stack : stack[k].pkg = p /\ \E j \in DOMAIN stack[k].todo : Path[stack[k].todo[j]] = q
ImportInv ==
  /\ Bottom(pkgCache) /\ regCache = {} /\ DOMAIN scope = {}
  /\ \A p \in pkgCache \cup {Root} :
       /\ Lists(p)
       /\ OnStack(p) \/ deps[p] = Paths(cfgDeps[p])
       /\ \A q : DependsOn(p, q) => q \in pkgCache \/ ImportTodo(p, q)

(* PkgInfo.Deps of all packages, once they are imported.                   *)
Loaded ==
  \A p \in pkgCache \cup {Root} :
    /\ \A q : DependsOn(p, q) <=> \E i \in DOMAIN deps[p] : deps[p][i] = q
    /\ \A q : DependsOn(p, q) => q \in pkgCache
RegisterTodo(p, q) ==
  \E k \in DOMAIN stack : stack[k].pkg = p /\ \E j \in DOMAIN stack[k].todo : stack[k].todo[j] = q
(* A frame's list is its package's, and a frame is reached from those below it. *)
TodoListed ==
  \A k \in DOMAIN stack : \A j \in DOMAIN stack[k].todo : DependsOn(stack[k].pkg, stack[k].todo[j])
Chained == \A k, l \in DOMAIN stack : k < l => stack[l].pkg \in Reaches(stack[k].pkg)
Bound(c) == /\ scope[c].pkg \in regCache
            /\ c \in DOMAIN Pubs[scope[c].pkg] /\ scope[c].go = Pubs[scope[c].pkg][c]
RegisterInv ==
  /\ Bottom(regCache) /\ Loaded /\ TodoListed /\ Chained
  /\ regCache \subseteq pkgCache \cap Reaches(Root)
  /\ \A p \in regCache \cup {Root} : \A q : DependsOn(p, q) => q \in regCache \/ RegisterTodo(p, q)
  /\ \A p \in regCache : OnStack(p) \/ Published(p) \subseteq DOMAIN scope
  /\ \A c \in DOMAIN scope : Bound(c)

IInv ==
  /\ TypeOK /\ DependencyWins /\ RegisteredAll /\ PubsVisible
  /\ phase = "import" => ImportInv
  /\ phase = "register" => RegisterInv

-----------------------------------------------------------------------------
(* What depends on what.                                                   *)
LEMMA GraphFacts ==
  ASSUME graph \in Graph
  PROVE  /\ WithC(graph[Root]) \in Seq(Dep)
         /\ \A p \in HasCfg : graph[p] \in Seq(Dep)
         /\ \A p, q : DependsOn(p, q) => q \in Pkg
         /\ Root \notin Pkg
<1>1. graph \in [HasCfg \cup {Root} -> Seq(Dep)] /\ C \in Dep /\ HasCfg \subseteq Pkg /\ Root \notin Pkg
  BY DepsAssumption
<1>2. <<C>> \in Seq(Dep)
  BY <1>1
<1>3. WithC(graph[Root]) \in Seq(Dep)
  BY <1>1, <1>2 DEF WithC
<1>4. \A p \in HasCfg : graph[p] \in Seq(Dep)
  BY <1>1
<1>5. \A s \in Seq(Dep) : \A i \in DOMAIN s : Path[s[i]] \in Pkg
  BY DEF Pkg
<1>6. \A p, q : DependsOn(p, q) => q \in Pkg
  BY <1>3, <1>4, <1>5 DEF DependsOn
<1> QED
  BY <1>1, <1>3, <1>4, <1>6

LEMMA ReachesFacts ==
  ASSUME graph \in Graph
  PROVE  /\ \A p, q : DependsOn(p, q) => q \in Reaches(p)
         /\ \A p, r, q : r \in Reaches(p) /\ q \in Reaches(r) => q \in Reaches(p)
         /\ \A p : Reaches(p) \subseteq Pkg
         /\ \A p : \A S \in SUBSET Pkg :
              Closed(S) /\ (\A q \in Pkg : DependsOn(p, q) => q \in S) => Reaches(p) \subseteq S
<1>1. \A p : Reaches(p) \subseteq Pkg
  BY DEF Reaches
<1>2. \A p, q : DependsOn(p, q) => q \in Reaches(p)
  BY GraphFacts DEF Reaches
<1>3. ASSUME NEW p, NEW r, NEW q, r \in Reaches(p), q \in Reaches(r)
      PROVE  q \in Reaches(p)
  <2> SUFFICES ASSUME NEW S \in SUBSET Pkg, Closed(S), \A x \in Pkg : DependsOn(p, x) => x \in S
               PROVE  q \in S
    BY <1>1, <1>3 DEF Reaches
  <2>1. r \in S
    BY <1>3 DEF Reaches
  <2>2. \A x \in Pkg : DependsOn(r, x) => x \in S
    BY <2>1 DEF Closed
  <2> QED
    BY <1>3, <2>2 DEF Reaches
<1>4. \A p : \A S \in SUBSET Pkg :
        Closed(S) /\ (\A q \in Pkg : DependsOn(p, q) => q \in S) => Reaches(p) \subseteq S
  BY DEF Reaches
<1> QED
  BY <1>1, <1>2, <1>3, <1>4

LEMMA SameGraph ==
  ASSUME graph' = graph
  PROVE  /\ \A p, q : DependsOn(p, q)' <=> DependsOn(p, q)
         /\ \A p : Reaches(p)' = Reaches(p)
<1>1. \A p, q : DependsOn(p, q)' <=> DependsOn(p, q)
  BY DEF DependsOn
<1> QED
  BY <1>1 DEF Reaches, Closed

-----------------------------------------------------------------------------
(* The stack after a step, frame by frame.                                 *)
LEMMA StackFacts ==
  ASSUME NEW T, stack \in Seq(FrameOf(T)), stack # <<>>
  PROVE  /\ Len(stack) \in Nat \ {0} /\ DOMAIN stack = 1..Len(stack)
         /\ Top = stack[Len(stack)] /\ Top.pkg \in Node /\ Top.todo \in Seq(T)
         /\ \A k \in DOMAIN stack : stack[k].pkg \in Node /\ stack[k].todo \in Seq(T)
<1> DEFINE F == FrameOf(T)
<1>1. \A f \in F : f.pkg \in Node /\ f.todo \in Seq(T)
  BY DEF FrameOf
<1>2. stack \in Seq(F)
  OBVIOUS
<1> HIDE DEF F
<1>3. Len(stack) \in Nat \ {0} /\ DOMAIN stack = 1..Len(stack) /\ \A k \in DOMAIN stack : stack[k] \in F
  BY <1>2
<1> QED
  BY <1>1, <1>3 DEF Top

LEMMA AllButLast ==
  ASSUME NEW F, NEW s \in Seq(F), Len(s) \in Nat \ {0}
  PROVE  LET p == SubSeq(s, 1, Len(s) - 1)
         IN  /\ p \in Seq(F) /\ DOMAIN p = 1..Len(s) - 1 /\ Len(p) = Len(s) - 1
             /\ \A k \in DOMAIN p : p[k] = s[k]
<1> DEFINE n == Len(s) - 1
           p == SubSeq(s, 1, n)
<1>1. n \in Nat /\ 1 \in Int /\ n \in Int /\ \A k \in 1..n : s[k] \in F
  OBVIOUS
<1> HIDE DEF n
<1>2. /\ p \in Seq(F) /\ Len(p) = IF 1 <= n THEN n - 1 + 1 ELSE 0
      /\ \A k \in 1..n - 1 + 1 : p[k] = s[1 + k - 1]
  BY <1>1, SubSeqProperties
<1> HIDE DEF p
<1>3. Len(p) = n
  BY <1>1, <1>2
<1>4. DOMAIN p = 1..n
  BY <1>2, <1>3
<1>5. \A k \in 1..n : p[k] = s[k]
  <2> TAKE k \in 1..n
  <2>1. k \in 1..n - 1 + 1 /\ 1 + k - 1 = k
    BY <1>1
  <2> QED
    BY <2>1, <1>2
<1> QED
  BY <1>2, <1>3, <1>4, <1>5 DEF n, p

LEMMA PopFacts ==
  ASSUME NEW T, stack \in Seq(FrameOf(T)), stack # <<>>
  PROVE  /\ Pop \in Seq(FrameOf(T)) /\ DOMAIN Pop = 1..Len(stack) - 1 /\ Len(Pop) = Len(stack) - 1
         /\ \A k \in DOMAIN Pop : Pop[k] = stack[k]
<1>1. Len(stack) \in Nat \ {0}
  BY StackFacts
<1> QED
  BY <1>1, AllButLast DEF Pop

LEMMA AdvanceFacts ==
  ASSUME NEW T, stack \in Seq(FrameOf(T)), stack # <<>>, Top.todo # <<>>
  PROVE  /\ Advance \in Seq(FrameOf(T)) /\ DOMAIN Advance = DOMAIN stack
         /\ \A k \in DOMAIN stack : Advance[k].pkg = stack[k].pkg
         /\ \A k \in DOMAIN stack : k # Len(stack) => Advance[k].todo = stack[k].todo
         /\ Advance[Len(stack)].todo = Tail(Top.todo)
<1> DEFINE F == FrameOf(T)
           f == Frame(Top.pkg, Tail(Top.todo))
<1>1. f \in F /\ f.pkg = Top.pkg /\ f.todo = Tail(Top.todo)
  BY StackFacts DEF Frame, FrameOf
<1>2. Pop \in Seq(F) /\ Len(Pop) = Len(stack) - 1 /\ DOMAIN Pop = 1..Len(stack) - 1 /\ (\A k \in DOMAIN Pop : Pop[k] = stack[k])
  BY PopFacts
<1>3. Len(stack) \in Nat \ {0} /\ DOMAIN stack = 1..Len(stack) /\ Top = stack[Len(stack)]
  BY StackFacts
<1> HIDE DEF F, f
<1>5. /\ Append(Pop, f) \in Seq(F) /\ Len(Append(Pop, f)) = Len(stack)
      /\ Append(Pop, f)[Len(stack)] = f
      /\ \A k \in 1..Len(stack) - 1 : Append(Pop, f)[k] = stack[k]
  <2>1. /\ Append(Pop, f) \in Seq(F) /\ Len(Append(Pop, f)) = Len(Pop) + 1
        /\ Append(Pop, f)[Len(Pop) + 1] = f
        /\ \A k \in 1..Len(Pop) : Append(Pop, f)[k] = Pop[k]
    BY <1>1, <1>2, AppendProperties
  <2> QED
    BY <2>1, <1>2, <1>3
<1>6. Advance = Append(Pop, f)
  BY DEF Advance, f
<1>7. DOMAIN Advance = 1..Len(stack)
  <2>1. Advance \in Seq(F) /\ Len(Advance) = Len(stack)
    BY <1>5, <1>6
  <2> QED
    BY <2>1, LenProperties
<1>8. Advance \in Seq(F) /\ Advance[Len(stack)] = f /\ \A k \in 1..Len(stack) - 1 : Advance[k] = stack[k]
  BY <1>5, <1>6
<1>9. \A k \in DOMAIN stack : k # Len(stack) => Advance[k] = stack[k]
  BY <1>3, <1>8
<1>10. \A k \in DOMAIN stack : Advance[k].pkg = stack[k].pkg
  <2> TAKE k \in DOMAIN stack
  <2>1. CASE k = Len(stack)
    BY <2>1, <1>1, <1>3, <1>8
  <2>2. CASE k # Len(stack)
    BY <2>2, <1>9
  <2> QED
    BY <2>1, <2>2
<1> QED
  BY <1>1, <1>3, <1>7, <1>8, <1>9, <1>10 DEF F

LEMMA CallFacts ==
  ASSUME NEW T, stack \in Seq(FrameOf(T)), stack # <<>>, Top.todo # <<>>,
         NEW pkg \in Node, NEW todo \in Seq(T)
  PROVE  /\ Call(pkg, todo) \in Seq(FrameOf(T)) /\ DOMAIN Call(pkg, todo) = 1..Len(stack) + 1
         /\ \A k \in DOMAIN stack : Call(pkg, todo)[k] = Advance[k]
         /\ Call(pkg, todo)[Len(stack) + 1] = Frame(pkg, todo)
<1> DEFINE F == FrameOf(T)
           f == Frame(pkg, todo)
<1>1. f \in F
  BY DEF Frame, FrameOf
<1>2. Advance \in Seq(F) /\ DOMAIN Advance = DOMAIN stack
  BY AdvanceFacts
<1>3. Len(stack) \in Nat \ {0} /\ DOMAIN stack = 1..Len(stack)
  BY StackFacts
<1> HIDE DEF F, f
<1>4. Len(Advance) = Len(stack)
  BY <1>2, <1>3
<1>5. /\ Append(Advance, f) \in Seq(F) /\ Len(Append(Advance, f)) = Len(stack) + 1
      /\ Append(Advance, f)[Len(stack) + 1] = f
      /\ \A k \in 1..Len(stack) : Append(Advance, f)[k] = Advance[k]
  BY <1>1, <1>2, <1>3, <1>4
<1> QED
  BY <1>3, <1>5 DEF Call, F, f

(* What a list has left without its head.                                  *)
LEMMA TailFacts ==
  ASSUME NEW T, NEW s \in Seq(T), s # <<>>
  PROVE  /\ Head(s) \in T /\ 1 \in DOMAIN s /\ Head(s) = s[1]
         /\ \A j \in DOMAIN Tail(s) : j + 1 \in DOMAIN s /\ Tail(s)[j] = s[j + 1]
         /\ \A j \in DOMAIN s : j = 1 \/ (j - 1 \in DOMAIN Tail(s) /\ Tail(s)[j - 1] = s[j])
<1>1. Len(s) \in Nat \ {0} /\ Tail(s) \in Seq(T) /\ Len(Tail(s)) = Len(s) - 1 /\ DOMAIN s = 1..Len(s)
  OBVIOUS
<1>2. DOMAIN Tail(s) = 1..Len(s) - 1
  BY <1>1
<1>3. \A j \in 1..Len(s) - 1 : Tail(s)[j] = s[j + 1]
  OBVIOUS
<1>4. \A j \in 1..Len(s) : j = 1 \/ (j - 1 \in 1..Len(s) - 1 /\ Tail(s)[j - 1] = s[j])
  BY <1>1, <1>3
<1>5. Head(s) = s[1] /\ s[1] \in T
  BY <1>1
<1> QED
  BY <1>1, <1>2, <1>3, <1>4, <1>5

-----------------------------------------------------------------------------
LEMMA InitHolds == Init => IInv
<1> SUFFICES ASSUME Init PROVE IInv
  OBVIOUS
<1>1. graph \in Graph /\ phase = "import" /\ pkgCache = {} /\ regCache = {} /\ DOMAIN scope = {}
  BY DEF Init
<1>2. cfgDeps \in [Node -> Seq(Dep)] /\ cfgDeps[Root] = WithC(graph[Root])
  BY <1>1, GraphFacts DEF Init, Node
<1>3. deps \in [Node -> Seq(Pkg)]
  BY DEF Init, Node
<1>4. stack = <<Frame(Root, cfgDeps[Root])>> /\ Frame(Root, cfgDeps[Root]) \in FrameOf(Dep)
  BY <1>2 DEF Init, Frame, FrameOf, Node
<1>5. /\ stack \in Seq(FrameOf(Dep)) /\ stack # <<>> /\ DOMAIN stack = {1}
      /\ stack[1].pkg = Root /\ stack[1].todo = cfgDeps[Root]
  BY <1>4 DEF Frame
<1>6. Lists(Root)
  BY <1>2 DEF Lists, DependsOn
<1>7. ImportInv
  <2>1. OnStack(Root)
    BY <1>5 DEF OnStack
  <2>2. \A q : DependsOn(Root, q) => ImportTodo(Root, q)
    BY <1>5, <1>6 DEF Lists, ImportTodo
  <2> QED
    BY <1>1, <1>5, <1>6, <2>1, <2>2 DEF ImportInv, Bottom
<1>8. TypeOK
  BY <1>1, <1>2, <1>3, <1>5 DEF TypeOK
<1> QED
  BY <1>1, <1>7, <1>8 DEF IInv, DependencyWins, RegisteredAll, PubsVisible

(* A step that binds no name and does not end the program.                 *)
LEMMA SameScope ==
  ASSUME DependencyWins, graph' = graph, scope' = scope, phase' # "done"
  PROVE  (DependencyWins /\ RegisteredAll /\ PubsVisible)'
<1>1. DependencyWins'
  BY SameGraph DEF DependencyWins
<1> QED
  BY <1>1 DEF RegisteredAll, PubsVisible

(* A frame goes on to the next of its list: only the head is no longer to  *)
(* do.                                                                     *)
LEMMA ImportAdvance ==
  ASSUME stack \in Seq(FrameOf(Dep)), stack # <<>>, Top.todo # <<>>,
         NEW p, NEW q, ImportTodo(p, q), q # Path[Head(Top.todo)]
  PROVE  \E k \in DOMAIN stack : /\ Advance[k].pkg = p
                                 /\ \E j \in DOMAIN Advance[k].todo : Path[Advance[k].todo[j]] = q
<1>1. PICK k \in DOMAIN stack : stack[k].pkg = p /\ \E j \in DOMAIN stack[k].todo : Path[stack[k].todo[j]] = q
  BY DEF ImportTodo
<1>2. Advance[k].pkg = p
  BY <1>1, AdvanceFacts
<1>3. CASE k # Len(stack)
  BY <1>1, <1>2, <1>3, AdvanceFacts
<1>4. CASE k = Len(stack)
  <2>1. PICK j \in DOMAIN Top.todo : Path[Top.todo[j]] = q
    BY <1>1, <1>4, StackFacts
  <2>2. Top.todo \in Seq(Dep)
    BY StackFacts
  <2>3. j - 1 \in DOMAIN Tail(Top.todo) /\ Tail(Top.todo)[j - 1] = Top.todo[j]
    BY <2>1, <2>2, TailFacts
  <2>4. Advance[k].todo = Tail(Top.todo)
    BY <1>4, AdvanceFacts
  <2> QED
    BY <1>2, <2>1, <2>3, <2>4
<1> QED
  BY <1>3, <1>4

LEMMA ImportNextKeeps ==
  ASSUME IInv, NEW readable \in BOOLEAN, ImportNext(readable)
  PROVE  IInv'
<1> DEFINE d == Head(Top.todo)
<1>1. /\ phase = "import" /\ Top.todo # <<>> /\ UNCHANGED <<graph, deps, regCache, scope>>
      /\ ImportInv /\ TypeOK /\ stack \in Seq(FrameOf(Dep)) /\ stack # <<>> /\ graph \in Graph
  BY DEF ImportNext, IInv, TypeOK, ImportInv, Bottom
<1>2. d \in Dep /\ Path[d] \in Pkg
  <2>1. Top.todo \in Seq(Dep)
    BY <1>1, StackFacts
  <2> QED
    BY <1>1, <2>1, TailFacts DEF Pkg
<1>3. phase' # "done" /\ (DependencyWins /\ RegisteredAll /\ PubsVisible)'
  <2>1. phase' # "done"
    BY <1>1 DEF ImportNext
  <2> QED
    BY <1>1, <2>1, SameScope DEF IInv
<1>4. CASE Path[d] \in pkgCache
  <2>1. UNCHANGED <<phase, pkgCache, cfgDeps>> /\ stack' = Advance
    BY <1>1, <1>4 DEF ImportNext
  <2>2. TypeOK'
    BY <1>1, <2>1, AdvanceFacts DEF TypeOK
  <2>3. Bottom(pkgCache)'
    BY <1>1, <2>1, AdvanceFacts, StackFacts DEF ImportInv, Bottom
  <2>4. \A p : OnStack(p) => OnStack(p)'
    BY <1>1, <2>1, AdvanceFacts DEF OnStack
  <2>5. \A p, q : ImportTodo(p, q) /\ q # Path[d] => ImportTodo(p, q)'
    <3> TAKE p, q
    <3> HAVE ImportTodo(p, q) /\ q # Path[d]
    <3>1. \E k \in DOMAIN stack : /\ Advance[k].pkg = p
                                  /\ \E j \in DOMAIN Advance[k].todo : Path[Advance[k].todo[j]] = q
      BY <1>1, ImportAdvance
    <3> QED
      BY <1>1, <2>1, <3>1, AdvanceFacts DEF ImportTodo
  <2>6. ASSUME NEW p \in pkgCache \cup {Root}
        PROVE  /\ Lists(p)' /\ (OnStack(p) \/ deps[p] = Paths(cfgDeps[p]))'
               /\ \A q : DependsOn(p, q)' => q \in pkgCache' \/ ImportTodo(p, q)'
    <3>1. /\ Lists(p) /\ (OnStack(p) \/ deps[p] = Paths(cfgDeps[p]))
          /\ \A q : DependsOn(p, q) => q \in pkgCache \/ ImportTodo(p, q)
      BY <1>1 DEF ImportInv
    <3>2. Lists(p)'
      BY <1>1, <2>1, <3>1, SameGraph DEF Lists
    <3>3. (OnStack(p) \/ deps[p] = Paths(cfgDeps[p]))'
      BY <1>1, <2>1, <2>4, <3>1
    <3> QED
      BY <1>1, <1>4, <2>1, <2>5, <3>1, <3>2, <3>3, SameGraph
  <2>7. ImportInv'
    BY <1>1, <2>1, <2>3, <2>6 DEF ImportInv
  <2> QED
    BY <1>1, <1>3, <2>1, <2>2, <2>7 DEF IInv
<1>5. CASE Path[d] \notin pkgCache /\ phase' = phase
  <2> PICK new, ds : new = Path[d] /\ ds = DepsOf(d)
    OBVIOUS
  <2>1. /\ d \in Std \/ new \in HasCfg
        /\ pkgCache' = pkgCache \cup {new} /\ cfgDeps' = [cfgDeps EXCEPT ![new] = ds]
        /\ stack' = Call(new, ds)
    BY <1>1, <1>5 DEF ImportNext, Cached
  <2>2. ds \in Seq(Dep) /\ new \in Node /\ new # Root
    BY <1>1, <1>2, <2>1, GraphFacts DEF DepsOf, Node
  <2> new \notin pkgCache /\ new \in Pkg
    BY <1>2, <1>5
  <2>14. \A q : DependsOn(new, q) <=> \E i \in DOMAIN ds : Path[ds[i]] = q
    <3>1. CASE d \in Std
      <4>1. new \notin HasCfg
        BY <3>1, DepsAssumption
      <4> QED
        BY <3>1, <4>1, <2>2 DEF DependsOn, DepsOf
    <3>2. CASE d \notin Std
      BY <3>2, <2>1, <2>2 DEF DependsOn, DepsOf
    <3> QED
      BY <3>1, <3>2
  <2>3. /\ stack' \in Seq(FrameOf(Dep)) /\ DOMAIN stack' = 1..Len(stack) + 1
        /\ \A k \in DOMAIN stack : stack'[k] = Advance[k]
        /\ stack'[Len(stack) + 1].pkg = new /\ stack'[Len(stack) + 1].todo = ds
    <3>1. /\ Call(new, ds) \in Seq(FrameOf(Dep)) /\ DOMAIN Call(new, ds) = 1..Len(stack) + 1
          /\ \A k \in DOMAIN stack : Call(new, ds)[k] = Advance[k]
          /\ Call(new, ds)[Len(stack) + 1] = Frame(new, ds)
      BY <1>1, <2>2, CallFacts
    <3>2. Frame(new, ds).pkg = new /\ Frame(new, ds).todo = ds
      BY DEF Frame
    <3> QED
      BY <2>1, <3>1, <3>2
  <2>4. Len(stack) \in Nat \ {0} /\ DOMAIN stack = 1..Len(stack)
    BY <1>1, StackFacts
  <2>5. cfgDeps'[new] = ds /\ \A p \in Node : p # new => cfgDeps'[p] = cfgDeps[p]
    BY <1>1, <2>1, <2>2 DEF TypeOK
  <2>6. TypeOK'
    <3>1. cfgDeps' \in [Node -> Seq(Dep)]
      BY <1>1, <2>1, <2>2 DEF TypeOK
    <3> QED
      BY <1>1, <1>2, <1>5, <2>1, <2>3, <3>1 DEF TypeOK
  <2>7. Bottom(pkgCache)'
    <3>1. \A k \in DOMAIN stack : stack'[k].pkg = stack[k].pkg
      BY <1>1, <2>3, AdvanceFacts
    <3>2. stack' # <<>> /\ stack'[1].pkg = Root
      BY <1>1, <2>3, <2>4, <3>1 DEF ImportInv, Bottom
    <3>3. \A k \in DOMAIN stack' : k # 1 => stack'[k].pkg \in pkgCache'
      BY <1>1, <2>1, <2>3, <2>4, <3>1 DEF ImportInv, Bottom
    <3> QED
      BY <3>2, <3>3 DEF Bottom
  <2>8. \A p : OnStack(p) => OnStack(p)'
    BY <1>1, <2>3, <2>4, AdvanceFacts DEF OnStack
  <2>9. \A p, q : ImportTodo(p, q) /\ q # new => ImportTodo(p, q)'
    <3> TAKE p, q
    <3> HAVE ImportTodo(p, q) /\ q # new
    <3>1. PICK k \in DOMAIN stack :
            /\ Advance[k].pkg = p
            /\ \E j \in DOMAIN Advance[k].todo : Path[Advance[k].todo[j]] = q
      BY <1>1, ImportAdvance
    <3>2. k \in DOMAIN stack' /\ stack'[k] = Advance[k]
      BY <2>3, <2>4
    <3> QED
      BY <3>1, <3>2 DEF ImportTodo
  <2>10. ASSUME NEW p \in pkgCache \cup {Root}
         PROVE  /\ Lists(p)' /\ (OnStack(p) \/ deps[p] = Paths(cfgDeps[p]))'
                /\ \A q : DependsOn(p, q)' => q \in pkgCache' \/ ImportTodo(p, q)'
    <3>1. /\ Lists(p) /\ (OnStack(p) \/ deps[p] = Paths(cfgDeps[p]))
          /\ \A q : DependsOn(p, q) => q \in pkgCache \/ ImportTodo(p, q)
      BY <1>1 DEF ImportInv
    <3>2. cfgDeps'[p] = cfgDeps[p] /\ deps'[p] = deps[p]
      BY <1>1, <1>5, <2>2, <2>5 DEF TypeOK, Node
    <3>3. Lists(p)'
      BY <1>1, <3>1, <3>2, SameGraph DEF Lists
    <3>4. (OnStack(p) \/ deps[p] = Paths(cfgDeps[p]))'
      BY <2>8, <3>1, <3>2 DEF Paths
    <3> QED
      BY <1>1, <2>1, <2>9, <3>1, <3>3, <3>4, SameGraph
  <2>11. /\ Lists(new)' /\ OnStack(new)'
         /\ \A q : DependsOn(new, q)' => ImportTodo(new, q)'
    <3>1. OnStack(new)'
      <4>1. Len(stack) + 1 \in DOMAIN stack'
        BY <2>3, <2>4
      <4> QED
        BY <2>3, <4>1 DEF OnStack
    <3>3. Lists(new)'
      BY <1>1, <2>5, <2>14, SameGraph DEF Lists
    <3>4. \A q : DependsOn(new, q)' => ImportTodo(new, q)'
      <4> SUFFICES ASSUME NEW q, \E i \in DOMAIN ds : Path[ds[i]] = q PROVE ImportTodo(new, q)'
        BY <1>1, <2>14, SameGraph
      <4>1. Len(stack) + 1 \in DOMAIN stack'
        BY <2>3, <2>4
      <4> QED
        BY <2>3, <4>1 DEF ImportTodo
    <3> QED
      BY <3>1, <3>3, <3>4
  <2>12. ImportInv'
    BY <1>1, <2>1, <2>7, <2>10, <2>11 DEF ImportInv
  <2> QED
    BY <1>1, <1>3, <1>5, <2>6, <2>12 DEF IInv
<1>6. CASE Path[d] \notin pkgCache /\ phase' # phase
  <2>1. phase' \in {"failed", "overflow"} /\ UNCHANGED <<pkgCache, cfgDeps, stack>>
    BY <1>1, <1>6 DEF ImportNext
  <2> QED
    BY <1>1, <1>3, <2>1 DEF IInv, TypeOK
<1> QED
  BY <1>4, <1>5, <1>6

(* The frame that returns has nothing to do, so what is to do is in the    *)
(* frames below it.                                                        *)
LEMMA ImportReturnKeeps ==
  ASSUME IInv, ImportReturn
  PROVE  IInv'
<1> PICK pkg, imported : pkg = Top.pkg /\ imported = Paths(cfgDeps[pkg])
  OBVIOUS
<1>1. /\ phase = "import" /\ Top.todo = <<>> /\ UNCHANGED <<graph, pkgCache, cfgDeps, regCache, scope>>
      /\ deps' = [deps EXCEPT ![pkg] = imported]
      /\ ImportInv /\ TypeOK /\ stack \in Seq(FrameOf(Dep)) /\ stack # <<>> /\ graph \in Graph
  BY DEF ImportReturn, IInv, TypeOK, ImportInv, Bottom
<1>2. /\ Len(stack) \in Nat \ {0} /\ DOMAIN stack = 1..Len(stack) /\ pkg = stack[Len(stack)].pkg
      /\ stack[Len(stack)].todo = <<>> /\ pkg \in Node
  BY <1>1, StackFacts
<1>3. imported \in Seq(Pkg) /\ DOMAIN imported = DOMAIN cfgDeps[pkg]
  <2>1. cfgDeps[pkg] \in Seq(Dep)
    BY <1>1, <1>2 DEF TypeOK
  <2>2. \A i \in DOMAIN cfgDeps[pkg] : Path[cfgDeps[pkg][i]] \in Pkg
    BY <2>1 DEF Pkg
  <2>3. Len(cfgDeps[pkg]) \in Nat /\ DOMAIN cfgDeps[pkg] = 1..Len(cfgDeps[pkg])
    BY <2>1
  <2> QED
    BY <2>2, <2>3 DEF Paths
<1>4. /\ deps' \in [Node -> Seq(Pkg)] /\ deps'[pkg] = Paths(cfgDeps[pkg])
      /\ \A p \in Node : p # pkg => deps'[p] = deps[p]
  BY <1>1, <1>2, <1>3 DEF TypeOK
<1>5. phase' # "done" /\ (DependencyWins /\ RegisteredAll /\ PubsVisible)'
  <2>1. phase' # "done"
    BY <1>1 DEF ImportReturn
  <2> QED
    BY <1>1, <2>1, SameScope DEF IInv
<1>6. ASSUME NEW p \in pkgCache \cup {Root}, NEW q, DependsOn(p, q), q \notin pkgCache
      PROVE  \E k \in DOMAIN stack : /\ k # Len(stack) /\ stack[k].pkg = p
                                     /\ \E j \in DOMAIN stack[k].todo : Path[stack[k].todo[j]] = q
  <2>1. PICK k \in DOMAIN stack : stack[k].pkg = p /\ \E j \in DOMAIN stack[k].todo : Path[stack[k].todo[j]] = q
    BY <1>1, <1>6 DEF ImportInv, ImportTodo
  <2>2. k # Len(stack)
    BY <1>2, <2>1
  <2> QED
    BY <2>1, <2>2
<1>7. CASE pkg # Root
  <2>1. stack' = Pop /\ phase' = phase
    BY <1>1, <1>7 DEF ImportReturn
  <2>2. /\ stack' \in Seq(FrameOf(Dep)) /\ DOMAIN stack' = 1..Len(stack) - 1
        /\ \A k \in DOMAIN stack' : stack'[k] = stack[k]
    BY <1>1, <2>1, PopFacts
  <2>3. Bottom(pkgCache)'
    <3>1. Len(stack) # 1
      BY <1>1, <1>2, <1>7 DEF ImportInv, Bottom
    <3>2. 1 \in DOMAIN stack' /\ DOMAIN stack' \subseteq DOMAIN stack
      BY <1>2, <2>2, <3>1
    <3>3. stack' # <<>>
      BY <3>2
    <3> QED
      BY <1>1, <2>2, <3>2, <3>3 DEF ImportInv, Bottom
  <2>4. TypeOK'
    BY <1>1, <1>4, <2>1, <2>2 DEF TypeOK
  <2>5. ASSUME NEW p \in pkgCache \cup {Root}
        PROVE  /\ Lists(p)' /\ (OnStack(p) \/ deps[p] = Paths(cfgDeps[p]))'
               /\ \A q : DependsOn(p, q)' => q \in pkgCache' \/ ImportTodo(p, q)'
    <3>1. /\ Lists(p) /\ (OnStack(p) \/ deps[p] = Paths(cfgDeps[p]))
      BY <1>1 DEF ImportInv
    <3>2. Lists(p)'
      BY <1>1, <3>1, SameGraph DEF Lists
    <3>3. \A k \in DOMAIN stack : k # Len(stack) => k \in DOMAIN stack'
      BY <1>2, <2>2
    <3>4. (OnStack(p) \/ deps[p] = Paths(cfgDeps[p]))'
      <4>0. cfgDeps' = cfgDeps /\ p \in Node
        BY <1>1 DEF TypeOK, Node
      <4>1. CASE p = pkg
        BY <4>0, <4>1, <1>4 DEF Paths
      <4>2. CASE p # pkg /\ OnStack(p)
        BY <1>2, <2>2, <3>3, <4>2 DEF OnStack
      <4>3. CASE p # pkg /\ ~OnStack(p)
        BY <1>4, <3>1, <4>0, <4>3 DEF Paths
      <4> QED
        BY <4>1, <4>2, <4>3
    <3>5. ASSUME NEW q, DependsOn(p, q)
          PROVE  q \in pkgCache' \/ ImportTodo(p, q)'
      <4>1. CASE q \in pkgCache
        BY <1>1, <4>1
      <4>2. CASE q \notin pkgCache
        <5>1. PICK k \in DOMAIN stack : /\ k # Len(stack) /\ stack[k].pkg = p
                                        /\ \E j \in DOMAIN stack[k].todo : Path[stack[k].todo[j]] = q
          BY <1>6, <3>5, <4>2
        <5>2. k \in DOMAIN stack' /\ stack'[k] = stack[k]
          BY <2>2, <3>3, <5>1
        <5> QED
          BY <5>1, <5>2 DEF ImportTodo
      <4> QED
        BY <4>1, <4>2
    <3> QED
      BY <1>1, <3>2, <3>4, <3>5, SameGraph
  <2>6. ImportInv'
    BY <1>1, <2>3, <2>5 DEF ImportInv
  <2> QED
    BY <1>1, <1>5, <2>1, <2>4, <2>6 DEF IInv
<1>8. CASE pkg = Root
  <2>1. phase' = "register" /\ stack' = <<Frame(Root, imported)>>
    BY <1>1, <1>8 DEF ImportReturn
  <2>2. /\ stack' \in Seq(FrameOf(Pkg)) /\ DOMAIN stack' = {1} /\ stack' # <<>>
        /\ stack'[1].pkg = Root /\ stack'[1].todo = imported
    <3>1. Frame(Root, imported) \in FrameOf(Pkg) /\ Frame(Root, imported).pkg = Root /\ Frame(Root, imported).todo = imported
      BY <1>3 DEF Frame, FrameOf, Node
    <3> QED
      BY <2>1, <3>1
  <2>3. Len(stack) = 1
    <3>1. pkgCache \subseteq Pkg /\ Root \notin Pkg
      BY <1>1, GraphFacts DEF TypeOK
    <3>2. stack[Len(stack)].pkg \notin pkgCache /\ Len(stack) \in DOMAIN stack
      BY <1>2, <1>8, <3>1
    <3>3. \A k \in DOMAIN stack : k # 1 => stack[k].pkg \in pkgCache
      BY <1>1 DEF ImportInv, Bottom
    <3> QED
      BY <3>2, <3>3
  <2>4. \A p \in pkgCache \cup {Root} : \A q : DependsOn(p, q) => q \in pkgCache
    BY <1>2, <1>6, <2>3
  <2>5. \A p \in pkgCache \cup {Root} : deps'[p] = Paths(cfgDeps[p])
    <3> TAKE p \in pkgCache \cup {Root}
    <3>1. CASE p = Root
      BY <1>4, <1>8, <3>1
    <3>2. CASE p # Root
      <4>1. ~OnStack(p)
        <5>1. DOMAIN stack = 1..1 /\ stack[1].pkg = Root
          BY <1>2, <1>8, <2>3
        <5>2. \A k \in 1..1 : k = 1
          OBVIOUS
        <5> QED
          BY <3>2, <5>1, <5>2 DEF OnStack
      <4>2. deps[p] = Paths(cfgDeps[p])
        BY <1>1, <4>1 DEF ImportInv
      <4>3. p \in Node
        BY <1>1 DEF TypeOK, Node
      <4> QED
        BY <1>4, <1>8, <3>2, <4>2, <4>3
    <3> QED
      BY <3>1, <3>2
  <2>6. \A p \in pkgCache \cup {Root} : \A q : DependsOn(p, q) <=> \E i \in DOMAIN deps'[p] : deps'[p][i] = q
    <3> TAKE p \in pkgCache \cup {Root}
    <3>1. \A q : DependsOn(p, q) <=> \E i \in DOMAIN cfgDeps[p] : Path[cfgDeps[p][i]] = q
      BY <1>1 DEF ImportInv, Lists
    <3>2. deps'[p] = [i \in DOMAIN cfgDeps[p] |-> Path[cfgDeps[p][i]]]
      BY <2>5 DEF Paths
    <3>3. DOMAIN deps'[p] = DOMAIN cfgDeps[p] /\ \A i \in DOMAIN cfgDeps[p] : deps'[p][i] = Path[cfgDeps[p][i]]
      BY <3>2
    <3> QED
      BY <3>1, <3>3
  <2>7. Loaded'
    BY <1>1, <2>4, <2>6, SameGraph DEF Loaded
  <2>8. TypeOK'
    BY <1>1, <1>4, <2>1, <2>2 DEF TypeOK
  <2>9. /\ regCache' = {} /\ DOMAIN scope' = {} /\ imported = deps'[Root]
    BY <1>1, <1>4, <1>8 DEF ImportInv
  <2>10. \A q : DependsOn(Root, q)' <=> \E j \in DOMAIN imported : imported[j] = q
    BY <1>1, <2>6, <2>9, SameGraph
  <2>11. \A q : DependsOn(Root, q)' => RegisterTodo(Root, q)'
    BY <2>2, <2>10 DEF RegisterTodo
  <2>12. TodoListed'
    BY <1>1, <2>2, <2>6, <2>9 DEF TodoListed, DependsOn
  <2>13. Chained'
    BY <2>2 DEF Chained
  <2>14. RegisterInv'
    BY <2>2, <2>7, <2>9, <2>11, <2>12, <2>13 DEF RegisterInv, Bottom
  <2> QED
    BY <1>5, <2>1, <2>8, <2>14 DEF IInv
<1> QED
  BY <1>7, <1>8

-----------------------------------------------------------------------------
LEMMA RegisterAdvance ==
  ASSUME stack \in Seq(FrameOf(Pkg)), stack # <<>>, Top.todo # <<>>
  PROVE  /\ \A p, q : RegisterTodo(p, q) /\ q # Head(Top.todo) =>
              \E k \in DOMAIN stack : /\ Advance[k].pkg = p
                                      /\ \E j \in DOMAIN Advance[k].todo : Advance[k].todo[j] = q
         /\ \A k \in DOMAIN stack : \A j \in DOMAIN Advance[k].todo :
              \E i \in DOMAIN stack[k].todo : Advance[k].todo[j] = stack[k].todo[i]
<1>1. Top.todo \in Seq(Pkg) /\ Top = stack[Len(stack)]
  BY StackFacts
<1>2. ASSUME NEW p, NEW q, RegisterTodo(p, q), q # Head(Top.todo)
      PROVE  \E k \in DOMAIN stack : /\ Advance[k].pkg = p
                                     /\ \E j \in DOMAIN Advance[k].todo : Advance[k].todo[j] = q
  <2>1. PICK k \in DOMAIN stack : stack[k].pkg = p /\ \E j \in DOMAIN stack[k].todo : stack[k].todo[j] = q
    BY <1>2 DEF RegisterTodo
  <2>2. Advance[k].pkg = p
    BY <2>1, AdvanceFacts
  <2>3. CASE k # Len(stack)
    BY <2>1, <2>2, <2>3, AdvanceFacts
  <2>4. CASE k = Len(stack)
    <3>1. PICK j \in DOMAIN Top.todo : Top.todo[j] = q
      BY <2>1, <2>4, <1>1
    <3>2. j - 1 \in DOMAIN Tail(Top.todo) /\ Tail(Top.todo)[j - 1] = Top.todo[j]
      BY <1>1, <1>2, <3>1, TailFacts
    <3>3. Advance[k].todo = Tail(Top.todo)
      BY <2>4, AdvanceFacts
    <3> QED
      BY <2>2, <3>1, <3>2, <3>3
  <2> QED
    BY <2>3, <2>4
<1>3. ASSUME NEW k \in DOMAIN stack, NEW j \in DOMAIN Advance[k].todo
      PROVE  \E i \in DOMAIN stack[k].todo : Advance[k].todo[j] = stack[k].todo[i]
  <2>1. CASE k # Len(stack)
    BY <1>3, <2>1, AdvanceFacts
  <2>2. CASE k = Len(stack)
    <3>1. Advance[k].todo = Tail(Top.todo) /\ stack[k].todo = Top.todo
      BY <1>1, <2>2, AdvanceFacts
    <3>2. j + 1 \in DOMAIN Top.todo /\ Tail(Top.todo)[j] = Top.todo[j + 1]
      BY <1>1, <1>3, <3>1, TailFacts
    <3> QED
      BY <3>1, <3>2
  <2> QED
    BY <2>1, <2>2
<1> QED
  BY <1>2, <1>3

(* The top frame is that of a package reached from the root, and so is     *)
(* what it has to do.                                                      *)
LEMMA TopFacts ==
  ASSUME IInv, phase = "register"
  PROVE  /\ RegisterInv /\ TypeOK /\ stack \in Seq(FrameOf(Pkg)) /\ stack # <<>> /\ graph \in Graph
         /\ Len(stack) \in Nat \ {0} /\ DOMAIN stack = 1..Len(stack) /\ Top = stack[Len(stack)]
         /\ Top.todo \in Seq(Pkg) /\ Top.pkg \in regCache \cup {Root}
         /\ Len(stack) = 1 <=> Top.pkg = Root
<1>1. RegisterInv /\ TypeOK /\ stack \in Seq(FrameOf(Pkg)) /\ stack # <<>> /\ graph \in Graph
  BY DEF IInv, TypeOK, RegisterInv, Bottom
<1>2. Len(stack) \in Nat \ {0} /\ DOMAIN stack = 1..Len(stack) /\ Top = stack[Len(stack)] /\ Top.todo \in Seq(Pkg)
  BY <1>1, StackFacts
<1>3. /\ stack[1].pkg = Root /\ \A k \in DOMAIN stack : k # 1 => stack[k].pkg \in regCache
      /\ Root \notin regCache
  BY <1>1, GraphFacts DEF RegisterInv, Bottom, TypeOK
<1>4. Len(stack) \in DOMAIN stack
  BY <1>2
<1> QED
  BY <1>1, <1>2, <1>3, <1>4

LEMMA RegisterNextKeeps ==
  ASSUME IInv, RegisterNext
  PROVE  IInv'
<1> PICK new, ds : new = Head(Top.todo) /\ ds = deps[new]
  OBVIOUS
<1>1. phase = "register" /\ Top.todo # <<>> /\ UNCHANGED <<graph, pkgCache, cfgDeps, deps>>
  BY DEF RegisterNext
<1>2. /\ RegisterInv /\ TypeOK /\ stack \in Seq(FrameOf(Pkg)) /\ stack # <<>> /\ graph \in Graph
      /\ Len(stack) \in Nat \ {0} /\ DOMAIN stack = 1..Len(stack) /\ Top = stack[Len(stack)]
      /\ Top.todo \in Seq(Pkg) /\ Top.pkg \in regCache \cup {Root}
  BY <1>1, TopFacts
<1>3. new \in Pkg /\ DependsOn(Top.pkg, new)
  <2>1. new \in Pkg /\ 1 \in DOMAIN Top.todo /\ new = Top.todo[1] /\ Len(stack) \in DOMAIN stack
    BY <1>1, <1>2, TailFacts
  <2> QED
    BY <1>2, <2>1 DEF RegisterInv, TodoListed
<1>4. UNCHANGED scope /\ phase' # "done"
  BY <1>1 DEF RegisterNext, OnEntry
<1>5. (DependencyWins /\ RegisteredAll /\ PubsVisible)'
  BY <1>1, <1>4, SameScope DEF IInv
<1>6. Loaded'
  BY <1>1, <1>2, SameGraph DEF RegisterInv, Loaded
<1>7. CASE new \in regCache
  <2>1. UNCHANGED <<phase, regCache>> /\ stack' = Advance
    BY <1>1, <1>7 DEF RegisterNext
  <2>2. TypeOK'
    BY <1>1, <1>2, <2>1, AdvanceFacts DEF TypeOK
  <2>3. /\ DOMAIN stack' = DOMAIN stack /\ stack' # <<>>
        /\ \A k \in DOMAIN stack : stack'[k].pkg = stack[k].pkg
    BY <1>1, <1>2, <2>1, AdvanceFacts
  <2>4. Bottom(regCache)' /\ Chained'
    <3>1. Bottom(regCache)'
      BY <1>2, <2>1, <2>3 DEF RegisterInv, Bottom
    <3>2. \A k, l \in DOMAIN stack' : k < l => stack'[l].pkg \in Reaches(stack[k].pkg)
      BY <1>2, <2>3 DEF RegisterInv, Chained
    <3>3. \A k, l \in DOMAIN stack' : k < l => stack'[l].pkg \in Reaches(stack'[k].pkg)
      BY <2>3, <3>2
    <3> QED
      BY <1>1, <3>1, <3>3 DEF Chained, Reaches, Closed, DependsOn
  <2>5. TodoListed'
    <3>1. \A k \in DOMAIN stack' : \A j \in DOMAIN stack'[k].todo : DependsOn(stack[k].pkg, stack'[k].todo[j])
      BY <1>1, <1>2, <2>1, <2>3, RegisterAdvance DEF RegisterInv, TodoListed
    <3> QED
      BY <1>1, <2>3, <3>1 DEF TodoListed, DependsOn
  <2>6. \A p : OnStack(p) => OnStack(p)'
    BY <2>3 DEF OnStack
  <2>7. \A p, q : RegisterTodo(p, q) /\ q # new => RegisterTodo(p, q)'
    <3> TAKE p, q
    <3> HAVE RegisterTodo(p, q) /\ q # new
    <3>1. PICK k \in DOMAIN stack : /\ Advance[k].pkg = p
                                    /\ \E j \in DOMAIN Advance[k].todo : Advance[k].todo[j] = q
      BY <1>1, <1>2, RegisterAdvance
    <3>2. k \in DOMAIN stack' /\ stack'[k] = Advance[k]
      BY <2>1, <2>3
    <3> QED
      BY <3>1, <3>2 DEF RegisterTodo
  <2>8. ASSUME NEW p \in regCache \cup {Root}, NEW q, DependsOn(p, q)
        PROVE  q \in regCache' \/ RegisterTodo(p, q)'
    BY <1>2, <1>7, <2>1, <2>7, <2>8 DEF RegisterInv
  <2>9. \A p \in regCache : OnStack(p)' \/ Published(p) \subseteq DOMAIN scope
    BY <1>2, <2>6 DEF RegisterInv
  <2>10. \A c \in DOMAIN scope : Bound(c)'
    BY <1>2, <1>4, <2>1 DEF RegisterInv, Bound
  <2>11. regCache \subseteq pkgCache \cap Reaches(Root)
    BY <1>2 DEF RegisterInv
  <2>12. RegisterInv'
    BY <1>1, <1>4, <1>6, <2>1, <2>4, <2>5, <2>8, <2>9, <2>10, <2>11, SameGraph DEF RegisterInv, Published
  <2> QED
    BY <1>1, <1>5, <2>1, <2>2, <2>12 DEF IInv
<1>8. CASE new \notin regCache /\ phase' = phase
  <2>1. regCache' = regCache \cup {new} /\ stack' = Call(new, ds)
    BY <1>1, <1>8 DEF RegisterNext
  <2>2. new \in Node /\ ds \in Seq(Pkg)
    BY <1>2, <1>3 DEF TypeOK, Node
  <2>3. new \in pkgCache /\ new \in Reaches(Root)
    <3>1. new \in pkgCache
      BY <1>2, <1>3 DEF RegisterInv, Loaded
    <3>2. Top.pkg = Root \/ Top.pkg \in Reaches(Root)
      BY <1>2 DEF RegisterInv
    <3> QED
      BY <1>2, <1>3, <3>1, <3>2, ReachesFacts
  <2>4. /\ stack' \in Seq(FrameOf(Pkg)) /\ DOMAIN stack' = 1..Len(stack) + 1
        /\ \A k \in DOMAIN stack : stack'[k] = Advance[k]
        /\ stack'[Len(stack) + 1].pkg = new /\ stack'[Len(stack) + 1].todo = ds
    <3>1. /\ Call(new, ds) \in Seq(FrameOf(Pkg)) /\ DOMAIN Call(new, ds) = 1..Len(stack) + 1
          /\ \A k \in DOMAIN stack : Call(new, ds)[k] = Advance[k]
          /\ Call(new, ds)[Len(stack) + 1] = Frame(new, ds)
      BY <1>1, <1>2, <2>2, CallFacts
    <3>2. Frame(new, ds).pkg = new /\ Frame(new, ds).todo = ds
      BY DEF Frame
    <3> QED
      BY <2>1, <3>1, <3>2
  <2>5. /\ \A k \in DOMAIN stack' : k \in DOMAIN stack \/ k = Len(stack) + 1
        /\ \A k \in DOMAIN stack : k \in DOMAIN stack' /\ stack'[k].pkg = stack[k].pkg /\ k # Len(stack) + 1
        /\ Len(stack) + 1 \in DOMAIN stack' /\ Len(stack) + 1 # 1 /\ stack' # <<>> /\ 1 \in DOMAIN stack
    BY <1>1, <1>2, <2>4, AdvanceFacts
  <2>6. TypeOK'
    BY <1>1, <1>2, <1>3, <1>8, <2>1, <2>4 DEF TypeOK
  <2>7. Bottom(regCache)'
    BY <1>2, <2>1, <2>4, <2>5 DEF RegisterInv, Bottom
  <2>8. Chained'
    <3>1. \A k, l \in DOMAIN stack : k < l => stack'[l].pkg \in Reaches(stack'[k].pkg)
      BY <1>2, <2>5 DEF RegisterInv, Chained
    <3>2. ASSUME NEW k \in DOMAIN stack
          PROVE  new \in Reaches(stack[k].pkg)
      <4>1. CASE k = Len(stack)
        BY <1>2, <1>3, <4>1, ReachesFacts
      <4>2. CASE k # Len(stack)
        <5>1. k < Len(stack) /\ Len(stack) \in DOMAIN stack
          BY <1>2, <4>2
        <5>2. Top.pkg \in Reaches(stack[k].pkg)
          BY <1>2, <5>1 DEF RegisterInv, Chained
        <5>3. new \in Reaches(Top.pkg)
          BY <1>2, <1>3, ReachesFacts
        <5> QED
          BY <1>2, <5>2, <5>3, ReachesFacts
      <4> QED
        BY <4>1, <4>2
    <3>3. \A k \in DOMAIN stack : stack'[Len(stack) + 1].pkg \in Reaches(stack'[k].pkg)
      BY <2>4, <2>5, <3>2
    <3>4. ASSUME NEW k \in DOMAIN stack', NEW l \in DOMAIN stack', k < l
          PROVE  k \in DOMAIN stack /\ (l \in DOMAIN stack \/ l = Len(stack) + 1)
      BY <1>2, <2>4, <3>4
    <3>5. \A k, l \in DOMAIN stack' : k < l => stack'[l].pkg \in Reaches(stack'[k].pkg)
      BY <3>1, <3>3, <3>4
    <3> QED
      BY <1>1, <3>5 DEF Chained, Reaches, Closed, DependsOn
  <2>9. \A q : DependsOn(new, q) <=> \E i \in DOMAIN ds : ds[i] = q
    BY <1>2, <2>3 DEF RegisterInv, Loaded
  <2>10. TodoListed'
    <3>1. \A k \in DOMAIN stack : \A j \in DOMAIN stack'[k].todo : DependsOn(stack[k].pkg, stack'[k].todo[j])
      BY <1>1, <1>2, <2>4, RegisterAdvance DEF RegisterInv, TodoListed
    <3>2. \A j \in DOMAIN ds : DependsOn(new, ds[j])
      BY <2>9
    <3>3. \A k \in DOMAIN stack' : \A j \in DOMAIN stack'[k].todo : DependsOn(stack'[k].pkg, stack'[k].todo[j])
      BY <2>4, <2>5, <3>1, <3>2
    <3> QED
      BY <1>1, <3>3 DEF TodoListed, DependsOn
  <2>11. \A p : OnStack(p) => OnStack(p)'
    BY <2>5 DEF OnStack
  <2>12. OnStack(new)'
    BY <2>4, <2>5 DEF OnStack
  <2>13. \A p, q : RegisterTodo(p, q) /\ q # new => RegisterTodo(p, q)'
    <3> TAKE p, q
    <3> HAVE RegisterTodo(p, q) /\ q # new
    <3>1. PICK k \in DOMAIN stack : /\ Advance[k].pkg = p
                                    /\ \E j \in DOMAIN Advance[k].todo : Advance[k].todo[j] = q
      BY <1>1, <1>2, RegisterAdvance
    <3>2. k \in DOMAIN stack' /\ stack'[k] = Advance[k]
      BY <2>4, <2>5
    <3> QED
      BY <3>1, <3>2 DEF RegisterTodo
  <2>14. \A q : DependsOn(new, q) => RegisterTodo(new, q)'
    BY <2>4, <2>5, <2>9 DEF RegisterTodo
  <2>15. ASSUME NEW p \in regCache' \cup {Root}, NEW q, DependsOn(p, q)
         PROVE  q \in regCache' \/ RegisterTodo(p, q)'
    <3>1. CASE p = new
      BY <2>14, <2>15, <3>1
    <3>2. CASE p # new
      <4>1. q \in regCache \/ RegisterTodo(p, q)
        BY <1>2, <2>1, <2>15, <3>2 DEF RegisterInv
      <4> QED
        BY <2>1, <2>13, <4>1
    <3> QED
      BY <3>1, <3>2
  <2>16. \A p \in regCache' : OnStack(p)' \/ Published(p) \subseteq DOMAIN scope
    BY <1>2, <2>1, <2>11, <2>12 DEF RegisterInv
  <2>17. \A c \in DOMAIN scope : Bound(c)'
    BY <1>2, <1>4, <2>1 DEF RegisterInv, Bound
  <2>18. regCache' \subseteq pkgCache \cap Reaches(Root)
    BY <1>2, <2>1, <2>3 DEF RegisterInv
  <2>19. RegisterInv'
    BY <1>1, <1>4, <1>6, <2>7, <2>8, <2>10, <2>15, <2>16, <2>17, <2>18, SameGraph DEF RegisterInv, Published
  <2> QED
    BY <1>1, <1>5, <1>8, <2>6, <2>19 DEF IInv
<1>9. CASE new \notin regCache /\ phase' # phase
  <2>1. phase' = "overflow" /\ UNCHANGED <<stack, regCache>>
    BY <1>1, <1>9 DEF RegisterNext
  <2> QED
    BY <1>1, <1>2, <1>5, <2>1 DEF IInv, TypeOK
<1> QED
  BY <1>7, <1>8, <1>9

(* What a package that does not depend on itself reaches has been          *)
(* registered, types included, when its own registration returns: nothing  *)
(* it reaches is still on the stack, for that would reach it in turn.      *)
LEMMA DependenciesFirst ==
  ASSUME IInv, phase = "register", Top.todo = <<>>, Top.pkg # Root, Top.pkg \notin Reaches(Top.pkg)
  PROVE  \A q \in Reaches(Top.pkg) : q \in regCache /\ ~OnStack(q)
<1> PICK pkg : pkg = Top.pkg
  OBVIOUS
<1> DEFINE S == {q \in regCache : q \in Reaches(pkg) /\ ~OnStack(q)}
<1>1. /\ RegisterInv /\ TypeOK /\ graph \in Graph
      /\ Len(stack) \in Nat \ {0} /\ DOMAIN stack = 1..Len(stack) /\ pkg = stack[Len(stack)].pkg
      /\ pkg \in regCache /\ stack[Len(stack)].todo = <<>> /\ pkg \notin Reaches(pkg)
  BY TopFacts
<1>2. \A k \in DOMAIN stack : k # Len(stack) => pkg \in Reaches(stack[k].pkg)
  <2>1. \A k \in DOMAIN stack : k # Len(stack) => k < Len(stack) /\ Len(stack) \in DOMAIN stack
    BY <1>1
  <2> QED
    BY <1>1, <2>1 DEF RegisterInv, Chained
<1>3. ASSUME NEW q \in Reaches(pkg)
      PROVE  ~OnStack(q)
  <2> SUFFICES ASSUME NEW k \in DOMAIN stack, stack[k].pkg = q
               PROVE  FALSE
    BY DEF OnStack
  <2>1. k # Len(stack)
    BY <1>1, <1>3
  <2>2. pkg \in Reaches(q)
    BY <1>2, <2>1
  <2> QED
    BY <1>1, <1>3, <2>2, ReachesFacts
<1>4. ASSUME NEW q, DependsOn(pkg, q)
      PROVE  q \in S
  <2>1. q \in Reaches(pkg)
    BY <1>1, <1>4, ReachesFacts
  <2>2. ~RegisterTodo(pkg, q)
    <3> SUFFICES ASSUME NEW k \in DOMAIN stack, stack[k].pkg = pkg, NEW j \in DOMAIN stack[k].todo
                 PROVE  FALSE
      BY DEF RegisterTodo
    <3>1. k # Len(stack)
      BY <1>1
    <3> QED
      BY <1>1, <1>2, <3>1
  <2>3. q \in regCache
    BY <1>1, <1>4, <2>2 DEF RegisterInv
  <2> QED
    BY <1>3, <2>1, <2>3
<1>5. ASSUME NEW p \in S, NEW q, DependsOn(p, q)
      PROVE  q \in S
  <2>1. q \in Reaches(pkg)
    BY <1>1, <1>5, ReachesFacts
  <2>2. ~RegisterTodo(p, q)
    BY <1>5 DEF RegisterTodo, OnStack
  <2>3. q \in regCache
    BY <1>1, <1>5, <2>2 DEF RegisterInv
  <2> QED
    BY <1>3, <2>1, <2>3
<1>6. S \in SUBSET Pkg
  BY <1>1 DEF TypeOK
<1>7. Closed(S)
  BY <1>5 DEF Closed
<1> HIDE DEF S
<1>8. Reaches(pkg) \subseteq S
  BY <1>1, <1>4, <1>6, <1>7, ReachesFacts
<1> QED
  BY <1>8 DEF S

LEMMA RegisterReturnKeeps ==
  ASSUME IInv, RegisterReturn
  PROVE  IInv'
<1> PICK pkg : pkg = Top.pkg
  OBVIOUS
<1>1. /\ phase = "register" /\ Top.todo = <<>> /\ UNCHANGED <<graph, pkgCache, cfgDeps, deps, regCache>>
      /\ scope' = OnReturn(pkg)
  BY DEF RegisterReturn
<1>2. /\ RegisterInv /\ TypeOK /\ stack \in Seq(FrameOf(Pkg)) /\ stack # <<>> /\ graph \in Graph
      /\ Len(stack) \in Nat \ {0} /\ DOMAIN stack = 1..Len(stack) /\ pkg = stack[Len(stack)].pkg
      /\ stack[Len(stack)].todo = <<>> /\ pkg \in regCache \cup {Root}
      /\ Len(stack) = 1 <=> pkg = Root
  BY <1>1, TopFacts
<1>3. ASSUME NEW p \in regCache \cup {Root}, NEW q, DependsOn(p, q), q \notin regCache
      PROVE  \E k \in DOMAIN stack : /\ k # Len(stack) /\ stack[k].pkg = p
                                     /\ \E j \in DOMAIN stack[k].todo : stack[k].todo[j] = q
  <2>0. RegisterTodo(p, q)
    BY <1>2, <1>3 DEF RegisterInv
  <2>1. PICK k \in DOMAIN stack : stack[k].pkg = p /\ \E j \in DOMAIN stack[k].todo : stack[k].todo[j] = q
    BY <2>0 DEF RegisterTodo
  <2>2. k # Len(stack)
    BY <1>2, <2>1
  <2> QED
    BY <2>1, <2>2
<1>4. CASE pkg = Root
  <2>1. phase' = "done" /\ UNCHANGED <<stack, scope>>
    BY <1>1, <1>4 DEF RegisterReturn, OnReturn
  <2>2. \A k \in DOMAIN stack : k = Len(stack)
    <3>1. Len(stack) = 1
      BY <1>2, <1>4
    <3>2. \A k \in 1..1 : k = 1
      OBVIOUS
    <3> QED
      BY <1>2, <3>1, <3>2
  <2>3. regCache = Reaches(Root)
    <3>1. \A p \in regCache \cup {Root} : \A q : DependsOn(p, q) => q \in regCache
      BY <1>3, <2>2
    <3>2. Closed(regCache) /\ regCache \in SUBSET Pkg
      BY <1>2, <3>1 DEF Closed, TypeOK
    <3>3. Reaches(Root) \subseteq regCache
      BY <1>2, <3>1, <3>2, ReachesFacts
    <3> QED
      BY <1>2, <3>3 DEF RegisterInv
  <2>4. \A p \in regCache : Published(p) \subseteq DOMAIN scope
    <3>1. \A p \in regCache : p # Root
      BY <1>2, GraphFacts DEF TypeOK
    <3>2. \A p \in regCache : ~OnStack(p)
      BY <1>2, <1>4, <2>2, <3>1 DEF OnStack
    <3> QED
      BY <1>2, <3>2 DEF RegisterInv
  <2>5. \A c \in DOMAIN scope : Bound(c)
    BY <1>2 DEF RegisterInv
  <2>6. \A p \in Reaches(Root) : \A c \in DOMAIN Pubs[p] : Pubs[p][c] \in Defines[p] =>
          /\ c \in DOMAIN scope
          /\ \E q \in Reaches(Root) : /\ c \in DOMAIN Pubs[q] /\ scope[c].pkg = q
                                      /\ scope[c].go = Pubs[q][c]
    BY <2>3, <2>4, <2>5 DEF Published, Bound
  <2>7. (RegisteredAll /\ PubsVisible)'
    BY <1>1, <2>1, <2>3, <2>6, SameGraph DEF RegisteredAll, PubsVisible
  <2>8. DependencyWins'
    BY <1>1, <2>1, SameGraph DEF IInv, DependencyWins
  <2>9. TypeOK'
    BY <1>1, <1>2, <2>1 DEF TypeOK
  <2> QED
    BY <2>1, <2>7, <2>8, <2>9 DEF IInv
<1>5. CASE pkg # Root
  <2>1. phase' = phase /\ stack' = Pop /\ scope' = InsertPubs(pkg) /\ pkg \in regCache
    BY <1>1, <1>2, <1>5 DEF RegisterReturn, OnReturn
  <2>2. /\ stack' \in Seq(FrameOf(Pkg)) /\ DOMAIN stack' = 1..Len(stack) - 1
        /\ \A k \in DOMAIN stack' : stack'[k] = stack[k]
    BY <1>2, <2>1, PopFacts
  <2>3. /\ DOMAIN stack' \subseteq DOMAIN stack /\ stack' # <<>> /\ 1 \in DOMAIN stack'
        /\ \A k \in DOMAIN stack : k # Len(stack) => k \in DOMAIN stack'
    <3>1. /\ DOMAIN stack' \subseteq DOMAIN stack /\ 1 \in DOMAIN stack'
          /\ \A k \in DOMAIN stack : k # Len(stack) => k \in DOMAIN stack'
      BY <1>2, <1>5, <2>2
    <3> QED
      BY <3>1
  <2>4. TypeOK'
    BY <1>1, <1>2, <2>1, <2>2 DEF TypeOK
  <2>5. Bottom(regCache)'
    <3>1. stack[1].pkg = Root /\ \A k \in DOMAIN stack : k # 1 => stack[k].pkg \in regCache
      BY <1>2 DEF RegisterInv, Bottom
    <3>2. stack'[1].pkg = Root
      BY <2>2, <2>3, <3>1
    <3>3. \A k \in DOMAIN stack' : k # 1 => stack'[k].pkg \in regCache'
      BY <1>1, <2>2, <2>3, <3>1
    <3> QED
      BY <2>3, <3>2, <3>3 DEF Bottom
  <2>6. Loaded'
    <3>1. Loaded
      BY <1>2 DEF RegisterInv
    <3>2. UNCHANGED <<graph, pkgCache, deps>>
      BY <1>1
    <3>3. Loaded <=> Loaded'
      BY <3>2 DEF Loaded, DependsOn
    <3> QED
      BY <3>1, <3>3
  <2>7. TodoListed'
    <3>1. \A k \in DOMAIN stack' : \A j \in DOMAIN stack'[k].todo : DependsOn(stack'[k].pkg, stack'[k].todo[j])
      BY <1>2, <2>2, <2>3 DEF RegisterInv, TodoListed
    <3> QED
      BY <1>1, <3>1 DEF TodoListed, DependsOn
  <2>8. Chained'
    <3>1. \A k, l \in DOMAIN stack' : k < l => stack'[l].pkg \in Reaches(stack'[k].pkg)
      BY <1>2, <2>2, <2>3 DEF RegisterInv, Chained
    <3> QED
      BY <1>1, <3>1 DEF Chained, Reaches, Closed, DependsOn
  <2>9. ASSUME NEW p \in regCache \cup {Root}, NEW q, DependsOn(p, q), q \notin regCache
        PROVE  RegisterTodo(p, q)'
    <3>1. PICK k \in DOMAIN stack : /\ k # Len(stack) /\ stack[k].pkg = p
                                    /\ \E j \in DOMAIN stack[k].todo : stack[k].todo[j] = q
      BY <1>3, <2>9
    <3>2. k \in DOMAIN stack' /\ stack'[k] = stack[k]
      BY <2>2, <2>3, <3>1
    <3> QED
      BY <3>1, <3>2 DEF RegisterTodo
  <2> PICK new : new = Published(pkg) \ DOMAIN scope
    OBVIOUS
  <2>10. /\ DOMAIN scope' = DOMAIN scope \cup new
         /\ \A c \in DOMAIN scope : scope'[c] = scope[c]
         /\ \A c \in new : scope'[c] = [pkg |-> pkg, go |-> Pubs[pkg][c]]
    BY <2>1 DEF InsertPubs, Published
  <2>11. \A c \in DOMAIN scope' : Bound(c)'
    <3>1. \A c \in DOMAIN scope : Bound(c)
      BY <1>2 DEF RegisterInv
    <3>2. \A c \in DOMAIN scope : Bound(c)'
      BY <1>1, <2>10, <3>1 DEF Bound
    <3>3. \A c \in new : Bound(c)'
      <4> TAKE c \in new
      <4>1. scope'[c].pkg = pkg /\ scope'[c].go = Pubs[pkg][c] /\ c \in DOMAIN Pubs[pkg]
        <5>1. scope'[c] = [pkg |-> pkg, go |-> Pubs[pkg][c]]
          BY <2>10
        <5>2. c \in Published(pkg)
          OBVIOUS
        <5> QED
          BY <5>1, <5>2 DEF Published
      <4> QED
        BY <1>1, <2>1, <4>1 DEF Bound
    <3> QED
      BY <2>10, <3>2, <3>3
  <2>12. \A p \in regCache : OnStack(p)' \/ Published(p) \subseteq DOMAIN scope'
    <3> TAKE p \in regCache
    <3>1. CASE p = pkg
      BY <2>10, <3>1
    <3>2. CASE p # pkg /\ OnStack(p)
      <4>1. PICK k \in DOMAIN stack : stack[k].pkg = p
        BY <3>2 DEF OnStack
      <4>2. k \in DOMAIN stack' /\ stack'[k].pkg = p
        BY <1>2, <2>2, <2>3, <3>2, <4>1
      <4> QED
        BY <4>2 DEF OnStack
    <3>3. CASE p # pkg /\ ~OnStack(p)
      BY <1>2, <2>10, <3>3 DEF RegisterInv
    <3> QED
      BY <3>1, <3>2, <3>3
  <2>13. regCache' \subseteq pkgCache \cap Reaches(Root)
    BY <1>1, <1>2 DEF RegisterInv
  <2>14. RegisterInv'
    BY <1>1, <2>5, <2>6, <2>7, <2>8, <2>9, <2>11, <2>12, <2>13, SameGraph DEF RegisterInv, Published
  <2>15. DependencyWins'
    <3>1. ASSUME NEW c \in DOMAIN scope', NEW p, p = scope'[c].pkg, p \notin Reaches(p), NEW q \in Reaches(p)
          PROVE  c \notin Published(q)
      <4>1. CASE c \in DOMAIN scope
        <5>1. scope[c].pkg = p
          BY <2>10, <3>1, <4>1
        <5>2. DependencyWins
          BY DEF IInv
        <5>3. ~(c \in DOMAIN Pubs[q] /\ Pubs[q][c] \in Defines[q])
          BY <3>1, <4>1, <5>1, <5>2 DEF DependencyWins
        <5> QED
          BY <5>3 DEF Published
      <4>2. CASE c \in new
        <5>1. p = pkg
          <6>1. scope'[c] = [pkg |-> pkg, go |-> Pubs[pkg][c]]
            BY <2>10, <4>2
          <6> QED
            BY <3>1, <6>1
        <5>2. q \in regCache /\ ~OnStack(q)
          BY <1>1, <1>5, <3>1, <5>1, DependenciesFirst
        <5>3. Published(q) \subseteq DOMAIN scope
          BY <1>2, <5>2 DEF RegisterInv
        <5> QED
          BY <4>2, <5>3
      <4> QED
        BY <2>10, <3>1, <4>1, <4>2
    <3>2. \A p : Reaches(p)' = Reaches(p)
      BY <1>1, SameGraph
    <3>3. \A c \in DOMAIN scope' : scope'[c].pkg \notin Reaches(scope'[c].pkg) =>
            \A q \in Reaches(scope'[c].pkg) : ~(c \in DOMAIN Pubs[q] /\ Pubs[q][c] \in Defines[q])
      BY <3>1 DEF Published
    <3> QED
      BY <1>1, <3>3 DEF DependencyWins, Reaches, Closed, DependsOn
  <2> QED
    BY <1>1, <2>1, <2>4, <2>14, <2>15 DEF IInv, RegisteredAll, PubsVisible
<1> QED
  BY <1>4, <1>5

LEMMA StepKeeps == IInv /\ [Next]_vars => IInv'
<1> SUFFICES ASSUME IInv, [Next]_vars PROVE IInv'
  OBVIOUS
<1>1. CASE UNCHANGED vars
  <2>1. UNCHANGED <<graph, phase, pkgCache, cfgDeps, deps, stack, regCache, scope>>
    BY <1>1 DEF vars
  <2>2. (phase = "import" => ImportInv)' /\ (phase = "register" => RegisterInv)'
    <3>1. (Bottom(pkgCache) <=> Bottom(pkgCache)') /\ (Bottom(regCache) <=> Bottom(regCache)')
      BY <2>1 DEF Bottom
    <3>2. \A p, q : /\ ImportTodo(p, q) <=> ImportTodo(p, q)'
                    /\ RegisterTodo(p, q) <=> RegisterTodo(p, q)'
      BY <2>1 DEF ImportTodo, RegisterTodo
    <3>3. \A p : (OnStack(p) <=> OnStack(p)') /\ (Bound(p) <=> Bound(p)')
      BY <2>1 DEF OnStack, Bound
    <3>4. \A p : Lists(p) <=> Lists(p)'
      BY <2>1 DEF Lists, DependsOn
    <3>5. Loaded <=> Loaded'
      BY <2>1 DEF Loaded, DependsOn
    <3>6. TodoListed <=> TodoListed'
      BY <2>1 DEF TodoListed, DependsOn
    <3>7. Chained <=> Chained'
      BY <2>1 DEF Chained, Reaches, Closed, DependsOn
    <3>8. ImportInv => ImportInv'
      BY <2>1, <3>1, <3>2, <3>3, <3>4, SameGraph DEF ImportInv, Paths
    <3>9. RegisterInv => RegisterInv'
      BY <2>1, <3>1, <3>2, <3>3, <3>5, <3>6, <3>7, SameGraph DEF RegisterInv, Published
    <3> QED
      BY <2>1, <3>8, <3>9 DEF IInv
  <2>3. (TypeOK /\ RegisteredAll /\ PubsVisible /\ DependencyWins)'
    BY <2>1, SameGraph DEF IInv, TypeOK, RegisteredAll, PubsVisible, DependencyWins
  <2> QED
    BY <2>2, <2>3 DEF IInv
<1>2. CASE Terminated
  BY <1>1, <1>2 DEF Terminated
<1>3. CASE \E readable \in BOOLEAN : ImportNext(readable)
  BY <1>3, ImportNextKeeps
<1>4. CASE ImportReturn
  BY <1>4, ImportReturnKeeps
<1>5. CASE RegisterNext
  BY <1>5, RegisterNextKeeps
<1>6. CASE RegisterReturn
  BY <1>6, RegisterReturnKeeps
<1> QED
  BY <1>1, <1>2, <1>3, <1>4, <1>5, <1>6 DEF Next

(* InitDeps registers the packages the root reaches through llcppg.cfg     *)
(* files and no other, cycles or not (RegisterDep's regCache).             *)
THEOREM RegistersReachable == Spec => []RegisteredAll
<1>1. Spec => []IInv
  BY InitHolds, StepKeeps, PTL DEF Spec
<1>2. IInv => RegisteredAll
  BY DEF IInv
<1> QED
  BY <1>1, <1>2, PTL

(* When InitDeps has succeeded, every type that a dependency publishes and *)
(* declares is bound, to what some dependency publishes under that name.   *)
THEOREM PublishedVisible == Spec => []PubsVisible
<1>1. Spec => []IInv
  BY InitHolds, StepKeeps, PTL DEF Spec
<1>2. IInv => PubsVisible
  BY DEF IInv
<1> QED
  BY <1>1, <1>2, PTL

(* RegisterDep registers the dependencies before the package's own types:  *)
(* a dependent never owns a C name that something below it publishes.      *)
THEOREM DependenciesWin == Spec => []DependencyWins
<1>1. Spec => []IInv
  BY InitHolds, StepKeeps, PTL DEF Spec
<1>2. IInv => DependencyWins
  BY DEF IInv
<1> QED
  BY <1>1, <1>2, PTL
=============================================================================
