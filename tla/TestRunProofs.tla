--------------------------- MODULE TestRunProofs ---------------------------
(***************************************************************************)
(* Proofs about TestRun: for any number of packages, "finished!" comes     *)
(* after the last llcppg, and one program at a time runs in a directory;   *)
(* for any demos, what fails is reported and what is temporary is removed. *)
(***************************************************************************)
EXTENDS TestRunSafety, FiniteSetTheorems, TLAPS

PkgModes == {"selected", "rand", "all"}
Looping == {"next", "llcppcfg", "wait", "ok"}

(* Packages the wait group counts: the loop has not come to them, is at    *)
(* them, or their goroutine has not called Done.                           *)
AtCfg == {p \in Pkg : pc = "llcppcfg" /\ p = pkg}
Open == todo \cup AtCfg \cup {p \in Pkg : gen[p] \in {"started", "running"}}

Modes ==
  /\ pc \in {"list", "next", "llcppcfg", "wait"} => mode \in PkgModes
  /\ pc \in {"demos", "demo", "examples", "failed"} => mode \notin PkgModes
Unstarted ==
  /\ pc \in {"start", "list"} => todo = {} /\ runs = {} /\ child = {}
  /\ pc = "start" => eof = FALSE
Loop ==
  /\ \A p \in Pkg : /\ (gen[p] = "none") <=> (p \notin runs)
                    /\ p \in todo => p \notin runs
                    /\ <<"llcppcfg", p>> \in child =>
                         p = pkg /\ p \notin runs /\ pc \in {"llcppcfg", "panic"}
                    /\ <<"llcppg", p>> \in child => gen[p] = "running"
  /\ pc = "llcppcfg" => pkg \in Pkg /\ pkg \notin runs /\ pkg \notin todo
Count == pc # "panic" => wg = Cardinality(Open)
Finished == pc = "ok" /\ mode \in PkgModes => Open = {}
Listing ==
  /\ pc = "list" /\ eof => listed = Pkg \/ lister = "failing"
  /\ pc \in Looping /\ mode = "all" =>
       /\ listed = Pkg \/ lister = "failing"
       /\ listed = todo \cup AtCfg \cup runs

(* The inductive invariant.                                                *)
IInv == TypeOK /\ Modes /\ Unstarted /\ Loop /\ Count /\ Finished /\ Listing

LEMMA OpenFinite ==
  ASSUME TypeOK
  PROVE  IsFiniteSet(Open) /\ Cardinality(Open) \in Nat
<1>1. Open \subseteq Pkg
  BY DEF Open, AtCfg, TypeOK
<1> QED BY <1>1, FS_Subset, FS_CardinalityType, TestAssumption

LEMMA InitHolds == Init => IInv
<1> SUFFICES ASSUME Init PROVE IInv
  OBVIOUS
<1>1. mode \in {"selected", "rand", "all", "demos", "demo"}
  BY DEF Init, AppMode
<1>2. Open = {}
  BY DEF Init, Open, AtCfg
<1>3. TypeOK
  BY <1>1 DEF Init, TypeOK
<1>4. Count
  BY <1>2, FS_EmptySet DEF Init, Count
<1> QED BY <1>2, <1>3, <1>4 DEF Init, IInv, Modes, Unstarted, Loop, Finished, Listing, Looping

-----------------------------------------------------------------------------
(* What a step of the demos leaves alone, and where it leads.              *)
LEMMA DemoSteps ==
  ASSUME IInv, Demo
  PROVE  /\ UNCHANGED <<mode, pkgVars>> /\ mode \notin PkgModes
         /\ pc \in {"start", "demos", "demo", "examples"}
         /\ pc' \in {"demos", "demo", "examples", "ok", "failed", "panic"}
<1> USE DEF PkgModes, IInv, Modes
<1>1. UNCHANGED pkgVars
  BY DEF Demo
<1>2. CASE StartDemos
  BY <1>1, <1>2 DEF StartDemos
<1>3. CASE EndDemos
  BY <1>1, <1>3 DEF EndDemos
<1>4. ASSUME NEW d \in Entry, StartDemo(d)
      PROVE  /\ UNCHANGED mode /\ mode \notin PkgModes
             /\ pc \in {"start", "demos", "demo", "examples"}
             /\ pc' \in {"demos", "demo", "examples", "ok", "failed", "panic"}
  BY <1>4 DEF StartDemo
<1>5. ASSUME NEW ok \in BOOLEAN, DemoStep(ok)
      PROVE  /\ UNCHANGED mode /\ mode \notin PkgModes
             /\ pc \in {"start", "demos", "demo", "examples"}
             /\ pc' \in {"demos", "demo", "examples", "ok", "failed", "panic"}
  <2>1. pc = "demo" /\ mode' = mode
    BY <1>5 DEF DemoStep
  <2>2. pc' \in {"demos", "demo", "examples", "ok", "failed", "panic"}
    BY <1>5, <2>1 DEF DemoStep, Return
  <2> QED BY <2>1, <2>2
<1>6. CASE NoLogDir
  BY <1>1, <1>6 DEF NoLogDir
<1>7. ASSUME NEW e \in left, NEW ok \in BOOLEAN, RunExample(e, ok)
      PROVE  /\ UNCHANGED mode /\ mode \notin PkgModes
             /\ pc \in {"start", "demos", "demo", "examples"}
             /\ pc' \in {"demos", "demo", "examples", "ok", "failed", "panic"}
  BY <1>7 DEF RunExample, Return
<1>8. CASE EndExamples
  BY <1>1, <1>8 DEF EndExamples, Return
<1> QED BY <1>1, <1>2, <1>3, <1>4, <1>5, <1>6, <1>7, <1>8 DEF Demo, DemoNext

(* A step that changes neither the packages that are counted nor the wait  *)
(* group keeps the count.                                                  *)
LEMMA SameCount ==
  ASSUME Count, Open' = Open, wg' = wg, pc' # "panic" => pc # "panic"
  PROVE  Count'
BY DEF Count

LEMMA DemoKeeps == IInv /\ Demo => IInv'
<1> SUFFICES ASSUME IInv, Demo PROVE IInv'
  OBVIOUS
<1>1. /\ UNCHANGED <<mode, pkgVars>> /\ mode \notin PkgModes
      /\ pc \in {"start", "demos", "demo", "examples"}
      /\ pc' \in {"demos", "demo", "examples", "ok", "failed", "panic"}
  BY DemoSteps
<1>2. TypeOK'
  BY <1>1 DEF IInv, TypeOK, pkgVars
<1>3. Open' = Open /\ AtCfg' = AtCfg
  BY <1>1 DEF Open, AtCfg, pkgVars
<1>4. Count'
  BY <1>1, <1>3, SameCount DEF IInv, pkgVars
<1>5. Loop'
  BY <1>1 DEF IInv, Loop, pkgVars
<1>6. Modes' /\ Unstarted' /\ Finished' /\ Listing'
  BY <1>1 DEF Modes, Unstarted, Finished, Listing, PkgModes, pkgVars
<1> QED BY <1>2, <1>4, <1>5, <1>6 DEF IInv

-----------------------------------------------------------------------------
(* main before its loop, and the goroutine that lists the packages.        *)
LEMMA BeforeKeeps ==
  IInv /\ (Help \/ GetPkgs \/ Listed \/ ListerPanics \/ \E p \in Pkg : List(p)) => IInv'
<1> SUFFICES ASSUME IInv, Help \/ GetPkgs \/ Listed \/ ListerPanics \/ \E p \in Pkg : List(p)
             PROVE  IInv'
  OBVIOUS
<1>1. CASE Help
  <2>1. AtCfg' = AtCfg /\ Open' = Open
    BY <1>1 DEF Help, Open, AtCfg, pkgVars
  <2>2. Count'
    BY <1>1, <2>1, SameCount DEF Help, IInv, pkgVars
  <2>3. Open = {}
    BY <1>1 DEF Help, IInv, Unstarted, Loop, Open, AtCfg
  <2>4. Loop' /\ TypeOK'
    BY <1>1 DEF Help, IInv, Loop, TypeOK, pkgVars
  <2> QED BY <1>1, <2>1, <2>2, <2>3, <2>4
          DEF Help, IInv, Modes, Unstarted, Finished, Listing, PkgModes, pkgVars
<1>2. CASE GetPkgs
  <2>1. AtCfg' = AtCfg /\ Open' = Open
    BY <1>2 DEF GetPkgs, Open, AtCfg
  <2>2. Count'
    BY <1>2, <2>1, SameCount DEF GetPkgs, IInv
  <2>3. Loop' /\ TypeOK'
    BY <1>2 DEF GetPkgs, IInv, Loop, TypeOK
  <2> QED BY <1>2, <2>2, <2>3
          DEF GetPkgs, IInv, Modes, Unstarted, Finished, Listing, PkgModes, Looping
<1>3. CASE Listed
  <2>1. AtCfg' = AtCfg /\ Open' = Open
    BY <1>3 DEF Listed, Open, AtCfg
  <2>2. Count'
    BY <1>3, <2>1, SameCount DEF Listed, IInv
  <2>3. Loop' /\ TypeOK'
    BY <1>3 DEF Listed, IInv, Loop, TypeOK
  <2> QED BY <1>3, <2>2, <2>3
          DEF Listed, IInv, Modes, Unstarted, Finished, Listing, Looping
<1>4. CASE ListerPanics
  <2>1. Loop'
    BY <1>4 DEF ListerPanics, IInv, Loop
  <2>2. TypeOK'
    BY <1>4 DEF ListerPanics, IInv, TypeOK
  <2> QED BY <1>4, <2>1, <2>2
          DEF ListerPanics, IInv, Modes, Unstarted, Count, Finished, Listing, Looping
<1>5. ASSUME NEW p \in Pkg, List(p) PROVE IInv'
  <2>1. AtCfg' = AtCfg /\ Open' = Open
    BY <1>5 DEF List, Open, AtCfg
  <2>2. Count'
    BY <1>5, <2>1, SameCount DEF List, IInv
  <2>3. Loop' /\ TypeOK'
    BY <1>5 DEF List, IInv, Loop, TypeOK
  <2> QED BY <1>5, <2>2, <2>3
          DEF List, IInv, Modes, Unstarted, Finished, Listing, Looping
<1> QED BY <1>1, <1>2, <1>3, <1>4, <1>5

(* runPkgs sets the wait group to the number of the packages it is given.  *)
LEMMA RunPkgsKeeps ==
  ASSUME IInv, pc \in {"start", "list"}, NEW ps, ps \subseteq Pkg, RunPkgs(ps),
         mode \in PkgModes, mode = "all" => ps = listed /\ (listed = Pkg \/ lister = "failing"),
         UNCHANGED <<mode, lister, eof, listed, pkg, runs, gen, child>>
  PROVE  IInv'
<1> USE DEF RunPkgs, IInv
<1>1. runs = {} /\ child = {} /\ \A p \in Pkg : gen[p] = "none"
  BY DEF Unstarted, Loop
<1>2. Open' = ps /\ AtCfg' = {}
  BY <1>1 DEF Open, AtCfg
<1>3. Count'
  BY <1>2 DEF Count
<1>4. TypeOK'
  <2>1. IsFiniteSet(ps)
    BY FS_Subset, TestAssumption
  <2>2. wg' \in Nat
    BY <2>1, FS_CardinalityType
  <2> QED BY <2>2 DEF TypeOK
<1>5. Loop'
  BY <1>1 DEF Loop
<1>6. Listing'
  BY <1>1, <1>2 DEF Listing
<1> QED BY <1>3, <1>4, <1>5, <1>6 DEF Modes, Unstarted, Finished

LEMMA ReadKeeps == IInv /\ (ReadAll \/ \E p \in Pkg : Selected(p)) => IInv'
<1> SUFFICES ASSUME IInv, ReadAll \/ \E p \in Pkg : Selected(p) PROVE IInv'
  OBVIOUS
<1>1. ASSUME NEW p \in Pkg, Selected(p) PROVE IInv'
  BY <1>1, RunPkgsKeeps DEF Selected, PkgModes
<1>2. CASE ReadAll
  <2>1. pc = "list" /\ UNCHANGED <<mode, lister, eof, listed, pkg, runs, gen, child>>
    BY <1>2 DEF ReadAll
  <2>2. listed \subseteq Pkg /\ mode \in PkgModes
    BY <2>1 DEF IInv, TypeOK, Modes
  <2>3. CASE mode = "all" /\ RunPkgs(listed)
    BY <1>2, <2>1, <2>2, <2>3, RunPkgsKeeps DEF ReadAll, IInv, Listing
  <2>4. ASSUME NEW p \in listed, mode = "rand", RunPkgs({p}) PROVE IInv'
    BY <2>1, <2>2, <2>4, RunPkgsKeeps
  <2>5. CASE pc' = "panic" /\ UNCHANGED <<todo, wg>>
    <3>1. Loop' /\ TypeOK'
      BY <2>1, <2>5 DEF IInv, Loop, TypeOK
    <3> QED BY <2>1, <2>5, <3>1
            DEF IInv, Modes, Unstarted, Count, Finished, Listing, Looping
  <2> QED BY <1>2, <2>3, <2>4, <2>5 DEF ReadAll
<1> QED BY <1>1, <1>2

-----------------------------------------------------------------------------
(* The loop of runPkgs: a package moves from todo to pkg and from there to *)
(* its goroutine, and is counted all the way.                              *)
LEMMA EnterKeeps ==
  ASSUME IInv, NEW p \in Pkg, EnterDir(p)
  PROVE  IInv'
<1>1. pc = "next" /\ p \in todo /\ mode' = mode
      /\ UNCHANGED <<lister, eof, listed, wg, runs, gen>>
  BY DEF EnterDir
<1>2. p \notin runs /\ gen[p] = "none" /\ mode \in PkgModes
  BY <1>1 DEF IInv, Loop, Modes
<1>3. TypeOK'
  BY DEF EnterDir, IInv, TypeOK
<1>4. CASE pc' = "panic" /\ UNCHANGED <<todo, pkg, child>>
  <2>1. Loop'
    BY <1>1, <1>4 DEF IInv, Loop
  <2> QED BY <1>1, <1>2, <1>3, <1>4, <2>1
          DEF IInv, Modes, Unstarted, Count, Finished, Listing, Looping
<1>5. CASE /\ pc' = "llcppcfg" /\ todo' = todo \ {p} /\ pkg' = p
           /\ child' \in {child, child \cup {<<"llcppcfg", p>>}}
  <2>1. AtCfg = {} /\ AtCfg' = {p}
    BY <1>1, <1>5 DEF AtCfg
  <2>2. Open' = Open
    BY <1>1, <1>5, <2>1 DEF Open
  <2>3. Count'
    BY <1>1, <1>5, <2>2, SameCount DEF IInv
  <2>4. Loop'
    BY <1>1, <1>2, <1>5 DEF IInv, Loop
  <2>5. Listing'
    BY <1>1, <1>5, <2>1 DEF IInv, Listing, Looping
  <2> QED BY <1>1, <1>2, <1>3, <1>5, <2>3, <2>4, <2>5 DEF IInv, Modes, Unstarted, Finished
<1> QED BY <1>4, <1>5 DEF EnterDir

LEMMA CfgKeeps == IInv /\ CfgReturns => IInv'
<1> SUFFICES ASSUME IInv, CfgReturns PROVE IInv'
  OBVIOUS
<1>1. /\ pc = "llcppcfg" /\ <<"llcppcfg", pkg>> \notin child
      /\ pc' = "next" /\ runs' = runs \cup {pkg} /\ gen' = [gen EXCEPT ![pkg] = "started"]
      /\ UNCHANGED <<mode, lister, eof, listed, todo, pkg, wg, child>>
  BY DEF CfgReturns
<1>2. pkg \in Pkg /\ pkg \notin runs /\ pkg \notin todo /\ gen[pkg] = "none" /\ mode \in PkgModes
  BY <1>1 DEF IInv, Loop, Modes
<1>3. \A p \in Pkg : gen'[p] = IF p = pkg THEN "started" ELSE gen[p]
  BY <1>1 DEF IInv, TypeOK
<1>4. TypeOK'
  BY <1>1, <1>2 DEF IInv, TypeOK
<1>5. AtCfg = {pkg} /\ AtCfg' = {}
  BY <1>1, <1>2 DEF AtCfg
<1>6. Open' = Open
  BY <1>1, <1>2, <1>3, <1>5 DEF Open
<1>7. Count'
  BY <1>1, <1>6, SameCount DEF IInv
<1>8. Loop'
  BY <1>1, <1>2, <1>3 DEF IInv, Loop
<1>9. Listing'
  BY <1>1, <1>5 DEF IInv, Listing, Looping
<1> QED BY <1>1, <1>2, <1>4, <1>7, <1>8, <1>9 DEF IInv, Modes, Unstarted, Finished

(* wg.Wait returns when nothing is counted any more.                       *)
LEMMA EndKeeps == IInv /\ (EndLoop \/ Wait) => IInv'
<1> SUFFICES ASSUME IInv, EndLoop \/ Wait PROVE IInv'
  OBVIOUS
<1>1. /\ pc \in {"next", "wait"} /\ pc' \in {"wait", "ok"} /\ UNCHANGED <<mode, pkgVars>>
      /\ pc' = "ok" => wg = 0
  BY DEF EndLoop, Wait
<1>2. TypeOK' /\ Loop'
  BY <1>1 DEF IInv, TypeOK, Loop, pkgVars
<1>3. Open' = Open /\ AtCfg' = AtCfg
  BY <1>1 DEF Open, AtCfg, pkgVars
<1>4. Count'
  BY <1>1, <1>3, SameCount DEF IInv, pkgVars
<1>5. pc' = "ok" => Open = {}
  BY <1>1, OpenFinite, FS_EmptySet DEF IInv, Count
<1>6. mode \in PkgModes
  BY <1>1 DEF IInv, Modes
<1>7. Listing'
  BY <1>1, <1>3 DEF IInv, Listing, Looping, pkgVars
<1> QED BY <1>1, <1>2, <1>3, <1>4, <1>5, <1>6, <1>7 DEF IInv, Modes, Unstarted, Finished, pkgVars

-----------------------------------------------------------------------------
(* The goroutines and the processes.                                       *)
LEMMA StartKeeps ==
  ASSUME IInv, NEW p \in Pkg, GenStart(p)
  PROVE  IInv'
<1>1. /\ gen[p] = "started" /\ gen' = [gen EXCEPT ![p] = "running"] /\ ~Ended
      /\ child' \in {child, child \cup {<<"llcppg", p>>}}
      /\ UNCHANGED <<mode, pc, lister, eof, listed, todo, pkg, wg, runs>>
  BY DEF GenStart
<1>2. \A r \in Pkg : gen'[r] = IF r = p THEN "running" ELSE gen[r]
  BY <1>1 DEF IInv, TypeOK
<1>3. TypeOK'
  BY <1>1 DEF IInv, TypeOK
<1>4. AtCfg' = AtCfg
  BY <1>1 DEF AtCfg
<1>5. Open' = Open
  BY <1>1, <1>2, <1>4 DEF Open
<1>6. Count'
  BY <1>1, <1>5, SameCount DEF IInv
<1>7. Loop'
  BY <1>1, <1>2 DEF IInv, Loop
<1>8. Unstarted'
  BY <1>1 DEF IInv, Unstarted, Loop
<1> QED BY <1>1, <1>3, <1>4, <1>5, <1>6, <1>7, <1>8 DEF IInv, Modes, Finished, Listing

LEMMA ReturnKeeps ==
  ASSUME IInv, NEW p \in Pkg, GenReturns(p)
  PROVE  IInv'
<1>1. /\ gen[p] = "running" /\ gen' = [gen EXCEPT ![p] = "ended"] /\ ~Ended
      /\ <<"llcppg", p>> \notin child /\ wg' = wg - 1
      /\ UNCHANGED <<mode, pc, lister, eof, listed, todo, pkg, runs, child>>
  BY DEF GenReturns
<1>2. \A r \in Pkg : gen'[r] = IF r = p THEN "ended" ELSE gen[r]
  BY <1>1 DEF IInv, TypeOK
<1>3. AtCfg' = AtCfg
  BY <1>1 DEF AtCfg
<1>4. p \in runs /\ p \notin todo /\ p \notin AtCfg
  BY <1>1 DEF IInv, Loop, AtCfg
<1>5. Open' = Open \ {p} /\ p \in Open
  BY <1>1, <1>2, <1>3, <1>4 DEF Open
<1>6. wg = Cardinality(Open)
  BY <1>1 DEF IInv, Count, Ended
<1>7. Cardinality(Open') = Cardinality(Open) - 1 /\ IsFiniteSet(Open')
  BY <1>5, OpenFinite, FS_RemoveElement DEF IInv
<1>8. wg' = Cardinality(Open') /\ wg' \in Nat
  BY <1>1, <1>6, <1>7, FS_CardinalityType
<1>9. TypeOK' /\ Count'
  BY <1>1, <1>8 DEF IInv, TypeOK, Count
<1>10. Loop'
  BY <1>1, <1>2 DEF IInv, Loop
<1>11. Unstarted'
  BY <1>1 DEF IInv, Unstarted
<1> QED BY <1>1, <1>3, <1>9, <1>10, <1>11 DEF IInv, Modes, Finished, Listing, Ended

LEMMA ExitKeeps ==
  ASSUME IInv, NEW c \in child, Exit(c)
  PROVE  IInv'
<1>1. child' = child \ {c}
      /\ UNCHANGED <<mode, pc, lister, eof, listed, todo, pkg, wg, runs, gen>>
  BY DEF Exit
<1>2. AtCfg' = AtCfg /\ Open' = Open
  BY <1>1 DEF Open, AtCfg
<1>3. TypeOK' /\ Loop'
  BY <1>1 DEF IInv, TypeOK, Loop
<1>4. Count'
  BY <1>1, <1>2, SameCount DEF IInv
<1> QED BY <1>1, <1>2, <1>3, <1>4 DEF IInv, Modes, Unstarted, Finished, Listing

LEMMA StutterKeeps == IInv /\ UNCHANGED vars => IInv'
<1> SUFFICES ASSUME IInv, UNCHANGED vars PROVE IInv'
  OBVIOUS
<1>1. UNCHANGED <<mode, pc, lister, eof, listed, todo, pkg, wg, runs, gen, child>>
  BY DEF vars, pkgVars
<1>2. AtCfg' = AtCfg /\ Open' = Open
  BY <1>1 DEF Open, AtCfg
<1> QED BY <1>1, <1>2 DEF IInv, TypeOK, Modes, Unstarted, Loop, Count, Finished, Listing

LEMMA NextKeeps == IInv /\ [Next]_vars => IInv'
BY DemoKeeps, BeforeKeeps, ReadKeeps, EnterKeeps, CfgKeeps, EndKeeps, StartKeeps, ReturnKeeps,
   ExitKeeps, StutterKeeps DEF Next, Main, Lister, Goroutine, Terminated

LEMMA Inductive == Spec => []IInv
<1>1. Init => IInv
  BY InitHolds
<1>2. IInv /\ [Next]_vars => IInv'
  BY NextKeeps
<1> QED BY <1>1, <1>2, PTL DEF Spec

-----------------------------------------------------------------------------
(* main returns from runPkgs only after every goroutine it started has     *)
(* called Done, and every process of llcppg has ended.                     *)
THEOREM WaitsForAll == Spec => []AllWaited
<1>1. IInv => AllWaited
  <2> SUFFICES ASSUME IInv, pc = "ok", mode \in PkgModes
               PROVE  /\ \A p \in runs : gen[p] = "ended" /\ <<"llcppg", p>> \notin child
                      /\ mode = "all" => runs = listed /\ (listed = Pkg \/ lister = "failing")
    BY DEF AllWaited, PkgModes
  <2>1. Open = {}
    BY DEF IInv, Finished
  <2>2. ASSUME NEW p \in runs PROVE gen[p] = "ended" /\ <<"llcppg", p>> \notin child
    <3>1. p \in Pkg /\ gen[p] \in {"none", "started", "running", "ended"}
      BY DEF IInv, TypeOK
    <3>2. gen[p] \notin {"started", "running"}
      BY <2>1, <3>1 DEF Open
    <3> QED BY <3>1, <3>2 DEF IInv, Loop
  <2>3. todo = {} /\ AtCfg = {}
    BY <2>1 DEF Open
  <2> QED BY <2>2, <2>3 DEF IInv, Listing, Looping
<1> QED BY <1>1, Inductive, PTL

(* llcppcfg and llcppg of one package never run at the same time.          *)
THEOREM NeverTogether == Spec => []OneInDir
<1>1. IInv => OneInDir
  <2> SUFFICES ASSUME IInv, NEW p \in Pkg
               PROVE  Cardinality({c \in child : c[2] = p}) <= 1
    BY DEF OneInDir
  <2> DEFINE Here == {c \in child : c[2] = p}
  <2>1. Here \subseteq {<<"llcppcfg", p>>, <<"llcppg", p>>}
    BY DEF IInv, TypeOK
  <2>2. ~(<<"llcppcfg", p>> \in child /\ <<"llcppg", p>> \in child)
    BY DEF IInv, Loop
  <2>3. \E x : Here \subseteq {x}
    BY <2>1, <2>2
  <2>4. PICK x : Here \subseteq {x}
    BY <2>3
  <2>5. IsFiniteSet({x}) /\ Cardinality({x}) = 1
    BY FS_Singleton
  <2>6. Cardinality(Here) <= Cardinality({x})
    BY <2>4, <2>5, FS_Subset
  <2> QED BY <2>5, <2>6
<1> QED BY <1>1, Inductive, PTL

-----------------------------------------------------------------------------
(* The demos.  Commands of RunGenPkgDemo before its k-th step.             *)
Before(k) == {Steps[n] : n \in 1..k - 1} \cap Command
Succeeded(cs) == {<<c, TRUE>> : c \in cs}
Elems(s) == {s[i] : i \in DOMAIN s}
Running == pc \in {"demo", "examples"}

DemoTypes ==
  /\ demos \subseteq Entry /\ failedDemos \subseteq Entry /\ cur \in Entry \cup {NoDemo}
  /\ at \in 1..Len(Steps) /\ temp \subseteq Entry \X TempDir
  /\ DOMAIN log = Entry
  /\ \A d \in Entry : log[d] \in Seq((Command \cup Example[d]) \X BOOLEAN)
(* The demos and the packages exclude each other.                          *)
OneMode ==
  /\ mode \in PkgModes \/ lister = "none"
  /\ mode \in PkgModes => temp = {}
  /\ pc = "start" => cur = NoDemo
  /\ pc = "demos" => mode = "demos"
(* The directories that a deferred call is to remove.                      *)
Temps ==
  /\ TempRemoved
  /\ pc = "demo" /\ at = 1 => \A t \in temp : t[2] = "rundir"
(* A demo that is run has logged the commands behind it, all successes.    *)
Logs ==
  /\ \A d \in Entry : \A i \in 1..Len(log[d]) - 1 : log[d][i][2]
  /\ Running => cur \in Entry
  /\ pc = "demo" /\ at > 1 => Commands(cur) = Succeeded(Before(at))
  /\ pc = "examples" =>
       left \subseteq Example[cur] /\ Commands(cur) = Succeeded(Command \cup (Example[cur] \ left))
(* In the loop over the demos each one is to be run, is run, has failed or *)
(* has logged all its commands.                                            *)
Judging ==
  /\ mode = "demo" /\ pc = "ok" => Passed(cur)
  /\ mode = "demos" /\ pc \in {"demos", "demo", "examples", "ok"} => Found # {}
  /\ mode = "demos" /\ (pc \in {"demos", "demo", "examples", "ok"} \/ (pc = "failed" /\ cur # NoDemo)) =>
       \A d \in Found \ (demos \cup failedDemos) : (Running /\ d = cur) \/ Passed(d)
  /\ mode = "demos" /\ pc = "ok" => failedDemos = {}
  /\ mode = "demos" /\ (pc = "ok" \/ (pc = "failed" /\ cur # NoDemo)) => demos = {}

DemoInv == DemoTypes /\ OneMode /\ Temps /\ Logs /\ Judging

(* What Steps is.                                                          *)
LEMMA StepsAre ==
  /\ Len(Steps) = 13 /\ Steps[1] = "log" /\ Steps[13] = "rundir"
  /\ \A k \in 1..13 : /\ Steps[k] = "log" => k = 1
                      /\ Steps[k] \in TempDir => k # 1 /\ Steps[k] \notin Command
  /\ Before(14) = Command /\ Before(1) = {} /\ "log" \notin Command
<1>1. /\ Len(Steps) = 13 /\ Steps[1] = "log" /\ Steps[2] = "config" /\ Steps[3] = "outdir"
      /\ Steps[4] = "copy" /\ Steps[5] = "llcppg" /\ Steps[6] = "go fmt" /\ Steps[7] = "demosdir"
      /\ Steps[8] = "copyfs" /\ Steps[9] = "go mod init" /\ Steps[10] = "go mod edit"
      /\ Steps[11] = "go mod tidy" /\ Steps[12] = "readdir" /\ Steps[13] = "rundir"
  BY DEF Steps
<1>2. ASSUME NEW k \in 1..13
      PROVE  /\ Steps[k] = "log" => k = 1
             /\ Steps[k] \in TempDir => k # 1 /\ Steps[k] \notin Command
  <2>1. k \in {1, 2, 3, 4, 5, 6, 7, 8, 9, 10, 11, 12, 13}
    OBVIOUS
  <2>2. Steps[k] = "log" => k = 1
    BY <1>1, <2>1
  <2>3. k = 1 \/ Steps[k] \notin TempDir \/ Steps[k] \notin Command
    BY <1>1 DEF Command, TempDir
  <2>4. k = 1 => Steps[k] \notin TempDir
    BY <1>1 DEF TempDir
  <2> QED BY <2>2, <2>3, <2>4
<1>3. Before(1) = {} /\ "log" \notin Command
  BY DEF Before, Command
<1>4. ASSUME NEW c \in Command PROVE c \in {Steps[n] : n \in 1..14 - 1}
  <2>1. c \in {Steps[5], Steps[6], Steps[9], Steps[10], Steps[11]}
    BY <1>1 DEF Command
  <2>2. {5, 6, 9, 10, 11} \subseteq 1..14 - 1
    OBVIOUS
  <2> QED BY <2>1, <2>2
<1> QED BY <1>1, <1>2, <1>3, <1>4 DEF Before

LEMMA BeforeNext ==
  ASSUME NEW k \in 1..13
  PROVE  Before(k + 1) = Before(k) \cup ({Steps[k]} \cap Command)
<1>1. 1..(k + 1) - 1 = (1..k - 1) \cup {k}
  OBVIOUS
<1> QED BY <1>1 DEF Before

(* A command is added to what a log has, at its end.                       *)
LEMMA Logging ==
  ASSUME NEW S, NEW s \in Seq(S), NEW e \in S
  PROVE  /\ Elems(Append(s, e)) = Elems(s) \cup {e}
         /\ \A i \in 1..Len(Append(s, e)) - 1 : i \in DOMAIN s /\ Append(s, e)[i] = s[i]
<1> DEFINE t == Append(s, e)
<1>1. Len(s) \in Nat /\ DOMAIN s = 1..Len(s) /\ DOMAIN t = 1..Len(s) + 1 /\ Len(t) = Len(s) + 1
  OBVIOUS
<1>2. t[Len(s) + 1] = e /\ \A i \in 1..Len(s) : t[i] = s[i]
  OBVIOUS
<1>3. \A i \in 1..Len(s) + 1 : i \in 1..Len(s) \/ i = Len(s) + 1
  BY <1>1
<1>4. Elems(t) \subseteq Elems(s) \cup {e}
  BY <1>1, <1>2, <1>3 DEF Elems
<1>5. Elems(s) \cup {e} \subseteq Elems(t)
  BY <1>1, <1>2 DEF Elems
<1> QED BY <1>1, <1>2, <1>4, <1>5

LEMMA SameLog ==
  ASSUME NEW d, log'[d] = log[d]
  PROVE  Commands(d)' = Commands(d) /\ Passed(d)' = Passed(d)
BY DEF Passed, Commands

(* What c adds to the log of cur, if all commands before it succeeded.     *)
LEMMA LoggedKeeps ==
  ASSUME DemoTypes, cur \in Entry, NEW c \in Command \cup Example[cur], NEW ok \in BOOLEAN,
         NEW cs, Commands(cur) = Succeeded(cs), log' = Logged(c, ok),
         \A d \in Entry : \A i \in 1..Len(log[d]) - 1 : log[d][i][2]
  PROVE  /\ DOMAIN log' = Entry
         /\ \A d \in Entry : log'[d] \in Seq((Command \cup Example[d]) \X BOOLEAN)
         /\ \A d \in Entry : \A i \in 1..Len(log'[d]) - 1 : log'[d][i][2]
         /\ \A d \in Entry : d # cur => log'[d] = log[d]
         /\ Elems(log'[cur]) = Succeeded(cs) \cup {<<c, ok>>}
<1> DEFINE S == (Command \cup Example[cur]) \X BOOLEAN
<1>1. log[cur] \in Seq(S) /\ <<c, ok>> \in S
  BY DEF DemoTypes
<1>2. log'[cur] = Append(log[cur], <<c, ok>>) /\ \A d \in Entry : d # cur => log'[d] = log[d]
  BY DEF Logged, DemoTypes
<1>3. DOMAIN log' = Entry
  BY DEF Logged, DemoTypes
<1>4. /\ Elems(log'[cur]) = Commands(cur) \cup {<<c, ok>>}
      /\ \A i \in 1..Len(log'[cur]) - 1 : i \in DOMAIN log[cur] /\ log'[cur][i] = log[cur][i]
  <2> DEFINE e == <<c, ok>>
  <2>1. log'[cur] = Append(log[cur], e) /\ log[cur] \in Seq(S) /\ e \in S
    BY <1>1, <1>2
  <2> HIDE DEF S, e
  <2>2. /\ Elems(log'[cur]) = Elems(log[cur]) \cup {e}
        /\ \A i \in 1..Len(log'[cur]) - 1 : i \in DOMAIN log[cur] /\ log'[cur][i] = log[cur][i]
    BY <2>1, Logging
  <2> QED BY <2>2 DEF Commands, Elems, e
<1>5. \A i \in DOMAIN log[cur] : log[cur][i] \in Succeeded(cs)
  BY DEF Commands
<1>6. \A i \in 1..Len(log'[cur]) - 1 : log'[cur][i][2]
  <2>1. ASSUME NEW x \in Succeeded(cs) PROVE x[2] = TRUE
    <3>1. PICK d \in cs : x = <<d, TRUE>>
      BY Zenon DEF Succeeded
    <3> QED BY <3>1, Zenon
  <2> QED BY <1>4, <1>5, <2>1, Zenon
<1>7. log'[cur] \in Seq(S)
  BY <1>1, <1>2
<1> QED BY <1>2, <1>3, <1>4, <1>6, <1>7 DEF DemoTypes

(* Whatever RunGenPkgDemo made for itself is gone when it returns.         *)
LEMMA ReturnRemoves ==
  ASSUME NEW dirs, NEW err \in BOOLEAN, Return(dirs, err), dirs \subseteq Entry \X TempDir,
         \A t \in dirs : t[2] # "rundir" => t[1] = cur
  PROVE  temp' \subseteq Entry \X TempDir /\ \A t \in temp' : t[2] = "rundir"
<1>1. temp' = dirs \ {<<cur, "outdir">>, <<cur, "demosdir">>}
  BY DEF Return
<1>2. ASSUME NEW t \in temp' PROVE t[2] = "rundir"
  <2>1. t \in Entry \X TempDir /\ t # <<cur, "outdir">> /\ t # <<cur, "demosdir">>
    BY <1>1, <1>2
  <2>2. t = <<t[1], t[2]>> /\ t[2] \in TempDir
    BY <2>1
  <2>3. t[2] # "rundir" => t[1] = cur
    BY <1>1, <1>2
  <2> QED BY <2>1, <2>2, <2>3 DEF TempDir
<1> QED BY <1>1, <1>2

(* Where RunGenPkgDemo returns to, and what the verdict needs.             *)
LEMMA ReturnJudged ==
  ASSUME IInv, DemoInv, Running, NEW dirs, NEW err \in BOOLEAN, Return(dirs, err),
         UNCHANGED <<mode, demos, cur>>, mode \notin PkgModes,
         \A d \in Entry : d # cur => Passed(d)' = Passed(d),
         ~err => Passed(cur)'
  PROVE  Judging' /\ pc' \in {"demos", "ok", "failed"} /\ failedDemos' \subseteq Entry
<1>1. cur \in Entry /\ pc \in {"demo", "examples"}
  BY DEF DemoInv, Logs, Running
<1>2. /\ pc' = IF mode = "demos" THEN "demos" ELSE IF err THEN "failed" ELSE "ok"
      /\ failedDemos' = IF mode = "demos" /\ err THEN failedDemos \cup {cur} ELSE failedDemos
  BY DEF Return
<1>3. mode \in {"demos", "demo"}
  BY DEF IInv, TypeOK, PkgModes
<1>4. CASE mode = "demo"
  BY <1>2, <1>4 DEF Judging, DemoInv, DemoTypes
<1>5. CASE mode = "demos"
  <2>1. pc' = "demos" /\ Found # {} /\ Found' = Found
    BY <1>1, <1>2, <1>5 DEF DemoInv, Judging, Found
  <2>2. ASSUME NEW d \in Found \ (demos' \cup failedDemos') PROVE Passed(d)'
    <3>1. d \in Entry /\ d \notin demos /\ d \notin failedDemos /\ (err => d # cur)
      BY <1>2, <1>5 DEF Found
    <3>2. CASE d = cur
      <4>1. Passed(cur)'
        BY <3>1, <3>2
      <4> QED BY <4>1, <3>2 DEF Passed, Commands
    <3>3. CASE d # cur
      <4>1. Passed(d)
        BY <1>1, <1>5, <3>1, <3>3 DEF DemoInv, Judging
      <4> QED BY <3>1, <3>3, <4>1
    <3> QED BY <3>2, <3>3
  <2> QED BY <1>1, <1>2, <1>5, <2>1, <2>2 DEF Judging, DemoInv, DemoTypes
<1> QED BY <1>3, <1>4, <1>5

-----------------------------------------------------------------------------
(* The steps of the demos.                                                 *)
LEMMA StartDemosKeeps ==
  ASSUME IInv, DemoInv, StartDemos, lister' = lister
  PROVE  DemoInv'
<1>1. /\ pc = "start" /\ mode = "demos" /\ cur = NoDemo
      /\ UNCHANGED <<mode, cur, at, left, temp, log, failedDemos>>
      /\ \/ pc' = "failed" /\ UNCHANGED demos
         \/ Found # {} /\ pc' = "demos" /\ demos' = Found
  BY DEF StartDemos, DemoInv, OneMode
<1>2. Found \subseteq Entry
  BY DEF Found
<1>3. DemoTypes'
  BY <1>1, <1>2 DEF DemoInv, DemoTypes
<1>4. OneMode' /\ Temps'
  BY <1>1 DEF DemoInv, OneMode, Temps, TempRemoved
<1>5. Logs'
  BY <1>1 DEF DemoInv, Logs, Running
<1>6. Judging'
  <2>1. pc' = "failed" => cur' = NoDemo
    BY <1>1
  <2>2. pc' = "demos" => demos' = Found'
    BY <1>1 DEF Found
  <2>3. pc' = "demos" => Found' # {}
    BY <1>1 DEF Found
  <2> QED BY <1>1, <2>1, <2>2, <2>3 DEF Judging
<1> QED BY <1>3, <1>4, <1>5, <1>6 DEF DemoInv

LEMMA StartDemoKeeps ==
  ASSUME IInv, DemoInv, NEW d \in Entry, StartDemo(d), lister' = lister
  PROVE  DemoInv'
<1>1. /\ pc' = "demo" /\ cur' = d /\ at' = 1
      /\ UNCHANGED <<mode, left, temp, log, failedDemos>>
      /\ \/ pc = "start" /\ mode = "demo" /\ UNCHANGED demos
         \/ pc = "demos" /\ d \in demos /\ demos' = demos \ {d}
  BY DEF StartDemo
<1>2. mode \notin PkgModes /\ (pc = "demos" => mode = "demos")
  BY <1>1 DEF DemoInv, OneMode, IInv, Modes, PkgModes
<1>3. DemoTypes'
  BY <1>1, StepsAre DEF DemoInv, DemoTypes
<1>4. OneMode' /\ Temps'
  BY <1>1, <1>2 DEF DemoInv, OneMode, Temps, TempRemoved, Running
<1>5. Logs'
  BY <1>1 DEF DemoInv, Logs, Running
<1>6. Judging'
  <2>1. CASE mode = "demo"
    BY <1>1, <2>1 DEF Judging
  <2>2. CASE mode = "demos"
    <3>1. pc = "demos" /\ Found # {} /\ Found' = Found /\ demos' = demos \ {d}
      BY <1>1, <2>2 DEF DemoInv, Judging, Found
    <3>2. ASSUME NEW e \in Found \ (demos' \cup failedDemos') PROVE e = cur' \/ Passed(e)'
      <4>1. CASE e = d
        BY <1>1, <4>1
      <4>2. CASE e # d
        <5>1. Passed(e)
          BY <1>1, <2>2, <3>1, <4>2 DEF DemoInv, Judging, Running
        <5> QED BY <1>1, <5>1, SameLog
      <4> QED BY <4>1, <4>2
    <3> QED BY <1>1, <2>2, <3>1, <3>2 DEF Judging, Running
  <2> QED BY <1>2, <2>1, <2>2, <1>1 DEF Judging
<1> QED BY <1>3, <1>4, <1>5, <1>6 DEF DemoInv

LEMMA EndDemosKeeps ==
  ASSUME IInv, DemoInv, EndDemos, lister' = lister
  PROVE  DemoInv'
<1>1. /\ pc = "demos" /\ demos = {} /\ mode = "demos"
      /\ pc' = IF failedDemos # {} THEN "failed" ELSE "ok"
      /\ UNCHANGED <<mode, demos, cur, at, left, temp, log, failedDemos>>
  BY DEF EndDemos, demoVars, DemoInv, OneMode
<1>2. DemoTypes' /\ OneMode' /\ Temps' /\ Logs'
  BY <1>1 DEF DemoInv, DemoTypes, OneMode, Temps, TempRemoved, Logs, Running, PkgModes
<1>3. Judging'
  <2>1. Found # {} /\ Found' = Found
    BY <1>1 DEF DemoInv, Judging, Found
  <2>2. \A d \in Found \ failedDemos : Passed(d)
    BY <1>1 DEF DemoInv, Judging, Running
  <2>3. \A d \in Found \ failedDemos : Passed(d)'
    BY <1>1, <2>2, SameLog
  <2> QED BY <1>1, <2>1, <2>3 DEF Judging
<1> QED BY <1>2, <1>3 DEF DemoInv

LEMMA NoLogDirKeeps ==
  ASSUME IInv, DemoInv, NoLogDir, lister' = lister
  PROVE  DemoInv'
<1>1. /\ pc = "demo" /\ Steps[at] = "log" /\ pc' = "panic"
      /\ UNCHANGED <<mode, demos, cur, at, left, temp, log, failedDemos>>
  BY DEF NoLogDir, demoVars
<1>2. at = 1
  BY <1>1, StepsAre DEF DemoInv, DemoTypes
<1>3. Temps'
  BY <1>1, <1>2 DEF DemoInv, Temps, TempRemoved
<1> QED BY <1>1, <1>3 DEF DemoInv, DemoTypes, OneMode, Logs, Judging, Running

(* An error at any step: the log of the demo keeps it at its end.          *)
LEMMA StepFailsKeeps ==
  ASSUME IInv, DemoInv, DemoStep(FALSE), lister' = lister
  PROVE  DemoInv'
<1>1. /\ pc = "demo" /\ UNCHANGED <<mode, demos, cur, at, left>> /\ Return(temp, TRUE)
      /\ log' = IF Steps[at] \in Command THEN Logged(Steps[at], FALSE) ELSE log
  BY DEF DemoStep
<1>2. cur \in Entry /\ mode \notin PkgModes
  BY <1>1 DEF DemoInv, Logs, Running, IInv, Modes
<1>3. temp' \subseteq Entry \X TempDir /\ \A t \in temp' : t[2] = "rundir"
  BY <1>1, ReturnRemoves DEF DemoInv, DemoTypes, Temps, TempRemoved
<1>4. Steps[at] \in Command => at > 1
  <2>1. at \in 1..13 /\ Steps[1] \notin Command
    BY StepsAre DEF DemoInv, DemoTypes, Command
  <2> QED BY <2>1
<1>5. /\ DOMAIN log' = Entry
      /\ \A d \in Entry : log'[d] \in Seq((Command \cup Example[d]) \X BOOLEAN)
      /\ \A d \in Entry : \A i \in 1..Len(log'[d]) - 1 : log'[d][i][2]
      /\ \A d \in Entry : d # cur => log'[d] = log[d]
  <2>1. CASE Steps[at] \in Command
    BY <1>1, <1>2, <1>4, <2>1, LoggedKeeps DEF DemoInv, Logs
  <2>2. CASE Steps[at] \notin Command
    BY <1>1, <2>2 DEF DemoInv, DemoTypes, Logs
  <2> QED BY <2>1, <2>2
<1>6. \A d \in Entry : d # cur => Passed(d)' = Passed(d)
  BY <1>5, SameLog
<1>7. Judging' /\ pc' \in {"demos", "ok", "failed"} /\ failedDemos' \subseteq Entry
  BY <1>1, <1>2, <1>6, ReturnJudged DEF Running
<1>8. DemoTypes'
  BY <1>1, <1>3, <1>5, <1>7 DEF DemoInv, DemoTypes
<1>9. OneMode'
  BY <1>1, <1>2, <1>7 DEF DemoInv, OneMode, Return
<1>10. Temps' /\ Logs'
  BY <1>3, <1>5, <1>7 DEF Temps, TempRemoved, Logs, Running
<1> QED BY <1>7, <1>8, <1>9, <1>10 DEF DemoInv

(* Success at any step but the last, and at the last.                      *)
LEMMA StepSucceedsKeeps ==
  ASSUME IInv, DemoInv, DemoStep(TRUE), lister' = lister
  PROVE  DemoInv'
<1>1. /\ pc = "demo" /\ UNCHANGED <<mode, demos, cur, failedDemos>>
      /\ log' = IF Steps[at] \in Command THEN Logged(Steps[at], TRUE)
                ELSE IF Steps[at] = "log" THEN [log EXCEPT ![cur] = <<>>] ELSE log
      /\ temp' = IF Steps[at] \in TempDir THEN temp \cup {<<cur, Steps[at]>>} ELSE temp
      /\ IF at < 13 THEN at' = at + 1 /\ UNCHANGED <<pc, left>>
         ELSE pc' = "examples" /\ left' = Example[cur] /\ UNCHANGED at
  BY StepsAre DEF DemoStep
<1>2. cur \in Entry /\ mode \notin PkgModes /\ at \in 1..13
  BY <1>1, StepsAre DEF DemoInv, DemoTypes, Logs, Running, IInv, Modes
<1>3. temp' \subseteq Entry \X TempDir /\ \A t \in temp' : t[2] # "rundir" => t[1] = cur
  BY <1>1, <1>2 DEF DemoInv, DemoTypes, Temps, TempRemoved
<1>4. /\ DOMAIN log' = Entry
      /\ \A d \in Entry : log'[d] \in Seq((Command \cup Example[d]) \X BOOLEAN)
      /\ \A d \in Entry : \A i \in 1..Len(log'[d]) - 1 : log'[d][i][2]
      /\ \A d \in Entry : d # cur => log'[d] = log[d]
      /\ Elems(log'[cur]) = Succeeded(Before(at + 1))
  <2> Before(at + 1) = Before(at) \cup ({Steps[at]} \cap Command)
    BY <1>2, BeforeNext
  <2>1. CASE Steps[at] \in Command
    <3>1. at > 1
      BY <1>2, <2>1, StepsAre
    <3>2. Commands(cur) = Succeeded(Before(at))
      BY <1>1, <3>1 DEF DemoInv, Logs
    <3>3. /\ DOMAIN log' = Entry
          /\ \A d \in Entry : log'[d] \in Seq((Command \cup Example[d]) \X BOOLEAN)
          /\ \A d \in Entry : \A i \in 1..Len(log'[d]) - 1 : log'[d][i][2]
          /\ \A d \in Entry : d # cur => log'[d] = log[d]
          /\ Elems(log'[cur]) = Succeeded(Before(at)) \cup {<<Steps[at], TRUE>>}
      BY <1>1, <1>2, <2>1, <3>2, LoggedKeeps DEF DemoInv, Logs
    <3>4. Succeeded(Before(at)) \cup {<<Steps[at], TRUE>>} = Succeeded(Before(at + 1))
      BY <2>1 DEF Succeeded
    <3> QED BY <3>1, <3>3, <3>4
  <2>2. CASE Steps[at] = "log"
    <3>1. at = 1 /\ Steps[at] \notin Command
      BY <1>2, <2>2, StepsAre
    <3>2. log' = [log EXCEPT ![cur] = <<>>] /\ DOMAIN log = Entry
      BY <1>1, <2>2, <3>1 DEF DemoInv, DemoTypes
    <3>3. log'[cur] = <<>> /\ \A d \in Entry : d # cur => log'[d] = log[d]
      BY <1>2, <3>2
    <3>4. Elems(log'[cur]) = {} /\ Succeeded({}) = {} /\ Before(at + 1) = {}
      BY <3>1, <3>3, StepsAre DEF Elems, Succeeded
    <3>5. log'[cur] \in Seq((Command \cup Example[cur]) \X BOOLEAN) /\ Len(log'[cur]) = 0
      BY <3>3
    <3>6. \A d \in Entry : \A i \in 1..Len(log'[d]) - 1 : log'[d][i][2]
      BY <3>3, <3>5 DEF DemoInv, Logs
    <3> QED BY <1>2, <3>1, <3>2, <3>3, <3>4, <3>5, <3>6 DEF DemoInv, DemoTypes
  <2>3. CASE Steps[at] \notin Command /\ Steps[at] # "log"
    <3>1. at > 1 /\ log' = log
      BY <1>1, <1>2, <2>3, StepsAre
    <3>2. Elems(log[cur]) = Succeeded(Before(at)) /\ Before(at + 1) = Before(at)
      BY <1>1, <2>3, <3>1 DEF DemoInv, Logs, Commands, Elems
    <3>3. Elems(log'[cur]) = Succeeded(Before(at + 1))
      BY <3>1, <3>2
    <3>4. DOMAIN log' = Entry /\ \A d \in Entry : log'[d] \in Seq((Command \cup Example[d]) \X BOOLEAN)
      BY <3>1 DEF DemoInv, DemoTypes
    <3>5. \A d \in Entry : \A i \in 1..Len(log'[d]) - 1 : log'[d][i][2]
      BY <3>1 DEF DemoInv, Logs
    <3> QED BY <3>1, <3>3, <3>4, <3>5
  <2> QED BY <2>1, <2>2, <2>3
<1>5. at = 13 => Elems(log'[cur]) = Succeeded(Command)
  BY <1>4, StepsAre
<1>6. DemoTypes'
  <2>1. at' \in 1..Len(Steps)
    BY <1>1, <1>2, StepsAre
  <2> QED BY <1>1, <1>3, <1>4, <2>1 DEF DemoInv, DemoTypes
<1>7. pc' \in {"demo", "examples"} /\ (pc' = "demo" => at \in 1..12 /\ at' = at + 1)
  BY <1>1, <1>2
<1>8. OneMode' /\ Temps'
  BY <1>1, <1>2, <1>3, <1>7 DEF DemoInv, OneMode, Temps, TempRemoved
<1>9. Logs'
  <2>1. Commands(cur)' = Elems(log'[cur])
    BY <1>1 DEF Commands, Elems
  <2>2. pc' = "demo" => Commands(cur)' = Succeeded(Before(at'))
    BY <1>4, <1>7, <2>1
  <2>3. pc' = "examples" => left' = Example[cur'] /\ Commands(cur)' = Succeeded(Command)
    <3>1. pc' = "examples" => at = 13 /\ left' = Example[cur] /\ cur' = cur
      BY <1>1, <1>2
    <3> QED BY <1>5, <2>1, <3>1
  <2>4. Command \cup (Example[cur'] \ Example[cur']) = Command
    OBVIOUS
  <2> QED BY <1>1, <1>2, <1>4, <1>7, <2>2, <2>3, <2>4 DEF Logs, Before, Succeeded
<1>10. Judging'
  <2>1. ASSUME mode = "demos", NEW d \in Found \ (demos \cup failedDemos), d # cur
        PROVE  Passed(d)'
    <3>1. Passed(d) /\ d \in Entry
      BY <1>1, <2>1 DEF DemoInv, Judging, Found
    <3> QED BY <1>4, <2>1, <3>1, SameLog
  <2>2. mode = "demos" => Found' = Found /\ Found # {}
    BY <1>1 DEF DemoInv, Judging, Found
  <2> QED BY <1>1, <1>7, <2>1, <2>2 DEF Judging, Running
<1> QED BY <1>6, <1>8, <1>9, <1>10 DEF DemoInv

LEMMA ExampleKeeps ==
  ASSUME IInv, DemoInv, NEW e \in left, NEW ok \in BOOLEAN, RunExample(e, ok), lister' = lister
  PROVE  DemoInv'
<1>1. /\ pc = "examples" /\ left' = left \ {e} /\ log' = Logged(e, ok)
      /\ UNCHANGED <<mode, demos, cur, at>>
      /\ IF ok THEN UNCHANGED <<pc, temp, failedDemos>> ELSE Return(temp, TRUE)
  BY DEF RunExample
<1>2. /\ cur \in Entry /\ mode \notin PkgModes /\ left \subseteq Example[cur] /\ e \in Example[cur]
      /\ Commands(cur) = Succeeded(Command \cup (Example[cur] \ left))
  BY <1>1 DEF DemoInv, Logs, Running, IInv, Modes
<1>3. /\ DOMAIN log' = Entry
      /\ \A d \in Entry : log'[d] \in Seq((Command \cup Example[d]) \X BOOLEAN)
      /\ \A d \in Entry : \A i \in 1..Len(log'[d]) - 1 : log'[d][i][2]
      /\ \A d \in Entry : d # cur => log'[d] = log[d]
      /\ Elems(log'[cur]) = Succeeded(Command \cup (Example[cur] \ left)) \cup {<<e, ok>>}
  BY <1>1, <1>2, LoggedKeeps DEF DemoInv, Logs
<1>4. CASE ok = TRUE
  <2>1. pc' = pc /\ temp' = temp /\ failedDemos' = failedDemos
    BY <1>1, <1>4
  <2>2. DemoTypes' /\ OneMode' /\ Temps'
    BY <1>1, <1>2, <1>3, <2>1 DEF DemoInv, DemoTypes, OneMode, Temps, TempRemoved
  <2>3. Commands(cur)' = Succeeded(Command \cup (Example[cur'] \ left'))
    <3>1. Commands(cur)' = Elems(log'[cur])
      BY <1>1 DEF Commands, Elems
    <3>2. Command \cup (Example[cur'] \ left') = (Command \cup (Example[cur] \ left)) \cup {e}
      BY <1>1, <1>2
    <3>3. \A S : Succeeded(S) \cup {<<e, TRUE>>} = Succeeded(S \cup {e})
      BY DEF Succeeded
    <3> QED BY <1>3, <1>4, <3>1, <3>2, <3>3
  <2>4. Logs'
    BY <1>1, <1>2, <1>3, <2>1, <2>3 DEF Logs, Succeeded
  <2>5. ASSUME mode = "demos", NEW d \in Found \ (demos \cup failedDemos), d # cur
        PROVE  Passed(d)'
    <3>1. Passed(d) /\ d \in Entry
      BY <1>1, <2>5 DEF DemoInv, Judging, Found
    <3> QED BY <1>3, <2>5, <3>1, SameLog
  <2>6. mode = "demos" => Found' = Found /\ Found # {}
    BY <1>1 DEF DemoInv, Judging, Found
  <2>7. Judging'
    BY <1>1, <2>1, <2>5, <2>6 DEF Judging, Running
  <2> QED BY <2>2, <2>4, <2>7 DEF DemoInv
<1>5. CASE ok = FALSE
  <2>1. Return(temp, TRUE)
    BY <1>1, <1>5
  <2>2. temp' \subseteq Entry \X TempDir /\ \A t \in temp' : t[2] = "rundir"
    BY <2>1, ReturnRemoves DEF DemoInv, DemoTypes, Temps, TempRemoved
  <2>3. \A d \in Entry : d # cur => Passed(d)' = Passed(d)
    BY <1>3, SameLog
  <2>4. Judging' /\ pc' \in {"demos", "ok", "failed"} /\ failedDemos' \subseteq Entry
    BY <1>1, <1>2, <2>1, <2>3, ReturnJudged DEF Running
  <2>5. DemoTypes'
    BY <1>1, <1>3, <2>2, <2>4 DEF DemoInv, DemoTypes
  <2>6. OneMode'
    BY <1>1, <1>2, <2>1, <2>4 DEF DemoInv, OneMode, Return
  <2>7. Temps' /\ Logs'
    BY <1>3, <2>2, <2>4 DEF Temps, TempRemoved, Logs, Running
  <2> QED BY <2>4, <2>5, <2>6, <2>7 DEF DemoInv
<1> QED BY <1>4, <1>5

LEMMA EndExamplesKeeps ==
  ASSUME IInv, DemoInv, EndExamples, lister' = lister
  PROVE  DemoInv'
<1>1. /\ pc = "examples" /\ left = {} /\ Return(temp, FALSE)
      /\ UNCHANGED <<mode, demos, cur, at, left, log>>
  BY DEF EndExamples
<1>2. /\ cur \in Entry /\ mode \notin PkgModes
      /\ Commands(cur) = Succeeded(Command \cup (Example[cur] \ left))
  BY <1>1 DEF DemoInv, Logs, Running, IInv, Modes
<1>3. Passed(cur)'
  <2>1. Example[cur] \ left = Example[cur]
    BY <1>1
  <2>2. Commands(cur)' = Commands(cur)
    BY <1>1 DEF Commands
  <2> QED BY <1>1, <1>2, <2>1, <2>2 DEF Passed, Succeeded
<1>4. temp' \subseteq Entry \X TempDir /\ \A t \in temp' : t[2] = "rundir"
  BY <1>1, ReturnRemoves DEF DemoInv, DemoTypes, Temps, TempRemoved
<1>5. \A d \in Entry : d # cur => Passed(d)' = Passed(d)
  BY <1>1, SameLog
<1>6. Judging' /\ pc' \in {"demos", "ok", "failed"} /\ failedDemos' \subseteq Entry
  BY <1>1, <1>2, <1>3, <1>5, ReturnJudged DEF Running
<1>7. DemoTypes'
  BY <1>1, <1>4, <1>6 DEF DemoInv, DemoTypes
<1>8. OneMode'
  BY <1>1, <1>2, <1>6 DEF DemoInv, OneMode, Return
<1>9. Temps' /\ Logs'
  BY <1>1, <1>4, <1>6 DEF Temps, TempRemoved, DemoInv, Logs, Running
<1> QED BY <1>6, <1>7, <1>8, <1>9 DEF DemoInv

(* What is no step of the demos leaves them alone, and where it changes pc *)
(* it is one of the package modes.                                         *)
LEMMA OtherKeeps ==
  ASSUME IInv, IInv', DemoInv, Help \/ GetPkgs \/ ReadAll \/ CfgReturns \/ EndLoop \/ Wait
           \/ (\E p \in Pkg : Selected(p) \/ EnterDir(p) \/ Goroutine(p)) \/ Lister
           \/ (\E c \in child : Exit(c)) \/ UNCHANGED vars
  PROVE  DemoInv'
<1>1. UNCHANGED <<mode, demos, cur, at, left, temp, log, failedDemos>>
  BY DEF Help, GetPkgs, ReadAll, CfgReturns, EndLoop, Wait, Selected, EnterDir, Goroutine, GenStart,
         GenReturns, Lister, Listed, ListerPanics, List, Exit, demoVars, vars
<1>2. pc' = pc \/ mode \in PkgModes
  <2>1. CASE Help \/ GetPkgs \/ \E p \in Pkg : Selected(p)
    BY <2>1 DEF Help, GetPkgs, Selected, PkgModes
  <2>2. CASE ReadAll \/ CfgReturns \/ EndLoop \/ Wait \/ \E p \in Pkg : EnterDir(p)
    BY <2>2 DEF ReadAll, CfgReturns, EndLoop, Wait, EnterDir, IInv, Modes
  <2>3. CASE Lister
    BY <2>3 DEF Lister, Listed, ListerPanics, List, DemoInv, OneMode
  <2>4. CASE (\E p \in Pkg : Goroutine(p)) \/ (\E c \in child : Exit(c)) \/ UNCHANGED vars
    BY <2>4 DEF Goroutine, GenStart, GenReturns, Exit, vars
  <2> QED BY <2>1, <2>2, <2>3, <2>4
<1>3. mode \in PkgModes \/ lister' = "none"
  <2>1. CASE GetPkgs \/ Lister
    BY <2>1 DEF GetPkgs, Lister, Listed, ListerPanics, List, DemoInv, OneMode, PkgModes
  <2>2. CASE ~GetPkgs /\ ~Lister
    BY <2>2 DEF Help, ReadAll, CfgReturns, EndLoop, Wait, Selected, EnterDir, Goroutine, GenStart,
                GenReturns, Exit, pkgVars, vars, DemoInv, OneMode
  <2> QED BY <2>1, <2>2
<1>4. mode \in PkgModes => pc' \notin {"demos", "demo", "examples", "failed"} /\ temp = {}
  BY <1>1 DEF IInv, Modes, DemoInv, OneMode
<1>5. mode \in PkgModes => pc' # "start" \/ pc = "start"
  BY DEF Help, GetPkgs, ReadAll, RunPkgs, CfgReturns, EndLoop, Wait, Selected, EnterDir, Goroutine, GenStart,
         GenReturns, Lister, Listed, ListerPanics, List, Exit, vars
<1>6. DemoTypes'
  BY <1>1 DEF DemoInv, DemoTypes
<1>7. OneMode' /\ Temps'
  BY <1>1, <1>2, <1>3, <1>4, <1>5 DEF DemoInv, OneMode, Temps, TempRemoved
<1>8. \A d \in Entry \cup {NoDemo} : Commands(d)' = Commands(d) /\ Passed(d)' = Passed(d)
  BY <1>1, SameLog
<1>9. Logs'
  BY <1>1, <1>2, <1>4, <1>8 DEF DemoInv, DemoTypes, Logs, Running
<1>10. Judging'
  <2>1. CASE mode \in PkgModes
    BY <1>1, <2>1 DEF Judging, PkgModes
  <2>2. CASE pc' = pc
    BY <1>1, <1>8, <2>2 DEF DemoInv, DemoTypes, Judging, Running, Found
  <2> QED BY <1>2, <2>1, <2>2
<1> QED BY <1>6, <1>7, <1>9, <1>10 DEF DemoInv

LEMMA DemoInductive == Spec => [](IInv /\ DemoInv)
<1>1. Init => DemoInv
  <2> SUFFICES ASSUME Init PROVE DemoInv
    OBVIOUS
  <2>1. /\ pc = "start" /\ demos = {} /\ cur = NoDemo /\ at = 1 /\ left = {} /\ temp = {}
        /\ log = [d \in Entry |-> <<>>] /\ failedDemos = {} /\ lister = "none"
    BY DEF Init, DemoInit
  <2>2. DemoTypes
    BY <2>1, StepsAre DEF DemoTypes
  <2>3. \A d \in Entry : log[d] = <<>>
    BY <2>1
  <2>4. Logs
    BY <2>1, <2>3 DEF Logs, Running
  <2> QED BY <2>1, <2>2, <2>4 DEF DemoInv, OneMode, Temps, TempRemoved, Judging
<1>2. IInv /\ DemoInv /\ [Next]_vars => DemoInv'
  <2> SUFFICES ASSUME IInv, DemoInv, [Next]_vars PROVE DemoInv'
    OBVIOUS
  <2>1. IInv'
    BY NextKeeps
  <2>2. CASE Demo
    <3>1. lister' = lister /\ DemoNext
      BY <2>2 DEF Demo, pkgVars
    <3>2. ASSUME NEW ok \in BOOLEAN, DemoStep(ok) PROVE DemoInv'
      <4>1. CASE ok = TRUE
        BY <3>1, <3>2, <4>1, StepSucceedsKeeps
      <4>2. CASE ok = FALSE
        BY <3>1, <3>2, <4>2, StepFailsKeeps
      <4> QED BY <4>1, <4>2
    <3> QED BY <3>1, <3>2, StartDemosKeeps, StartDemoKeeps, EndDemosKeeps, NoLogDirKeeps, ExampleKeeps,
               EndExamplesKeeps DEF DemoNext
  <2>3. CASE ~Demo
    BY <2>1, <2>3, OtherKeeps DEF Next, Main, Terminated
  <2> QED BY <2>2, <2>3
<1> QED BY <1>1, <1>2, Inductive, NextKeeps, InitHolds, PTL DEF Spec

(* Only the demo that is run has directories on the disk that it is to     *)
(* remove, whichever step of whichever demo fails.                         *)
THEOREM NothingLeft == Spec => []TempRemoved
<1>1. DemoInv => TempRemoved
  BY DEF DemoInv, Temps
<1> QED BY <1>1, DemoInductive, PTL

(* Success is reported only when every demo has logged all its commands    *)
(* and examples as successes, and a failure leaves no demo unrun.          *)
THEOREM VerdictsHold == Spec => []DemosJudged
<1>1. DemoInv => DemosJudged
  <2> SUFFICES ASSUME DemoInv PROVE DemosJudged
    OBVIOUS
  <2>1. mode = "demos" /\ pc = "ok" => Found # {} /\ \A d \in Found : Passed(d)
    BY DEF DemoInv, Judging, Running
  <2>2. mode = "demos" /\ pc = "failed" /\ cur # NoDemo =>
          demos = {} /\ \A d \in Found \ failedDemos : Passed(d)
    BY DEF DemoInv, Judging, Running
  <2> QED BY <2>1, <2>2 DEF DemoInv, Logs, Judging, DemosJudged
<1> QED BY <1>1, DemoInductive, PTL
=============================================================================
