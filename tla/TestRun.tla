------------------------------ MODULE TestRun ------------------------------
(***************************************************************************)
(* llcppgtest (cmd/llcppgtest): the regression test runner, a program with *)
(* goroutines and child processes.  In the package modes it makes a        *)
(* directory for each package, runs llcppcfg there and waits for it, then  *)
(* starts llcppg in a goroutine of its own and goes on; at the end it      *)
(* waits for all of them.  Errors of llcppcfg and llcppg are ignored.  A   *)
(* panic ends the program but not its child processes.  The order of the   *)
(* packages, which pkg-config does not fix, is left open.                  *)
(***************************************************************************)
EXTENDS DemoRun, FiniteSets

CONSTANTS
  Pkg,   \* packages pkg-config lists, each once; also what the user may name
  NoPkg  \* no package is being run

ASSUME TestAssumption == IsFiniteSet(Pkg) /\ NoPkg \notin Pkg

VARIABLES
  lister, \* goroutine of getPkgs: "none", "running", "failing" or "ended"
  eof,    \* it has closed its end of the pipe
  listed, \* names main has read from the pipe
  todo,   \* packages the loop of runPkgs has not come to
  pkg,    \* the one it is at
  wg,     \* counter of the wait group
  runs,   \* packages whose llcppcfg has returned
  gen,    \* goroutine of each package's llcppg
  child   \* child processes that run: <<program, package>>

pkgVars == <<lister, eof, listed, todo, pkg, wg, runs, gen, child>>
vars == <<mode, pc, demoVars, pkgVars>>

(* main: a later flag of this list overrides an earlier one.               *)
AppMode(rand, all, demosPath, demoPath) ==
  IF demoPath THEN "demo" ELSE IF demosPath THEN "demos"
  ELSE IF all THEN "all" ELSE IF rand THEN "rand" ELSE "selected"

Init ==
  /\ mode \in {AppMode(r, a, ds, d) : r \in BOOLEAN, a \in BOOLEAN, ds \in BOOLEAN, d \in BOOLEAN}
  /\ pc = "start" /\ DemoInit
  /\ lister = "none" /\ eof = FALSE /\ listed = {}
  /\ todo = {} /\ pkg = NoPkg /\ wg = 0 /\ runs = {}
  /\ gen = [p \in Pkg |-> "none"] /\ child = {}

Ended == pc \in {"ok", "failed", "panic"}

-----------------------------------------------------------------------------
(* runPkgs(pkgs) until its loop.                                           *)
RunPkgs(pkgs) == pc' = "next" /\ todo' = pkgs /\ wg' = Cardinality(pkgs)

Help ==
  /\ pc = "start" /\ mode = "selected" /\ pc' = "ok"
  /\ UNCHANGED <<mode, demoVars, pkgVars>>

Selected(p) ==
  /\ pc = "start" /\ mode = "selected" /\ RunPkgs({p})
  /\ UNCHANGED <<mode, demoVars, lister, eof, listed, pkg, runs, gen, child>>

(* getPkgs: pkg-config writes to a pipe, and main reads it to its end.     *)
GetPkgs ==
  /\ pc = "start" /\ mode \in {"all", "rand"}
  /\ pc' = "list" /\ lister' = "running"
  /\ UNCHANGED <<mode, demoVars, eof, listed, todo, pkg, wg, runs, gen, child>>

List(p) ==
  /\ pc = "list" /\ lister = "running" /\ ~eof /\ listed' = listed \cup {p}
  /\ UNCHANGED <<mode, pc, demoVars, lister, eof, todo, pkg, wg, runs, gen, child>>

(* RunCommandWithOut: the deferred Close runs before a panic for an error  *)
(* of pkg-config ends the program, so that main may get ahead with what it *)
(* has read.                                                               *)
Listed ==
  /\ pc = "list" /\ lister = "running"
  /\ \/ listed = Pkg /\ lister' = "ended"
     \/ lister' = "failing"
  /\ eof' = TRUE
  /\ UNCHANGED <<mode, pc, demoVars, listed, todo, pkg, wg, runs, gen, child>>

ListerPanics ==
  /\ lister = "failing" /\ ~Ended
  /\ lister' = "ended" /\ pc' = "panic"
  /\ UNCHANGED <<mode, demoVars, eof, listed, todo, pkg, wg, runs, gen, child>>

(* PkgList returns; rand.Intn panics when there is nothing to pick.        *)
ReadAll ==
  /\ pc = "list" /\ eof
  /\ \/ mode = "all" /\ RunPkgs(listed)
     \/ mode = "rand" /\ \E p \in listed : RunPkgs({p})
     \/ mode = "rand" /\ listed = {} /\ pc' = "panic" /\ UNCHANGED <<todo, wg>>
  /\ UNCHANGED <<mode, demoVars, lister, eof, listed, pkg, runs, gen, child>>

-----------------------------------------------------------------------------
(* An iteration of runPkgs: mkdir -p and cd, which panic when they fail    *)
(* (cd is a program on few systems), then llcppcfg, which may not start.   *)
EnterDir(p) ==
  /\ pc = "next" /\ p \in todo
  /\ \/ pc' = "panic" /\ UNCHANGED <<todo, pkg, child>>
     \/ /\ pc' = "llcppcfg" /\ todo' = todo \ {p} /\ pkg' = p
        /\ child' \in {child, child \cup {<<"llcppcfg", p>>}}
  /\ UNCHANGED <<mode, demoVars, lister, eof, listed, wg, runs, gen>>

(* cmd.Run has returned and the callback starts llcppg's goroutine.        *)
(* Fault: llcppcfg is started and not waited for.                          *)
CfgStarted ==
  /\ pc = "llcppcfg"
  /\ pc' = "next" /\ runs' = runs \cup {pkg} /\ gen' = [gen EXCEPT ![pkg] = "started"]
  /\ UNCHANGED <<mode, demoVars, lister, eof, listed, todo, pkg, wg, child>>
CfgReturns ==
  /\ pc = "llcppcfg" /\ <<"llcppcfg", pkg>> \notin child
  /\ pc' = "next" /\ runs' = runs \cup {pkg} /\ gen' = [gen EXCEPT ![pkg] = "started"]
  /\ UNCHANGED <<mode, demoVars, lister, eof, listed, todo, pkg, wg, child>>

EndLoop ==
  /\ pc = "next" /\ todo = {} /\ pc' = "wait"
  /\ UNCHANGED <<mode, demoVars, pkgVars>>
Wait ==
  /\ pc = "wait" /\ wg = 0 /\ pc' = "ok"
  /\ UNCHANGED <<mode, demoVars, pkgVars>>

-----------------------------------------------------------------------------
(* The goroutine of a package: RunCommandInDir runs llcppg and calls Done, *)
(* whatever became of the command.  Fault: Done is called first.           *)
GenStartDone(p) ==
  /\ ~Ended /\ gen[p] = "started"
  /\ gen' = [gen EXCEPT ![p] = "running"] /\ wg' = wg - 1
  /\ child' = child \cup {<<"llcppg", p>>}
  /\ UNCHANGED <<mode, pc, demoVars, lister, eof, listed, todo, pkg, runs>>
GenStart(p) ==
  /\ ~Ended /\ gen[p] = "started"
  /\ gen' = [gen EXCEPT ![p] = "running"]
  /\ child' \in {child, child \cup {<<"llcppg", p>>}}
  /\ UNCHANGED <<mode, pc, demoVars, lister, eof, listed, todo, pkg, wg, runs>>
GenReturns(p) ==
  /\ ~Ended /\ gen[p] = "running" /\ <<"llcppg", p>> \notin child
  /\ gen' = [gen EXCEPT ![p] = "ended"] /\ wg' = wg - 1
  /\ UNCHANGED <<mode, pc, demoVars, lister, eof, listed, todo, pkg, runs, child>>

(* A child process ends, by itself or with an error (external).            *)
Exit(c) ==
  /\ child' = child \ {c}
  /\ UNCHANGED <<mode, pc, demoVars, lister, eof, listed, todo, pkg, wg, runs, gen>>

-----------------------------------------------------------------------------
Demo == DemoNext /\ UNCHANGED pkgVars
Main ==
  \/ Help \/ GetPkgs \/ ReadAll
  \/ \E p \in Pkg : Selected(p) \/ EnterDir(p)
  \/ CfgReturns \/ EndLoop \/ Wait
Lister == Listed \/ ListerPanics \/ \E p \in Pkg : List(p)
Goroutine(p) == GenStart(p) \/ GenReturns(p)
Terminated == Ended /\ child = {} /\ UNCHANGED vars

Next ==
  \/ Demo \/ Main \/ Lister
  \/ \E p \in Pkg : Goroutine(p)
  \/ \E c \in child : Exit(c)
  \/ Terminated

(* Go's scheduler runs every goroutine that can go on, and the programs    *)
(* that are started end.                                                   *)
Fairness ==
  /\ WF_vars(Demo) /\ WF_vars(Main) /\ WF_vars(Lister)
  /\ \A p \in Pkg : WF_vars(Goroutine(p))
  /\ \A c \in {"llcppcfg", "llcppg"} \X Pkg : WF_vars(c \in child /\ Exit(c))

Spec == Init /\ [][Next]_vars /\ Fairness
=============================================================================
