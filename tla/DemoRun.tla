------------------------------ MODULE DemoRun ------------------------------
(***************************************************************************)
(* llcppgtest -demos and -demo (cmd/llcppgtest/demo): for each directory   *)
(* with an llcppg.cfg, bindings are generated in a temporary directory and *)
(* the examples beside it are built and run against them.  Demos run one   *)
(* after the other.  A step that fails returns an error, and the deferred  *)
(* calls remove the temporary directories made so far.  ReadDir's order is *)
(* left open.                                                              *)
(***************************************************************************)
EXTENDS Integers, Sequences

CONSTANTS
  Entry,   \* directories of the -demos path, and what -demo may name
  Conf,    \* of each entry: its llcppg.cfg in the configuration directory
  Example, \* of each entry: the directories of its demo directory
  NoDemo   \* no demo is being run

ASSUME DemoAssumption ==
  /\ Conf \in [Entry -> {"ok", "absent", "unreadable", "hidden"}]
  /\ DOMAIN Example = Entry /\ NoDemo \notin Entry

VARIABLES
  mode,       \* appMode of main
  pc,         \* next step of main; "ok", "failed" or "panic" when it has ended
  demos,      \* demos that have not been run
  cur,        \* the demo that is run
  at,         \* step of RunGenPkgDemo
  left,       \* examples of cur that have not been run
  temp,       \* temporary directories on the disk: <<demo, step that made it>>
  log,        \* all.log of each demo: its commands and whether they succeeded
  failedDemos

demoVars == <<demos, cur, at, left, temp, log, failedDemos>>

(* The steps of RunGenPkgDemo.                                             *)
Steps == <<"log", "config", "outdir", "copy", "llcppg", "go fmt", "demosdir", "copyfs",
           "go mod init", "go mod edit", "go mod tidy", "readdir", "rundir">>
Command == {"llcppg", "go fmt", "go mod init", "go mod edit", "go mod tidy"}
TempDir == {"outdir", "demosdir", "rundir"}

(* getFirstLevelDemos: os.Stat finds an llcppg.cfg.                        *)
Found == {d \in Entry : Conf[d] \in {"ok", "unreadable"}}

DemoInit ==
  /\ demos = {} /\ cur = NoDemo /\ at = 1 /\ left = {} /\ temp = {}
  /\ log = [d \in Entry |-> <<>>] /\ failedDemos = {}

-----------------------------------------------------------------------------
(* RunAllGenPkgDemos until its loop: the path is no directory, cannot be   *)
(* read, or holds no demo.                                                 *)
StartDemos ==
  /\ pc = "start" /\ mode = "demos"
  /\ \/ pc' = "failed" /\ UNCHANGED demos
     \/ Found # {} /\ pc' = "demos" /\ demos' = Found
  /\ UNCHANGED <<mode, cur, at, left, temp, log, failedDemos>>

(* An iteration of its loop, or RunGenPkgDemo for main.  Fault: a demo      *)
(* that failed is tried again before the next.                             *)
StartDemoAgain(d) ==
  /\ \/ pc = "start" /\ mode = "demo" /\ UNCHANGED demos
     \/ pc = "demos" /\ cur \notin failedDemos /\ d \in demos /\ demos' = demos \ {d}
     \/ pc = "demos" /\ cur \in failedDemos /\ d = cur /\ UNCHANGED demos
  /\ pc' = "demo" /\ cur' = d /\ at' = 1
  /\ UNCHANGED <<mode, left, temp, log, failedDemos>>
StartDemo(d) ==
  /\ \/ pc = "start" /\ mode = "demo" /\ UNCHANGED demos
     \/ pc = "demos" /\ d \in demos /\ demos' = demos \ {d}
  /\ pc' = "demo" /\ cur' = d /\ at' = 1
  /\ UNCHANGED <<mode, left, temp, log, failedDemos>>

(* The loop is over: an error names the demos that failed.  Fault: only    *)
(* that of the last demo counts.                                           *)
EndDemosLast ==
  /\ pc = "demos" /\ demos = {}
  /\ pc' = IF cur \in failedDemos THEN "failed" ELSE "ok"
  /\ UNCHANGED <<mode, demoVars>>
EndDemos ==
  /\ pc = "demos" /\ demos = {}
  /\ pc' = IF failedDemos # {} THEN "failed" ELSE "ok"
  /\ UNCHANGED <<mode, demoVars>>

(* RunGenPkgDemo returns: its deferred calls remove the directories of the *)
(* output and of the examples, not the one for llgo's temporary files.     *)
(* Fault: they are removed at the end of the function and not deferred.    *)
ReturnUndeferred(dirs, err) ==
  /\ temp' = IF err THEN dirs ELSE dirs \ {<<cur, "outdir">>, <<cur, "demosdir">>}
  /\ pc' = IF mode = "demos" THEN "demos" ELSE IF err THEN "failed" ELSE "ok"
  /\ failedDemos' = IF mode = "demos" /\ err THEN failedDemos \cup {cur} ELSE failedDemos
Return(dirs, err) ==
  /\ temp' = dirs \ {<<cur, "outdir">>, <<cur, "demosdir">>}
  /\ pc' = IF mode = "demos" THEN "demos" ELSE IF err THEN "failed" ELSE "ok"
  /\ failedDemos' = IF mode = "demos" /\ err THEN failedDemos \cup {cur} ELSE failedDemos

(* Whether a step can succeed: os.Stat only tells that a file does not     *)
(* exist, os.ReadFile needs to read it.                                    *)
CanSucceed(s) ==
  /\ s = "config" => Conf[cur] # "absent"
  /\ s = "copy" => Conf[cur] = "ok"

Logged(c, ok) == [log EXCEPT ![cur] = Append(@, <<c, ok>>)]

(* logFile creates the log anew.                                           *)
DemoStep(ok) ==
  LET s == Steps[at]
      dirs == IF ok /\ s \in TempDir THEN temp \cup {<<cur, s>>} ELSE temp
  IN  /\ pc = "demo" /\ (ok => CanSucceed(s))
      /\ log' = IF s \in Command THEN Logged(s, ok)
                ELSE IF s = "log" /\ ok THEN [log EXCEPT ![cur] = <<>>] ELSE log
      /\ IF ~ok THEN Return(dirs, TRUE) /\ UNCHANGED <<at, left>>
         ELSE /\ temp' = dirs /\ UNCHANGED failedDemos
              /\ IF at < Len(Steps) THEN at' = at + 1 /\ UNCHANGED <<pc, left>>
                 ELSE pc' = "examples" /\ left' = Example[cur] /\ UNCHANGED at
      /\ UNCHANGED <<mode, demos, cur>>

(* mkdirTempLazily panics: no directory for the logs, which the first demo *)
(* makes for all of them.                                                  *)
NoLogDir ==
  /\ pc = "demo" /\ Steps[at] = "log" /\ (mode = "demos" => demos = Found \ {cur})
  /\ pc' = "panic" /\ UNCHANGED <<mode, demoVars>>

(* llgo run in the directory of an example.                                *)
RunExample(e, ok) ==
  /\ pc = "examples" /\ e \in left
  /\ left' = left \ {e} /\ log' = Logged(e, ok)
  /\ IF ok THEN UNCHANGED <<pc, temp, failedDemos>> ELSE Return(temp, TRUE)
  /\ UNCHANGED <<mode, demos, cur, at>>
EndExamples ==
  /\ pc = "examples" /\ left = {}
  /\ Return(temp, FALSE)
  /\ UNCHANGED <<mode, demos, cur, at, left, log>>

DemoNext ==
  \/ StartDemos \/ EndDemos
  \/ \E d \in Entry : StartDemo(d)
  \/ \E ok \in BOOLEAN : DemoStep(ok)
  \/ NoLogDir
  \/ \E e \in left, ok \in BOOLEAN : RunExample(e, ok)
  \/ EndExamples
=============================================================================
