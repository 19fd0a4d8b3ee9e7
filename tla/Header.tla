------------------------------- MODULE Header ------------------------------
(***************************************************************************)
(* Which headers belong to the package (_xtool/internal/header,            *)
(* clangtool.GetInclusions, and the FileMap parse.Do builds from it).      *)
(* clang runs once on each header of llcppg.cfg, then on all together; of  *)
(* every header it enters it reports the path and the depth.  A clang run  *)
(* is a stack of the include directives that are left at each depth.  A    *)
(* path is the sequence strings.Split makes of it: it begins with Sep, the *)
(* empty component, when it is absolute.                                   *)
(***************************************************************************)
EXTENDS Integers, Sequences, FiniteSets, SequencesExt

CONSTANTS
  File,     \* headers
  Projects, \* projects to explore, records of the fields of project
  Sep,      \* the component before the leading separator
  Cwd,      \* absolute path of the working directory
  Begins,   \* pairs <<s, t>> of different components, s a string prefix of t
  MaxDepth  \* bound: include directives that nest

(* project: the path of each header, what it includes, whether clang       *)
(* enters it once only, the include list and mix of llcppg.cfg.            *)
ASSUME HeaderAssumption ==
  /\ Cwd \in Seq(Range(Cwd)) \ {<<>>} /\ Head(Cwd) = Sep /\ MaxDepth \in Nat
  /\ \A pr \in Projects :
       /\ DOMAIN pr.path = File
       /\ \A f \in File : pr.path[f] \in Seq(Range(pr.path[f])) \ {<<>>}
       /\ pr.incl \in [File -> Seq(File)] /\ pr.once \subseteq File
       /\ pr.includes \in Seq(File) /\ pr.mix \in BOOLEAN

VARIABLES
  project,
  phase,   \* "solo": clang on one header; "composed"; then "done" or "panic"
  left,    \* headers of the include list not run alone yet
  stack,   \* include directives left at depth 1, 2, ... of the clang run
  entered, \* headers this run of clang has entered
  Inters,  \* PkgHfilesInfo: interface headers, in the order they were found
  others,  \* the other headers
  FileMap  \* header -> "inter", "impl" or "third"

vars == <<project, phase, left, stack, entered, Inters, others, FileMap>>

-----------------------------------------------------------------------------
Path(f) == project.path[f]
IsAbs(p) == Head(p) = Sep
Dir(f) == Front(Path(f))

(* filepath.Join of components: the empty one is left out.                 *)
Join(parts) ==
  IF Sep \in Range(parts) THEN SelectSeq(parts, LAMBDA c : c # Sep) ELSE parts
Abs(p) == IF p # <<>> /\ IsAbs(p) THEN p ELSE Cwd \o p

(* strings.HasPrefix: root may end inside a component of p.                *)
HasPrefix(p, root) ==
  \/ IsPrefix(root, p)
  \/ /\ Len(p) >= Len(root) /\ IsPrefix(Front(root), p)
     /\ <<Last(root), p[Len(root)]>> \in Begins

(* The components with which all the directories begin.                    *)
Common(dirs) ==
  LET n == CHOOSE n \in 0..Len(dirs[1]) :
             /\ \A d \in Range(dirs) : IsPrefix(SubSeq(dirs[1], 1, n), d)
             /\ n < Len(dirs[1]) =>
                  \E d \in Range(dirs) : ~IsPrefix(SubSeq(dirs[1], 1, n + 1), d)
  IN  SubSeq(dirs[1], 1, n)

(* commonParentDir.  Fault: the component that differs is kept.            *)
KeepDifferent(fs) ==
  LET dirs == [i \in DOMAIN fs |-> Dir(fs[i])]
  IN  IF fs = <<>> THEN <<>>
      ELSE IF Common(dirs) = dirs[1] THEN dirs[1]
      ELSE Join(SubSeq(dirs[1], 1, Len(Common(dirs)) + 1))
commonParentDir(fs) ==
  LET dirs == [i \in DOMAIN fs |-> Dir(fs[i])]
  IN  IF fs = <<>> THEN <<>>
      ELSE IF Common(dirs) = dirs[1] THEN dirs[1]
      ELSE Join(Common(dirs))

Init ==
  /\ project \in Projects /\ phase = "solo"
  /\ left = project.includes /\ stack = <<>> /\ entered = {}
  /\ Inters = <<>> /\ others = <<>> /\ FileMap = [f \in {} |-> "inter"]

-----------------------------------------------------------------------------
(* clang (external): the next include directive of the innermost header.   *)
NextDirective == Head(Last(stack))
Skipped == NextDirective \in entered \cap project.once
Consumed == Append(Front(stack), Tail(Last(stack)))

(* GetInclusions on a header of the include list alone.                    *)
StartSolo ==
  /\ phase = "solo" /\ stack = <<>> /\ left # <<>>
  /\ stack' = <<<<Head(left)>>>> /\ left' = Tail(left) /\ entered' = {}
  /\ UNCHANGED <<project, phase, Inters, others, FileMap>>

(* GetInclusions on the composed header, after all of the list.            *)
StartComposed ==
  /\ phase = "solo" /\ stack = <<>> /\ left = <<>>
  /\ phase' = "composed" /\ stack' = <<project.includes>> /\ entered' = {}
  /\ UNCHANGED <<project, left, Inters, others, FileMap>>

(* retrieveInterfaceFn, retrieveComposedHeadersFn.  Faults: what is an     *)
(* interface header is not asked; headers deeper than that are dropped;    *)
(* the depth is not looked at.                                             *)
ReportAll(f, depth) ==
  IF depth > 1 /\ phase = "composed" THEN Append(others, f) ELSE others
NearOther(f, depth) ==
  IF phase = "composed" /\ depth = 2 /\ f \notin Range(Inters)
  THEN Append(others, f) ELSE others
ReportOther(f, depth) ==
  IF phase = "composed" /\ depth > 1 /\ f \notin Range(Inters)
  THEN Append(others, f) ELSE others
ReportInter(f, depth) ==
  IF phase = "solo" /\ depth = 1 THEN Append(Inters, f) ELSE Inters

Enter ==
  /\ stack # <<>> /\ Last(stack) # <<>>
  /\ phase \in {"solo", "composed"}
  /\ IF Skipped
     THEN stack' = Consumed /\ UNCHANGED <<entered, Inters, others>>
     ELSE /\ Len(stack) < MaxDepth
          /\ stack' = Append(Consumed, project.incl[NextDirective])
          /\ entered' = entered \cup {NextDirective}
          /\ Inters' = ReportInter(NextDirective, Len(stack))
          /\ others' = ReportOther(NextDirective, Len(stack))
  /\ UNCHANGED <<project, phase, left, FileMap>>

(* A header ends; the depth-1 directives of a composed header end the run. *)
Leave ==
  /\ stack # <<>> /\ Last(stack) = <<>>
  /\ phase = "solo" \/ (phase = "composed" /\ Len(stack) > 1)
  /\ stack' = Front(stack)
  /\ UNCHANGED <<project, phase, left, entered, Inters, others, FileMap>>

(* clang rejects the code: PkgHfileInfo panics with what it wrote.         *)
ClangFails ==
  /\ phase \in {"solo", "composed"} /\ stack # <<>>
  /\ phase' = "panic"
  /\ UNCHANGED <<project, left, stack, entered, Inters, others, FileMap>>

(* Impls and Thirds, and the FileMap; a later list overrides an earlier.   *)
InRoot(f) == HasPrefix(Abs(Path(f)), Abs(commonParentDir(Inters)))
Types ==
  LET impls == {f \in Range(others) : ~project.mix /\ InRoot(f)}
      thirds == Range(others) \ impls
  IN  [f \in Range(Inters) \cup Range(others) |->
         IF f \in thirds THEN "third" ELSE IF f \in impls THEN "impl" ELSE "inter"]

Classify ==
  /\ phase = "composed" /\ stack = <<<<>>>>
  /\ phase' = "done" /\ stack' = <<>> /\ FileMap' = Types
  /\ UNCHANGED <<project, left, entered, Inters, others>>

Terminated == phase \in {"done", "panic"} /\ UNCHANGED vars

Next ==
  \/ StartSolo \/ StartComposed
  \/ Enter \/ Leave \/ ClangFails
  \/ Classify
  \/ Terminated

Spec == Init /\ [][Next]_vars
=============================================================================
