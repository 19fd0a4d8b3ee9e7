---------------------------- MODULE HeaderSafety ---------------------------
(***************************************************************************)
(* What must hold of Header: the properties its runs check.                *)
(***************************************************************************)
EXTENDS Header

(* An interface header is a header of the include list, even when another  *)
(* one includes it first and clang never enters it again at depth 1.       *)
InterListed ==
  phase = "done" =>
    {f \in DOMAIN FileMap : FileMap[f] = "inter"} = Range(project.includes)

Closed(S) == \A f \in S : Range(project.incl[f]) \subseteq S
(* Every header whose declarations the parser will meet is classified, and *)
(* no other: the converter looks each of their files up in the FileMap.    *)
AllClassified ==
  phase = "done" =>
    DOMAIN FileMap = {f \in File : \A S \in SUBSET File :
                        (Range(project.includes) \subseteq S /\ Closed(S)) => f \in S}

InterDirs == {Abs(Dir(f)) : f \in Range(project.includes)}
(* f is in a directory below the one the interface headers have in common. *)
InSameRoot(f) ==
  \A d \in InterDirs : \A n \in 0..Len(d) :
     LET root == SubSeq(d, 1, n)
     IN  (\A e \in InterDirs : IsPrefix(root, e)) => IsPrefix(root, Abs(Dir(f)))

Others == {f \in DOMAIN FileMap : FileMap[f] # "inter"}
OneDir == \A f, g \in Range(project.includes) : Dir(f) = Dir(g)
Relative == \A f \in Range(project.includes) : ~IsAbs(Path(f))
(* No directory on the way to f has a name that begins with a name of the  *)
(* interface directories and goes on.                                      *)
NoLookalike(f) ==
  \A d \in InterDirs, i \in DOMAIN Abs(Path(f)) :
     i \in DOMAIN d => <<d[i], Abs(Path(f))[i]>> \notin Begins

(* "Implementation header files: other header files in the same root       *)
(* directory": exactly those, and none with mix, as long as the interface  *)
(* headers are in one directory or have relative paths and no directory    *)
(* outside the root has a name that begins like one of the root.           *)
ImplsAreLocal ==
  phase = "done" /\ (OneDir \/ Relative) =>
    \A f \in Others :
       NoLookalike(f) => (FileMap[f] = "impl" <=> ~project.mix /\ InSameRoot(f))

(* Only the first component of a path may be Sep, and no header lies where *)
(* a directory of headers does.                                            *)
CleanPaths ==
  \A pr \in Projects : \A f \in File :
    /\ \A i \in 2..Len(pr.path[f]) : pr.path[f][i] # Sep
    /\ \A g \in File : ~IsPrefix(Abs(pr.path[f]), Abs(Front(pr.path[g])))

(* The same documented rule without the condition on the interface         *)
(* headers: their common parent directory is the root wherever they are.   *)
ImplsOfCommonRoot ==
  phase = "done" /\ ~project.mix =>
    \A f \in Others : InSameRoot(f) => FileMap[f] = "impl"
=============================================================================
