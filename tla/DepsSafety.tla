----------------------------- MODULE DepsSafety ----------------------------
(***************************************************************************)
(* What must hold of Deps: the properties its runs check.                  *)
(***************************************************************************)
EXTENDS Deps

(* A dependency relation between packages, from the llcppg.cfg files.      *)
DependsOn(p, q) ==
  LET ds == IF p = Root THEN WithC(graph[Root])
            ELSE IF p \in HasCfg THEN graph[p] ELSE <<>>
  IN  \E i \in DOMAIN ds : Path[ds[i]] = q
Closed(S) == \A p \in S, q \in Pkg : DependsOn(p, q) => q \in S
(* The packages that p reaches in one step or more. *)
Reaches(p) ==
  {q \in Pkg : \A S \in SUBSET Pkg :
                 (Closed(S) /\ \A r \in Pkg : DependsOn(p, r) => r \in S) => q \in S}

(* "Type mappings from all dependency packages are loaded and registered": *)
(* all the packages the root reaches, and no other, through diamonds and   *)
(* cycles of llcppg.cfg files.                                             *)
RegisteredAll == phase = "done" => regCache = Reaches(Root)

(* Every type a dependency publishes and declares can be referred to, by   *)
(* the C name it publishes it under, as that type or as the one of another *)
(* dependency that publishes the same C name.                              *)
PubsVisible ==
  phase = "done" =>
    \A p \in Reaches(Root) : \A c \in DOMAIN Pubs[p] :
       Pubs[p][c] \in Defines[p] =>
         /\ c \in DOMAIN scope
         /\ \E q \in Reaches(Root) : /\ c \in DOMAIN Pubs[q] /\ scope[c].pkg = q
                                     /\ scope[c].go = Pubs[q][c]

(* A package's dependencies are registered before it: a C name that both a *)
(* package and one it depends on, even through others, publish is never    *)
(* bound to the dependent, unless that depends on itself through a cycle.  *)
DependencyWins ==
  \A c \in DOMAIN scope :
     LET p == scope[c].pkg
     IN  p \notin Reaches(p) =>
           \A q \in Reaches(p) : ~(c \in DOMAIN Pubs[q] /\ Pubs[q][c] \in Defines[q])

(* A dependency cycle is loaded like any other graph: InitDeps returns.    *)
Terminates == <>(phase \in {"done", "failed"})
=============================================================================
