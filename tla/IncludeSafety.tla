--------------------------- MODULE IncludeSafety ---------------------------
(***************************************************************************)
(* What must hold of IncludeList: the properties its run checks.           *)
(***************************************************************************)
EXTENDS IncludeList

Listed == {include[k].header : k \in DOMAIN include}
Dirs == {project.flags[k] : k \in DOMAIN project.flags} \ {"other"}

Name(e) == <<e.index, e.rel>>
(* Every header that some -I directory offers is listed, and none twice,   *)
(* also when directories repeat or one is inside another; no two entries   *)
(* are the same string: equal relative paths of different directories are  *)
(* told apart by the number of the flag.                                   *)
EachOnce ==
  /\ \A j, k \in DOMAIN include : j # k =>
       include[j].header # include[k].header /\ Name(include[j]) # Name(include[k])
  /\ pc = "done" => Listed = UNION {ObjFile(d) : d \in Dirs}

(* Where clang finds the path, looking through the directories in order.   *)
FoundBy(rel) ==
  LET At(k) == {h \in project.below[project.flags[k]] : project.rel[project.flags[k]][h] = rel}
      ks == {k \in DOMAIN project.flags : project.flags[k] # "other" /\ At(k) # {}}
  IN  IF ks = {} THEN {} ELSE At(CHOOSE k \in ks : \A n \in ks : k <= n)
Inside(d, e) == d # e /\ project.below[d] \cap project.below[e] # {}
(* The llcppg that reads the configuration finds, under an entry without a *)
(* number, the header the entry was made for, as long as no -I directory   *)
(* is inside another and clang accepts what it finds in each.              *)
Resolves ==
  (\A d, e \in Dirs : ~Inside(d, e)) =>
    \A k \in DOMAIN include :
      include[k].index = NoIndex /\ Header = project.valid =>
        FoundBy(include[k].rel) = {include[k].header}

(* Flag n adds header h, unless it is listed already.                      *)
Offers(n, h) == project.flags[n] # "other" /\ h \in ObjFile(project.flags[n])
(* Some flag has g before any has h: "-I/inc/foo -I/inc" has /inc/foo/b.h   *)
(* before /inc/a.h, and "-I/lib -I/inc" everything of /lib before /inc.     *)
OfferedBefore(g, h) ==
  \E n \in DOMAIN project.flags : Offers(n, g) /\ \A m \in 1..n : ~Offers(m, h)

(* Of a header and one that it includes and that does not include it, in   *)
(* one directory or in two, the includer is listed first, as llcppg has to *)
(* read it first; only where a flag has the included header before any has *)
(* the includer is it the other way round, for the list is appended to     *)
(* flag by flag and sorted within a flag only.                             *)
IncludersFirst ==
  \A j, k \in DOMAIN include :
    /\ include[k].header \in project.deps[include[j].header]
    /\ include[j].header \notin project.deps[include[k].header]
    => (j < k <=> ~OfferedBefore(include[k].header, include[j].header))
=============================================================================
