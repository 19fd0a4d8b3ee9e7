---------------------------- MODULE IncludeList ----------------------------
(***************************************************************************)
(* The include list of the llcppg.cfg that llcppcfg writes                 *)
(* (cmd/llcppcfg/gen): for each -I directory pkg-config reports, the       *)
(* headers below it that clang accepts, those with the most dependencies   *)
(* first; a header reached twice is listed once, and an entry whose        *)
(* relative path was listed before gets the number of its flag.            *)
(***************************************************************************)
EXTENDS Integers, Sequences, FiniteSets

CONSTANTS
  Header,  \* header files, known by their absolute path
  Project, \* what pkg-config reports and the file system holds, see below
  NoIndex  \* an entry without the number of a flag

(* project: flags, the fields of pkg-config --cflags; dir, those that are  *)
(* -I with a directory that can be walked; below[d], the headers below     *)
(* directory d; rel[d], their paths relative to d; top[d], the first       *)
(* components of those; name, what becomes of the file's name: "ok", not a *)
(* header ("other": a leading dot or another extension) or with a colon in *)
(* it; valid, the headers clang accepts; deps, the others each includes,    *)
(* directly or not; excludes, directories to leave out.                    *)
ASSUME IncludeAssumption ==
  /\ NoIndex \notin Nat
  /\ \A pr \in Project :
       /\ pr.flags \in Seq(DOMAIN pr.below \cup {"other"})
       /\ \A d \in DOMAIN pr.below : pr.below[d] \subseteq Header /\ IsFiniteSet(pr.below[d])
       /\ \A d \in DOMAIN pr.below : \A h, g \in pr.below[d] : pr.rel[d][h] = pr.rel[d][g] => h = g
       /\ \A d, e \in DOMAIN pr.below : \A h \in pr.below[d], g \in pr.below[e] :
            pr.rel[d][h] = pr.rel[e][g] =>
              /\ pr.top[d][h] = pr.top[e][g]
              /\ pr.name[h] = "other" <=> pr.name[g] = "other"
       /\ \A h \in Header : /\ IsFiniteSet(pr.deps[h]) /\ h \notin pr.deps[h]
                            /\ \A g \in pr.deps[h] : pr.deps[g] \subseteq pr.deps[h] \cup {h}

VARIABLES
  project,
  pc,       \* "flag": next flag; "add": its headers are added; "done", "panic"
  i,        \* number of the flag
  objFiles, \* CflagEntry.ObjFiles: headers still to be added
  absPath,  \* absPathMap
  relPath,  \* relPathMap
  include   \* the list: entries [index, rel], and the header each stands for

vars == <<project, pc, i, objFiles, absPath, relPath, include>>

-----------------------------------------------------------------------------
Flag == project.flags[i]
Rel(h) == project.rel[Flag][h]

(* isExcludeDir looks at the first component of the relative path.         *)
Excluded(d, h) == project.top[d][h] \in project.excludes

(* parseFileEntry: the files of directory d it takes for headers, and      *)
(* among them those clang accepts.                                         *)
Tried(d) == {h \in project.below[d] : project.name[h] # "other" /\ ~Excluded(d, h)}
ObjFile(d) == {h \in Tried(d) : h \in project.valid}

(* sort.Slice, which is not stable, by the number of dependencies.  Fault: *)
(* the other way round.                                                    *)
SortedUp(s) ==
  \A k \in 1..Len(s) - 1 : Cardinality(project.deps[s[k]]) <= Cardinality(project.deps[s[k + 1]])
Sorted(s) ==
  \A k \in 1..Len(s) - 1 : Cardinality(project.deps[s[k]]) >= Cardinality(project.deps[s[k + 1]])
Orders(S) == {s \in [1..Cardinality(S) -> S] : \A h \in S : \E k \in DOMAIN s : s[k] = h}

Init ==
  /\ project \in Project /\ pc = "flag" /\ i = 1 /\ objFiles = <<>>
  /\ absPath = {} /\ relPath = {} /\ include = <<>>

(* A flag that is no -I, or whose directory cannot be walked to its end.   *)
OtherFlag ==
  /\ pc = "flag" /\ i <= Len(project.flags) /\ Flag = "other"
  /\ i' = i + 1
  /\ UNCHANGED <<project, pc, objFiles, absPath, relPath, include>>

(* parseCFlagsEntry.  clang -MM writes "o: h deps"; with another colon in  *)
(* it NewObjFileString returns nil and parseFileEntry dereferences it.     *)
ParseFlag ==
  /\ pc = "flag" /\ i <= Len(project.flags) /\ Flag # "other"
  /\ \A h \in ObjFile(Flag) : project.name[h] = "ok"
  /\ \E s \in Orders(ObjFile(Flag)) : Sorted(s) /\ objFiles' = s
  /\ pc' = "add"
  /\ UNCHANGED <<project, i, absPath, relPath, include>>
ParsePanics ==
  /\ pc = "flag" /\ i <= Len(project.flags) /\ Flag # "other"
  /\ \E h \in ObjFile(Flag) : project.name[h] = "colon"
  /\ pc' = "panic"
  /\ UNCHANGED <<project, i, objFiles, absPath, relPath, include>>

(* AddIncludeForObjFile.  Fault: relPathMap does not learn the path.       *)
EntryAlone(h) == [index |-> NoIndex, rel |-> Rel(h), header |-> h]
Entry(h) ==
  [index |-> IF Rel(h) \in relPath THEN i ELSE NoIndex, rel |-> Rel(h), header |-> h]

(* AddCflagEntry, one header.  Fault: known by its relative path.          *)
AddByRel ==
  LET h == Head(objFiles)
  IN  /\ pc = "add" /\ objFiles # <<>>
      /\ objFiles' = Tail(objFiles)
      /\ IF Rel(h) \in relPath THEN UNCHANGED <<absPath, relPath, include>>
         ELSE /\ absPath' = absPath \cup {h} /\ relPath' = relPath \cup {Rel(h)}
              /\ include' = Append(include, Entry(h))
      /\ UNCHANGED <<project, pc, i>>
Add ==
  LET h == Head(objFiles)
  IN  /\ pc = "add" /\ objFiles # <<>>
      /\ objFiles' = Tail(objFiles)
      /\ IF h \in absPath THEN UNCHANGED <<absPath, relPath, include>>
         ELSE /\ absPath' = absPath \cup {h} /\ relPath' = relPath \cup {Rel(h)}
              /\ include' = Append(include, Entry(h))
      /\ UNCHANGED <<project, pc, i>>

EndFlag ==
  /\ pc = "add" /\ objFiles = <<>>
  /\ pc' = "flag" /\ i' = i + 1
  /\ UNCHANGED <<project, objFiles, absPath, relPath, include>>

(* Do writes the configuration.                                            *)
Done ==
  /\ pc = "flag" /\ i > Len(project.flags)
  /\ pc' = "done"
  /\ UNCHANGED <<project, i, objFiles, absPath, relPath, include>>

Terminated == pc \in {"done", "panic"} /\ UNCHANGED vars

Next ==
  \/ OtherFlag \/ ParseFlag \/ ParsePanics
  \/ Add \/ EndFlag
  \/ Done
  \/ Terminated

Spec == Init /\ [][Next]_vars
=============================================================================
