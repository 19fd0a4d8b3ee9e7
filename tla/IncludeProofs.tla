--------------------------- MODULE IncludeProofs ---------------------------
(***************************************************************************)
(* What holds of the include list for whatever pkg-config and the file     *)
(* system answer.  First EachOnce: absPath and relPath are what the list   *)
(* was made of, a number in an entry is that of a flag the loop has        *)
(* reached, under whose directory the header has the entry's path, and     *)
(* what the flags so far offer is in the list or still to be added.  Then  *)
(* where an entry's path leads, and the order of the list.                 *)
(***************************************************************************)
EXTENDS IncludeSafety, FiniteSetTheorems, WellFoundedInduction, TLAPS

Elems(s) == {s[k] : k \in DOMAIN s}
InTree(d, h, rel) == h \in project.below[d] /\ project.rel[d][h] = rel

TypeOK ==
  /\ project \in Project /\ pc \in {"flag", "add", "done", "panic"}
  /\ i \in Nat \ {0} /\ objFiles \in Seq(Header)
  /\ include \in Seq([index : Nat \cup {NoIndex}, rel : relPath, header : absPath])
AtFlag == pc = "add" => i <= Len(project.flags) /\ Flag # "other" /\ Elems(objFiles) \subseteq ObjFile(Flag)
Numbered == \A k \in DOMAIN include :
  include[k].index # NoIndex =>
    /\ include[k].index <= i /\ (pc = "flag" => include[k].index < i)
    /\ include[k].index \in DOMAIN project.flags
    /\ InTree(project.flags[include[k].index], include[k].header, include[k].rel)
Distinct == \A j, k \in DOMAIN include : j # k =>
  include[j].header # include[k].header /\ Name(include[j]) # Name(include[k])
Known == Listed = absPath
(* Headers the first n flags offer.                                        *)
Offered(n) ==
  UNION {ObjFile(project.flags[k]) : k \in {k \in DOMAIN project.flags : k <= n /\ project.flags[k] # "other"}}
Complete ==
  /\ pc = "flag" => absPath = Offered(i - 1)
  /\ pc = "add" => absPath \cup Elems(objFiles) = Offered(i)
  /\ pc = "done" => absPath = Offered(Len(project.flags))

IInv == TypeOK /\ AtFlag /\ Numbered /\ Distinct /\ Known /\ Complete

(* What the assumption says of the project at hand.                        *)
LEMMA ProjectFacts ==
  ASSUME project \in Project
  PROVE  /\ project.flags \in Seq(DOMAIN project.below \cup {"other"})
         /\ \A k \in DOMAIN project.flags :
              project.flags[k] # "other" => project.flags[k] \in DOMAIN project.below
         /\ \A d \in DOMAIN project.below : ObjFile(d) \subseteq Header
         /\ \A d \in DOMAIN project.below : IsFiniteSet(ObjFile(d))
         /\ \A d \in DOMAIN project.below : ObjFile(d) \subseteq project.below[d]
         /\ \A d \in DOMAIN project.below : \A h, g \in project.below[d] :
              project.rel[d][h] = project.rel[d][g] => h = g
<1>1. project.flags \in Seq(DOMAIN project.below \cup {"other"})
  BY IncludeAssumption
<1>2. \A d \in DOMAIN project.below : project.below[d] \subseteq Header /\ IsFiniteSet(project.below[d])
  BY IncludeAssumption
<1>3. \A d \in DOMAIN project.below : \A h, g \in project.below[d] :
        project.rel[d][h] = project.rel[d][g] => h = g
  BY IncludeAssumption
<1>4. \A d \in DOMAIN project.below : ObjFile(d) \subseteq project.below[d]
  BY DEF ObjFile, Tried
<1>5. \A d \in DOMAIN project.below : IsFiniteSet(ObjFile(d))
  BY <1>2, <1>4, FS_Subset
<1>6. \A k \in DOMAIN project.flags :
        project.flags[k] # "other" => project.flags[k] \in DOMAIN project.below
  BY <1>1
<1> QED BY <1>1, <1>2, <1>3, <1>4, <1>5, <1>6

(* An order of a finite set is a sequence of its elements.                 *)
LEMMA OrdersAre ==
  ASSUME NEW S, IsFiniteSet(S), NEW s \in Orders(S)
  PROVE  s \in Seq(S) /\ Elems(s) = S
<1>1. Cardinality(S) \in Nat
  BY FS_CardinalityType
<1>2. s \in [1..Cardinality(S) -> S] /\ \A h \in S : \E k \in DOMAIN s : s[k] = h
  BY DEF Orders
<1>3. s \in Seq(S)
  BY <1>1, <1>2
<1> QED BY <1>2, <1>3 DEF Elems

LEMMA EntryTypes ==
  ASSUME NEW A, NEW B, NEW C, NEW s \in Seq([index : A, rel : B, header : C])
  PROVE  \A k \in DOMAIN s : s[k].index \in A /\ s[k].rel \in B /\ s[k].header \in C
<1> DEFINE E == [index : A, rel : B, header : C]
<1>1. \A e \in E : e.index \in A /\ e.rel \in B /\ e.header \in C
  OBVIOUS
<1>2. s \in Seq(E)
  OBVIOUS
<1> HIDE DEF E
<1>3. \A k \in DOMAIN s : s[k] \in E
  BY <1>2
<1> QED BY <1>1, <1>3

(* The project does not change, nor what its flags offer.                  *)
LEMMA SameOffer ==
  ASSUME project' = project
  PROVE  /\ \A n : Offered(n)' = Offered(n)
         /\ \A d : ObjFile(d)' = ObjFile(d)
<1>1. \A d : ObjFile(d)' = ObjFile(d)
  BY DEF ObjFile, Tried, Excluded
<1> QED BY <1>1 DEF Offered

LEMMA InitHolds == Init => IInv
<1> SUFFICES ASSUME Init PROVE IInv
  OBVIOUS
<1>1. Elems(objFiles) = {} /\ Listed = {}
  BY DEF Init, Elems, Listed
<1>2. Offered(0) = {}
  <2>1. project.flags \in Seq(DOMAIN project.below \cup {"other"})
    BY ProjectFacts DEF Init
  <2> QED BY <2>1 DEF Offered
<1> QED BY <1>1, <1>2 DEF Init, IInv, TypeOK, AtFlag, Numbered, Distinct, Known, Complete

-----------------------------------------------------------------------------
(* One more flag offers its headers, or nothing if it is another flag.     *)
LEMMA OfferedNext ==
  ASSUME NEW n \in Nat \ {0}, n \in DOMAIN project.flags,
         project.flags \in Seq(DOMAIN project.below \cup {"other"})
  PROVE  /\ project.flags[n] = "other" => Offered(n) = Offered(n - 1)
         /\ project.flags[n] # "other" => Offered(n) = Offered(n - 1) \cup ObjFile(project.flags[n])
<1>1. \A k \in DOMAIN project.flags : k <= n <=> (k <= n - 1 \/ k = n)
  OBVIOUS
<1>2. ASSUME project.flags[n] = "other" PROVE Offered(n) = Offered(n - 1)
  BY <1>1, <1>2 DEF Offered
<1>3. ASSUME project.flags[n] # "other"
      PROVE  Offered(n) = Offered(n - 1) \cup ObjFile(project.flags[n])
  BY <1>1, <1>3 DEF Offered
<1> QED BY <1>2, <1>3

LEMMA OtherFlagKeeps == IInv /\ OtherFlag => IInv'
<1> SUFFICES ASSUME IInv, OtherFlag PROVE IInv'
  OBVIOUS
<1>1. project \in Project /\ project' = project /\ include' = include /\ absPath' = absPath
      /\ relPath' = relPath /\ pc = "flag" /\ pc' = "flag" /\ i' = i + 1 /\ i \in Nat \ {0}
  BY DEF OtherFlag, IInv, TypeOK
<1>2. TypeOK'
  BY <1>1 DEF OtherFlag, IInv, TypeOK
<1>3. Numbered'
  <2>1. \A k \in DOMAIN include : include[k].index \in Nat \cup {NoIndex}
    BY EntryTypes DEF IInv, TypeOK
  <2>2. \A k \in DOMAIN include : include[k].index # NoIndex => include[k].index < i + 1
    BY <1>1, <2>1 DEF IInv, Numbered
  <2> SUFFICES ASSUME NEW k \in DOMAIN include, include[k].index # NoIndex
               PROVE  /\ include[k].index <= i + 1 /\ include[k].index < i + 1
                      /\ include[k].index \in DOMAIN project.flags
                      /\ InTree(project.flags[include[k].index], include[k].header, include[k].rel)
    BY <1>1 DEF Numbered, InTree
  <2> QED BY <1>1, <2>1, <2>2 DEF IInv, Numbered
<1>4. absPath' = Offered(i)
  <2>1. i \in DOMAIN project.flags /\ project.flags[i] = "other"
    BY <1>1, ProjectFacts DEF OtherFlag, Flag
  <2> QED BY <1>1, <2>1, OfferedNext, ProjectFacts DEF IInv, Complete
<1>5. Complete'
  BY SameOffer, <1>1, <1>4 DEF Complete
<1> QED BY <1>1, <1>2, <1>3, <1>5 DEF IInv, AtFlag, Distinct, Known, Listed, Name

LEMMA ParseFlagKeeps == IInv /\ ParseFlag => IInv'
<1> SUFFICES ASSUME IInv, ParseFlag PROVE IInv'
  OBVIOUS
<1>1. project \in Project /\ project' = project /\ include' = include /\ absPath' = absPath
      /\ relPath' = relPath /\ pc = "flag" /\ pc' = "add" /\ i' = i /\ i \in Nat \ {0}
      /\ i <= Len(project.flags) /\ Flag # "other"
  BY DEF ParseFlag, IInv, TypeOK
<1>2. i \in DOMAIN project.flags /\ Flag = project.flags[i] /\ Flag \in DOMAIN project.below
  BY <1>1, ProjectFacts DEF Flag
<1>3. IsFiniteSet(ObjFile(Flag)) /\ ObjFile(Flag) \subseteq Header
  BY <1>1, <1>2, ProjectFacts
<1>4. objFiles' \in Seq(ObjFile(Flag)) /\ Elems(objFiles') = ObjFile(Flag)
  BY <1>3, OrdersAre DEF ParseFlag
<1>5. TypeOK'
  <2>1. objFiles' \in Seq(Header)
    BY <1>3, <1>4
  <2> QED BY <1>1, <2>1 DEF IInv, TypeOK
<1>6. AtFlag'
  BY SameOffer, <1>1, <1>4 DEF AtFlag, Flag, Elems
<1>7. Numbered'
  BY <1>1 DEF IInv, Numbered, InTree
<1>8. absPath \cup ObjFile(Flag) = Offered(i)
  BY <1>1, <1>2, OfferedNext, ProjectFacts DEF IInv, Complete
<1>9. Complete'
  BY SameOffer, <1>1, <1>4, <1>8 DEF Complete, Elems
<1> QED BY <1>1, <1>5, <1>6, <1>7, <1>9 DEF IInv, Distinct, Known, Listed, Name

-----------------------------------------------------------------------------
(* The head of the sequence and the rest are what it holds.                *)
LEMMA HeadAndTail ==
  ASSUME NEW S, NEW s \in Seq(S), s # <<>>
  PROVE  Head(s) \in S /\ Tail(s) \in Seq(S) /\ Elems(s) = {Head(s)} \cup Elems(Tail(s))
<1>1. Len(s) \in Nat \ {0} /\ Head(s) = s[1] /\ Tail(s) \in Seq(S) /\ Len(Tail(s)) = Len(s) - 1
  OBVIOUS
<1>2. \A k \in 1..Len(s) - 1 : Tail(s)[k] = s[k + 1]
  OBVIOUS
<1>3. \A k \in 1..Len(s) : k = 1 \/ (k - 1 \in 1..Len(s) - 1 /\ s[k] = Tail(s)[k - 1])
  BY <1>1, <1>2
<1>4. DOMAIN s = 1..Len(s) /\ DOMAIN Tail(s) = 1..Len(s) - 1
  BY <1>1
<1>5. Elems(s) \subseteq {Head(s)} \cup Elems(Tail(s))
  <2> SUFFICES ASSUME NEW k \in 1..Len(s) PROVE s[k] \in {Head(s)} \cup Elems(Tail(s))
    BY <1>4 DEF Elems
  <2>1. CASE k = 1
    BY <1>1, <2>1
  <2>2. CASE k # 1
    BY <1>3, <1>4, <2>2 DEF Elems
  <2> QED BY <2>1, <2>2
<1>6. {Head(s)} \cup Elems(Tail(s)) \subseteq Elems(s)
  BY <1>1, <1>2, <1>4 DEF Elems
<1> QED BY <1>1, <1>5, <1>6

(* A header that is listed already: only the work left gets less.          *)
LEMMA AgainKeeps ==
  ASSUME IInv, Add, Head(objFiles) \in absPath
  PROVE  IInv'
<1>1. project' = project /\ include' = include /\ absPath' = absPath /\ relPath' = relPath
      /\ pc = "add" /\ pc' = pc /\ i' = i /\ objFiles' = Tail(objFiles) /\ objFiles # <<>>
  BY DEF Add
<1>2. objFiles \in Seq(Header)
  BY DEF IInv, TypeOK
<1>3. Tail(objFiles) \in Seq(Header) /\ Elems(objFiles) = {Head(objFiles)} \cup Elems(Tail(objFiles))
  BY <1>1, <1>2, HeadAndTail
<1>4. TypeOK'
  BY <1>1, <1>3 DEF IInv, TypeOK
<1>5. AtFlag'
  BY SameOffer, <1>1, <1>3 DEF IInv, AtFlag, Flag, Elems
<1>6. Numbered'
  BY <1>1 DEF IInv, Numbered, InTree
<1>7. absPath \cup Elems(Tail(objFiles)) = Offered(i)
  BY <1>1, <1>3 DEF IInv, Complete
<1>8. Complete'
  BY SameOffer, <1>1, <1>7 DEF Complete, Elems
<1> QED BY <1>1, <1>4, <1>5, <1>6, <1>8 DEF IInv, Distinct, Known, Listed, Name

(* A header that is not: its entry's name is one of its own, because a     *)
(* path without a number is new, and under one -I directory a path is one  *)
(* header's.                                                               *)
LEMMA NewKeeps ==
  ASSUME IInv, Add, Head(objFiles) \notin absPath
  PROVE  IInv'
<1> DEFINE h == Head(objFiles)
           E == [index : Nat \cup {NoIndex}, rel : relPath, header : absPath]
           F == [index : Nat \cup {NoIndex}, rel : relPath', header : absPath']
           n == Len(include)
<1>1. project' = project /\ pc = "add" /\ pc' = pc /\ i' = i /\ objFiles' = Tail(objFiles)
      /\ objFiles # <<>> /\ absPath' = absPath \cup {h} /\ relPath' = relPath \cup {Rel(h)}
      /\ include' = Append(include, Entry(h))
  BY DEF Add
<1>2. project \in Project /\ i \in Nat \ {0} /\ objFiles \in Seq(Header) /\ include \in Seq(E)
  BY DEF IInv, TypeOK
<1>3. Tail(objFiles) \in Seq(Header) /\ Elems(objFiles) = {h} \cup Elems(Tail(objFiles))
  BY <1>1, <1>2, HeadAndTail
<1>4. i <= Len(project.flags) /\ Flag # "other" /\ Elems(objFiles) \subseteq ObjFile(Flag)
  BY <1>1 DEF IInv, AtFlag
<1>5. i \in DOMAIN project.flags /\ Flag = project.flags[i] /\ Flag \in DOMAIN project.below
  BY <1>2, <1>4, ProjectFacts DEF Flag
<1>6. InTree(Flag, h, Rel(h))
  BY <1>2, <1>3, <1>4, <1>5, ProjectFacts DEF InTree, Rel
<1>7. /\ Entry(h).rel = Rel(h) /\ Entry(h).header = h
      /\ Entry(h).index = IF Rel(h) \in relPath THEN i ELSE NoIndex
  BY DEF Entry
<1>8. Entry(h) \in F
  BY <1>1, <1>2 DEF Entry
<1> HIDE DEF h, E, F
<1>9. /\ n \in Nat /\ DOMAIN include = 1..n /\ DOMAIN include' = 1..n + 1
      /\ include'[n + 1] = Entry(h)
      /\ \A k \in 1..n : include'[k] = include[k]
      /\ \A k \in 1..n : include[k] \in E
  BY <1>1, <1>2
<1>10. \A k \in 1..n : /\ include[k].rel \in relPath /\ include[k].header \in absPath
                       /\ include[k].index \in Nat \cup {NoIndex}
  BY <1>2, <1>9, EntryTypes DEF E
<1>11. TypeOK'
  <2>1. E \subseteq F
    BY <1>1 DEF E, F
  <2>2. include \in Seq(F)
    BY <1>2, <2>1
  <2>3. include' \in Seq(F)
    BY <1>1, <1>8, <2>2
  <2> QED BY <1>1, <1>2, <1>3, <2>3 DEF F, IInv, TypeOK
<1>12. AtFlag'
  BY SameOffer, <1>1, <1>3, <1>4 DEF AtFlag, Flag, Elems
<1>13. Numbered'
  <2> SUFFICES ASSUME NEW k \in 1..n + 1, include'[k].index # NoIndex
               PROVE  /\ include'[k].index <= i
                      /\ include'[k].index \in DOMAIN project.flags
                      /\ InTree(project.flags[include'[k].index], include'[k].header, include'[k].rel)
    BY <1>1, <1>9 DEF Numbered, InTree
  <2>1. CASE k = n + 1
    BY <2>1, <1>2, <1>5, <1>6, <1>7, <1>9
  <2>2. CASE k \in 1..n
    BY <2>2, <1>9 DEF IInv, Numbered
  <2> QED BY <1>9, <2>1, <2>2
<1>14. Distinct'
  <2>1. \A k \in 1..n : include[k].header # h
    BY <1>10 DEF h
  <2>2. ASSUME NEW k \in 1..n PROVE Name(include[k]) # Name(Entry(h))
    <3>1. CASE Rel(h) \notin relPath
      BY <3>1, <1>7, <1>10 DEF Name
    <3>2. CASE Rel(h) \in relPath
      <4> SUFFICES ASSUME include[k].index = i, include[k].rel = Rel(h) PROVE FALSE
        BY <3>2, <1>7 DEF Name
      <4>1. i # NoIndex
        BY <1>2, IncludeAssumption
      <4>2. InTree(Flag, include[k].header, Rel(h))
        BY <4>1, <1>5, <1>9 DEF IInv, Numbered
      <4>3. include[k].header = h
        BY <4>2, <1>2, <1>5, <1>6, ProjectFacts DEF InTree
      <4> QED BY <2>1, <4>3
    <3> QED BY <3>1, <3>2
  <2>3. \A j, k \in 1..n : j # k =>
          include[j].header # include[k].header /\ Name(include[j]) # Name(include[k])
    BY <1>9 DEF IInv, Distinct
  <2> SUFFICES ASSUME NEW j \in 1..n + 1, NEW k \in 1..n + 1, j # k
               PROVE  /\ include'[j].header # include'[k].header
                      /\ Name(include'[j]) # Name(include'[k])
    BY <1>9 DEF Distinct, Name
  <2>4. CASE j = n + 1
    <3>1. k \in 1..n
      BY <2>4, <1>9
    <3> QED BY <2>4, <3>1, <2>1, <2>2, <1>7, <1>9
  <2>5. CASE k = n + 1
    <3>1. j \in 1..n
      BY <2>5, <1>9
    <3> QED BY <2>5, <3>1, <2>1, <2>2, <1>7, <1>9
  <2>6. CASE j \in 1..n /\ k \in 1..n
    BY <2>3, <2>6, <1>9
  <2> QED BY <2>4, <2>5, <2>6, <1>9
<1>15. Known'
  <2>1. absPath = {include[k].header : k \in 1..n}
    BY <1>9 DEF IInv, Known, Listed
  <2>2. \A g \in absPath' : \E k \in 1..n + 1 : include'[k].header = g
    BY <2>1, <1>1, <1>7, <1>9
  <2>3. \A k \in 1..n + 1 : include'[k].header \in absPath'
    BY <1>1, <1>7, <1>9, <1>10
  <2> QED BY <2>2, <2>3, <1>9 DEF Known, Listed
<1>16. absPath' \cup Elems(Tail(objFiles)) = Offered(i)
  BY <1>1, <1>3 DEF IInv, Complete
<1>17. Complete'
  BY SameOffer, <1>1, <1>16 DEF Complete, Elems
<1> QED BY <1>11, <1>12, <1>13, <1>14, <1>15, <1>17 DEF IInv

-----------------------------------------------------------------------------
LEMMA EndFlagKeeps == IInv /\ EndFlag => IInv'
<1> SUFFICES ASSUME IInv, EndFlag PROVE IInv'
  OBVIOUS
<1>1. project' = project /\ include' = include /\ absPath' = absPath /\ relPath' = relPath
      /\ objFiles' = objFiles /\ objFiles = <<>> /\ pc = "add" /\ pc' = "flag" /\ i' = i + 1
      /\ i \in Nat \ {0}
  BY DEF EndFlag, IInv, TypeOK
<1>2. TypeOK'
  BY <1>1 DEF IInv, TypeOK
<1>3. Numbered'
  <2>1. \A k \in DOMAIN include : include[k].index \in Nat \cup {NoIndex}
    BY EntryTypes DEF IInv, TypeOK
  <2>2. \A k \in DOMAIN include : include[k].index # NoIndex => include[k].index < i + 1
    BY <1>1, <2>1 DEF IInv, Numbered
  <2> SUFFICES ASSUME NEW k \in DOMAIN include, include[k].index # NoIndex
               PROVE  /\ include[k].index <= i + 1 /\ include[k].index < i + 1
                      /\ include[k].index \in DOMAIN project.flags
                      /\ InTree(project.flags[include[k].index], include[k].header, include[k].rel)
    BY <1>1 DEF Numbered, InTree
  <2> QED BY <1>1, <2>1, <2>2 DEF IInv, Numbered
<1>4. Elems(objFiles) = {}
  BY <1>1 DEF Elems
<1>5. absPath = Offered(i)
  BY <1>1, <1>4 DEF IInv, Complete
<1>6. Complete'
  BY SameOffer, <1>1, <1>5 DEF Complete
<1> QED BY <1>1, <1>2, <1>3, <1>6 DEF IInv, AtFlag, Distinct, Known, Listed, Name

LEMMA DoneKeeps == IInv /\ Done => IInv'
<1> SUFFICES ASSUME IInv, Done PROVE IInv'
  OBVIOUS
<1>1. project \in Project /\ project' = project /\ include' = include /\ absPath' = absPath
      /\ relPath' = relPath /\ objFiles' = objFiles /\ pc = "flag" /\ pc' = "done" /\ i' = i
      /\ i \in Nat /\ i > Len(project.flags)
  BY DEF Done, IInv, TypeOK
<1>2. project.flags \in Seq(DOMAIN project.below \cup {"other"})
  BY <1>1, ProjectFacts
<1>3. \A k \in DOMAIN project.flags : k <= i - 1 /\ k <= Len(project.flags)
  BY <1>1, <1>2
<1>4. absPath = Offered(Len(project.flags))
  BY <1>1, <1>3 DEF IInv, Complete, Offered
<1>5. Complete'
  BY SameOffer, <1>1, <1>4 DEF Complete
<1> QED BY <1>1, <1>5 DEF IInv, TypeOK, AtFlag, Numbered, InTree, Distinct, Known, Listed, Name

LEMMA PanicKeeps == IInv /\ ParsePanics => IInv'
<1> SUFFICES ASSUME IInv, ParsePanics PROVE IInv'
  OBVIOUS
<1>1. UNCHANGED <<project, i, objFiles, absPath, relPath, include>> /\ pc' = "panic"
  BY DEF ParsePanics
<1> QED BY <1>1 DEF IInv, TypeOK, AtFlag, Numbered, InTree, Distinct, Known, Complete, Listed, Name

LEMMA StepHolds == IInv /\ [Next]_vars => IInv'
<1> SUFFICES ASSUME IInv, [Next]_vars PROVE IInv'
  OBVIOUS
<1>1. CASE OtherFlag
  BY <1>1, OtherFlagKeeps
<1>2. CASE ParseFlag
  BY <1>2, ParseFlagKeeps
<1>3. CASE ParsePanics
  BY <1>3, PanicKeeps
<1>4. CASE Add
  BY <1>4, AgainKeeps, NewKeeps
<1>5. CASE EndFlag
  BY <1>5, EndFlagKeeps
<1>6. CASE Done
  BY <1>6, DoneKeeps
<1>7. CASE UNCHANGED vars
  <2>1. UNCHANGED <<project, pc, i, objFiles, absPath, relPath, include>>
    BY <1>7 DEF vars
  <2>2. TypeOK'
    BY <2>1 DEF IInv, TypeOK
  <2>3. AtFlag'
    BY <2>1, SameOffer DEF IInv, AtFlag, Flag, Elems
  <2>4. Numbered'
    BY <2>1 DEF IInv, Numbered, InTree
  <2>5. Complete'
    BY <2>1, SameOffer DEF IInv, Complete, Elems
  <2> QED BY <2>1, <2>2, <2>3, <2>4, <2>5 DEF IInv, Distinct, Known, Listed, Name
<1> QED BY <1>1, <1>2, <1>3, <1>4, <1>5, <1>6, <1>7 DEF Next, Terminated

LEMMA Implies == IInv => EachOnce
<1> SUFFICES ASSUME IInv PROVE EachOnce
  OBVIOUS
<1>1. project.flags \in Seq(DOMAIN project.below \cup {"other"})
  BY ProjectFacts DEF IInv, TypeOK
<1>2. \A k \in DOMAIN project.flags : k <= Len(project.flags)
  BY <1>1
<1>3. Offered(Len(project.flags)) = UNION {ObjFile(d) : d \in Dirs}
  BY <1>2 DEF Offered, Dirs
<1>4. pc = "done" => Listed = UNION {ObjFile(d) : d \in Dirs}
  BY <1>3 DEF IInv, Known, Complete
<1> QED BY <1>4 DEF IInv, Distinct, EachOnce

(* Whatever directories pkg-config reports, the list llcppcfg writes has   *)
(* every header they offer once, and no two entries that read the same.    *)
THEOREM ListedOnce == Spec => []EachOnce
<1>1. Init => IInv
  BY InitHolds
<1>2. IInv /\ [Next]_vars => IInv'
  BY StepHolds
<1>3. IInv => EachOnce
  BY Implies
<1> QED BY <1>1, <1>2, <1>3, PTL DEF Spec
-----------------------------------------------------------------------------
(* Where an entry comes from, and what is found under its path.  Alone(d): *)
(* no header of directory d is also below another.                         *)
Alone(d) == \A e \in Dirs : ~Inside(d, e)
AtDir(n) == n \in DOMAIN project.flags /\ project.flags[n] # "other"
IsFirst(n, h, rel) ==
  /\ AtDir(n) /\ InTree(project.flags[n], h, rel)
  /\ \A m \in 1..n - 1 : AtDir(m) => \A g \in Header : ~InTree(project.flags[m], g, rel)

Origin == \A k \in DOMAIN include :
  \E n \in 1..i : /\ AtDir(n) /\ (pc = "flag" => n < i)
                  /\ InTree(project.flags[n], include[k].header, include[k].rel)
Behind == pc = "add" => Offered(i - 1) \subseteq absPath
FirstFound ==
  (\A d \in Dirs : Alone(d)) /\ Header = project.valid =>
    \A k \in DOMAIN include :
      include[k].index = NoIndex => \E n \in 1..i : IsFirst(n, include[k].header, include[k].rel)
PathInv == Origin /\ Behind /\ FirstFound

(* The order of the list: what comes later, or is still to be added, has   *)
(* no more dependencies or is first offered by a later flag, and is never  *)
(* first offered by an earlier one.                                        *)
Weight(h) == Cardinality(project.deps[h])
InPlace(g, h) == Weight(g) >= Weight(h) \/ OfferedBefore(g, h)
Queued ==
  pc = "add" => \A a, b \in DOMAIN objFiles : a < b => Weight(objFiles[a]) >= Weight(objFiles[b])
Ahead ==
  pc = "add" =>
    \A k \in DOMAIN include, a \in DOMAIN objFiles :
      objFiles[a] \notin absPath => InPlace(include[k].header, objFiles[a])
InOrder ==
  \A j, k \in DOMAIN include : j < k => InPlace(include[j].header, include[k].header)
ByFlag ==
  \A j, k \in DOMAIN include : j < k => ~OfferedBefore(include[k].header, include[j].header)
SortInv == Queued /\ Ahead /\ InOrder /\ ByFlag

LEMMA SameTree ==
  ASSUME project' = project
  PROVE  /\ Dirs' = Dirs
         /\ \A d : Alone(d)' <=> Alone(d)
         /\ \A n : AtDir(n)' <=> AtDir(n)
         /\ \A d, h, rel : InTree(d, h, rel)' <=> InTree(d, h, rel)
         /\ \A n, h, rel : IsFirst(n, h, rel)' <=> IsFirst(n, h, rel)
         /\ \A h : Weight(h)' = Weight(h)
         /\ \A g, h : OfferedBefore(g, h)' <=> OfferedBefore(g, h)
         /\ \A g, h : InPlace(g, h)' <=> InPlace(g, h)
<1>1. Dirs' = Dirs
  BY DEF Dirs
<1>2. \A d : Alone(d)' <=> Alone(d)
  BY <1>1 DEF Alone, Inside
<1>3. \A n : AtDir(n)' <=> AtDir(n)
  BY DEF AtDir
<1>4. \A d, h, rel : InTree(d, h, rel)' <=> InTree(d, h, rel)
  BY DEF InTree
<1>5. \A n, h, rel : IsFirst(n, h, rel)' <=> IsFirst(n, h, rel)
  BY <1>3, <1>4 DEF IsFirst
<1>6. \A h : Weight(h)' = Weight(h)
  BY DEF Weight
<1>7. \A n, h : Offers(n, h)' <=> Offers(n, h)
  BY DEF Offers, ObjFile, Tried, Excluded
<1>8. \A g, h : OfferedBefore(g, h)' <=> OfferedBefore(g, h)
  BY <1>7 DEF OfferedBefore
<1>9. \A g, h : InPlace(g, h)' <=> InPlace(g, h)
  BY <1>6, <1>8 DEF InPlace
<1> QED BY <1>1, <1>2, <1>3, <1>4, <1>5, <1>6, <1>8, <1>9

(* More of what the assumption says of the project at hand.                *)
LEMMA TreeFacts ==
  ASSUME project \in Project
  PROVE  /\ \A n : AtDir(n) => /\ n \in Nat \ {0} /\ n <= Len(project.flags)
                               /\ project.flags[n] \in DOMAIN project.below
                               /\ project.flags[n] \in Dirs
         /\ \A d \in Dirs : d \in DOMAIN project.below
         /\ \A d \in DOMAIN project.below : project.below[d] \subseteq Header
         /\ \A d, e \in DOMAIN project.below : \A h, g, rel :
              InTree(d, h, rel) /\ InTree(e, g, rel) /\ h \in ObjFile(d) /\ Header = project.valid
                => g \in ObjFile(e)
         /\ \A h \in Header : Weight(h) \in Nat
         /\ \A h, g \in Header : g \in project.deps[h] /\ h \notin project.deps[g] => Weight(h) > Weight(g)
<1>1. /\ project.flags \in Seq(DOMAIN project.below \cup {"other"})
      /\ \A k \in DOMAIN project.flags :
           project.flags[k] # "other" => project.flags[k] \in DOMAIN project.below
  BY ProjectFacts
<1>2. \A n : AtDir(n) => /\ n \in Nat \ {0} /\ n <= Len(project.flags)
                         /\ project.flags[n] \in DOMAIN project.below
                         /\ project.flags[n] \in Dirs
  BY <1>1 DEF AtDir, Dirs
<1>3. \A d \in Dirs : d \in DOMAIN project.below
  BY <1>1 DEF Dirs
<1>4. \A d \in DOMAIN project.below : project.below[d] \subseteq Header
  BY IncludeAssumption
<1>5. \A d, e \in DOMAIN project.below : \A h \in project.below[d], g \in project.below[e] :
        project.rel[d][h] = project.rel[e][g] =>
          /\ project.top[d][h] = project.top[e][g]
          /\ project.name[h] = "other" <=> project.name[g] = "other"
  BY IncludeAssumption
<1>6. \A d, e \in DOMAIN project.below : \A h, g, rel :
        InTree(d, h, rel) /\ InTree(e, g, rel) /\ h \in ObjFile(d) /\ Header = project.valid
          => g \in ObjFile(e)
  BY <1>4, <1>5 DEF InTree, ObjFile, Tried, Excluded
<1>7. \A h \in Header : /\ IsFiniteSet(project.deps[h]) /\ h \notin project.deps[h]
                        /\ \A g \in project.deps[h] : project.deps[g] \subseteq project.deps[h] \cup {h}
  BY IncludeAssumption
<1>8. \A h \in Header : Weight(h) \in Nat
  BY <1>7, FS_CardinalityType DEF Weight
<1>9. ASSUME NEW h \in Header, NEW g \in Header, g \in project.deps[h], h \notin project.deps[g]
      PROVE  Weight(h) > Weight(g)
  <2>1. project.deps[g] \in SUBSET project.deps[h] /\ project.deps[g] # project.deps[h]
    BY <1>7, <1>9
  <2>2. IsFiniteSet(project.deps[h])
    BY <1>7
  <2>3. /\ Cardinality(project.deps[g]) <= Cardinality(project.deps[h])
        /\ Cardinality(project.deps[g]) # Cardinality(project.deps[h])
    BY <2>1, <2>2, FS_Subset
  <2> QED BY <2>3, <1>8 DEF Weight
<1> QED BY <1>2, <1>3, <1>4, <1>6, <1>8, <1>9

LEMMA InitPaths == Init => PathInv /\ SortInv
<1> SUFFICES ASSUME Init PROVE PathInv /\ SortInv
  OBVIOUS
<1>1. include = <<>> /\ pc = "flag" /\ DOMAIN include = {}
  BY DEF Init
<1> QED BY <1>1 DEF PathInv, Origin, Behind, FirstFound, SortInv, Queued, Ahead, InOrder, ByFlag

(* A step that leaves the list alone and adds nothing next.                *)
LEMMA QuietKeeps ==
  ASSUME IInv, PathInv, SortInv, project' = project, include' = include, pc' # "add",
         (i' = i /\ pc' # "flag") \/ i' = i + 1
  PROVE  PathInv' /\ SortInv'
<1>1. i \in Nat
  BY DEF IInv, TypeOK
<1>2. \A n \in 1..i : n \in 1..i' /\ (pc' = "flag" => n < i')
  BY <1>1
<1>3. Origin'
  <2> SUFFICES ASSUME NEW k \in DOMAIN include
               PROVE  \E n \in 1..i' : /\ AtDir(n) /\ (pc' = "flag" => n < i')
                                       /\ InTree(project.flags[n], include[k].header, include[k].rel)
    BY SameTree DEF Origin
  <2>1. PICK n \in 1..i : AtDir(n) /\ InTree(project.flags[n], include[k].header, include[k].rel)
    BY DEF PathInv, Origin
  <2> QED BY <2>1, <1>2
<1>4. FirstFound'
  <2>1. ASSUME \A d \in Dirs : Alone(d), Header = project.valid, NEW k \in DOMAIN include,
               include[k].index = NoIndex
        PROVE  \E n \in 1..i' : IsFirst(n, include[k].header, include[k].rel)
    BY <2>1, <1>2 DEF PathInv, FirstFound
  <2> QED BY <2>1, SameTree DEF FirstFound
<1>5. InOrder' /\ ByFlag'
  BY SameTree DEF SortInv, InOrder, ByFlag
<1> QED BY <1>3, <1>4, <1>5 DEF PathInv, Behind, SortInv, Queued, Ahead

-----------------------------------------------------------------------------
(* Neighbours in order are all in order: the first place where it would    *)
(* fail has a neighbour.                                                   *)
LEMMA FirstOf ==
  ASSUME NEW T \in SUBSET Nat, T # {}
  PROVE  \E x \in T : \A y \in T : x <= y
<1>1. PICK x \in T : \A y \in T : ~(<<y, x>> \in OpToRel(<, Nat))
  BY WFMin, NatLessThanWellFounded
<1>2. \A y \in T : ~(y < x)
  BY <1>1 DEF OpToRel
<1> QED BY <1>2

LEMMA SortedPairs ==
  ASSUME NEW n \in Nat, NEW w, \A k \in 1..n : w[k] \in Nat, \A k \in 1..n - 1 : w[k] >= w[k + 1],
         NEW a \in 1..n
  PROVE  \A b \in 1..n : a < b => w[a] >= w[b]
<1> DEFINE Bad == {b \in 1..n : a < b /\ ~(w[a] >= w[b])}
<1> SUFFICES ASSUME Bad # {} PROVE FALSE
  OBVIOUS
<1>1. Bad \in SUBSET Nat
  OBVIOUS
<1>2. PICK b \in Bad : \A c \in Bad : b <= c
  BY <1>1, FirstOf
<1>3. b \in 1..n /\ a < b /\ b - 1 \in 1..n - 1 /\ b - 1 + 1 = b
  BY <1>2
<1>4. b - 1 \notin Bad
  BY <1>2, <1>3
<1>5. w[b - 1] >= w[b] /\ w[b - 1] \in Nat /\ w[b] \in Nat /\ w[a] \in Nat
  BY <1>3
<1>6. w[a] >= w[b - 1]
  BY <1>3, <1>4, <1>5
<1> QED BY <1>2, <1>5, <1>6

(* What is listed when a flag is parsed, earlier flags have offered, and   *)
(* what the flag is to add, none has.                                      *)
LEMMA ParseFlagPaths ==
  ASSUME IInv, PathInv, SortInv, ParseFlag
  PROVE  PathInv' /\ SortInv'
<1>1. project \in Project /\ project' = project /\ include' = include /\ absPath' = absPath
      /\ pc = "flag" /\ pc' = "add" /\ i' = i /\ i \in Nat \ {0}
      /\ i <= Len(project.flags) /\ Flag # "other"
  BY DEF ParseFlag, IInv, TypeOK
<1>2. i \in DOMAIN project.flags /\ Flag = project.flags[i] /\ Flag \in DOMAIN project.below /\ AtDir(i)
      /\ Flag' = Flag
  BY <1>1, ProjectFacts DEF Flag, AtDir
<1>3. IsFiniteSet(ObjFile(Flag)) /\ ObjFile(Flag) \subseteq Header
      /\ ObjFile(Flag) \subseteq project.below[Flag]
  BY <1>1, <1>2, ProjectFacts
<1>4. PICK s \in Orders(ObjFile(Flag)) : Sorted(s) /\ objFiles' = s
  BY DEF ParseFlag
<1>5. s \in Seq(ObjFile(Flag)) /\ Elems(s) = ObjFile(Flag)
  BY <1>3, OrdersAre
<1>6. absPath = Offered(i - 1)
  BY <1>1 DEF IInv, Complete
<1>7. Origin'
  <2> SUFFICES ASSUME NEW k \in DOMAIN include
               PROVE  \E n \in 1..i : AtDir(n) /\ InTree(project.flags[n], include[k].header, include[k].rel)
    BY <1>1, SameTree DEF Origin
  <2> QED BY DEF PathInv, Origin
<1>8. Behind'
  BY <1>1, <1>6, SameOffer DEF Behind
<1>9. FirstFound'
  <2>1. ASSUME \A d \in Dirs : Alone(d), Header = project.valid, NEW k \in DOMAIN include,
               include[k].index = NoIndex
        PROVE  \E n \in 1..i' : IsFirst(n, include[k].header, include[k].rel)
    BY <2>1, <1>1 DEF PathInv, FirstFound
  <2> QED BY <2>1, <1>1, SameTree DEF FirstFound
<1>10. Queued'
  <2> DEFINE n == Len(s)
             w == [k \in 1..n |-> Weight(s[k])]
  <2>1. n \in Nat /\ DOMAIN s = 1..n /\ \A k \in 1..n : s[k] \in Header
    BY <1>3, <1>5
  <2>2. \A k \in 1..n : w[k] \in Nat
    BY <2>1, <1>1, TreeFacts
  <2>3. \A k \in 1..n - 1 : w[k] >= w[k + 1]
    <3>1. \A k \in 1..n - 1 : Weight(s[k]) >= Weight(s[k + 1])
      BY <1>4 DEF Sorted, Weight
    <3>2. \A k \in 1..n - 1 : k \in 1..n /\ k + 1 \in 1..n
      BY <2>1
    <3> QED BY <3>1, <3>2
  <2> HIDE DEF w, n
  <2>4. \A a, b \in 1..n : a < b => w[a] >= w[b]
    BY <2>1, <2>2, <2>3, SortedPairs
  <2>5. \A a, b \in 1..n : a < b => Weight(s[a]) >= Weight(s[b])
    BY <2>4 DEF w
  <2> QED BY <2>1, <2>5, <1>1, <1>4, SameTree DEF Queued
<1>11. Ahead'
  <2> SUFFICES ASSUME NEW k \in DOMAIN include, NEW a \in DOMAIN s, s[a] \notin absPath
               PROVE  OfferedBefore(include[k].header, s[a])
    BY <1>1, <1>4, SameTree DEF Ahead, InPlace
  <2>1. include[k].header \in Offered(i - 1)
    BY <1>6 DEF IInv, Known, Listed
  <2>2. PICK n \in DOMAIN project.flags : n <= i - 1 /\ Offers(n, include[k].header)
    BY <2>1 DEF Offered, Offers
  <2>3. ASSUME NEW m \in 1..n, Offers(m, s[a])
        PROVE  FALSE
    <3>1. m \in DOMAIN project.flags /\ m <= i - 1
      BY <1>1, <2>2, ProjectFacts
    <3> QED BY <2>3, <3>1, <1>6 DEF Offered, Offers
  <2> QED BY <2>2, <2>3 DEF OfferedBefore
<1>12. InOrder' /\ ByFlag'
  BY <1>1, SameTree DEF SortInv, InOrder, ByFlag
<1> QED BY <1>7, <1>8, <1>9, <1>10, <1>11, <1>12 DEF PathInv, SortInv

(* What is left after the head keeps its order.                            *)
LEMMA TailAt ==
  ASSUME NEW S, NEW s \in Seq(S), s # <<>>
  PROVE  /\ 1 \in DOMAIN s /\ Head(s) = s[1]
         /\ \A a \in DOMAIN Tail(s) : a + 1 \in DOMAIN s /\ Tail(s)[a] = s[a + 1] /\ a \in Nat \ {0}
<1>1. Len(s) \in Nat \ {0} /\ Head(s) = s[1] /\ Tail(s) \in Seq(S) /\ Len(Tail(s)) = Len(s) - 1
  OBVIOUS
<1>2. \A k \in 1..Len(s) - 1 : Tail(s)[k] = s[k + 1]
  OBVIOUS
<1>3. DOMAIN s = 1..Len(s) /\ DOMAIN Tail(s) = 1..Len(s) - 1
  BY <1>1
<1> QED BY <1>1, <1>2, <1>3

LEMMA QueueNext ==
  ASSUME IInv, SortInv, Add
  PROVE  Queued'
<1>1. project' = project /\ pc = "add" /\ objFiles' = Tail(objFiles) /\ objFiles # <<>>
      /\ objFiles \in Seq(Header)
  BY DEF Add, IInv, TypeOK
<1>2. \A a \in DOMAIN Tail(objFiles) :
        a + 1 \in DOMAIN objFiles /\ Tail(objFiles)[a] = objFiles[a + 1] /\ a \in Nat \ {0}
  BY <1>1, TailAt
<1>3. \A a, b \in DOMAIN objFiles : a < b => Weight(objFiles[a]) >= Weight(objFiles[b])
  BY <1>1 DEF SortInv, Queued
<1>4. \A a, b \in DOMAIN Tail(objFiles) : a < b => Weight(Tail(objFiles)[a]) >= Weight(Tail(objFiles)[b])
  BY <1>2, <1>3
<1> QED BY <1>1, <1>4, SameTree DEF Queued

(* A header that is listed already.                                        *)
LEMMA AgainPaths ==
  ASSUME IInv, PathInv, SortInv, Add, Head(objFiles) \in absPath
  PROVE  PathInv' /\ SortInv'
<1>1. project' = project /\ include' = include /\ absPath' = absPath /\ pc = "add" /\ pc' = pc /\ i' = i
      /\ objFiles' = Tail(objFiles) /\ objFiles # <<>> /\ objFiles \in Seq(Header) /\ Flag' = Flag
  BY DEF Add, IInv, TypeOK, Flag
<1>2. Origin'
  BY <1>1, SameTree DEF PathInv, Origin
<1>3. Behind'
  BY <1>1, SameOffer DEF PathInv, Behind
<1>4. FirstFound'
  BY <1>1, SameTree DEF PathInv, FirstFound
<1>5. Ahead'
  <2>1. \A a \in DOMAIN Tail(objFiles) : a + 1 \in DOMAIN objFiles /\ Tail(objFiles)[a] = objFiles[a + 1]
    BY <1>1, TailAt
  <2> QED BY <2>1, <1>1, SameTree DEF SortInv, Ahead
<1>6. InOrder' /\ ByFlag'
  BY <1>1, SameTree DEF SortInv, InOrder, ByFlag
<1> QED BY <1>2, <1>3, <1>4, <1>5, <1>6, QueueNext DEF PathInv, SortInv

(* A new header.  If an earlier directory had a file under the same path,  *)
(* that file would be listed under it, and the entry have a number.        *)
LEMMA NewPath ==
  ASSUME IInv, PathInv, Add, Head(objFiles) \notin absPath,
         \A d \in Dirs : Alone(d), Header = project.valid, Rel(Head(objFiles)) \notin relPath
  PROVE  IsFirst(i, Head(objFiles), Rel(Head(objFiles)))
<1> DEFINE h == Head(objFiles)
<1>1. project \in Project /\ pc = "add" /\ objFiles # <<>> /\ objFiles \in Seq(Header) /\ i \in Nat \ {0}
  BY DEF Add, IInv, TypeOK
<1>2. i <= Len(project.flags) /\ Flag # "other" /\ h \in ObjFile(Flag)
  BY <1>1, HeadAndTail DEF IInv, AtFlag
<1>3. i \in DOMAIN project.flags /\ Flag = project.flags[i] /\ Flag \in DOMAIN project.below /\ AtDir(i)
  BY <1>1, <1>2, ProjectFacts DEF Flag, AtDir
<1>4. InTree(Flag, h, Rel(h))
  BY <1>1, <1>2, <1>3, ProjectFacts DEF InTree, Rel
<1>5. ASSUME NEW m \in 1..i - 1, AtDir(m), NEW g \in Header, InTree(project.flags[m], g, Rel(h))
      PROVE  FALSE
  <2>1. project.flags[m] \in DOMAIN project.below /\ project.flags[m] \in Dirs /\ Flag \in Dirs
    BY <1>1, <1>3, <1>5, TreeFacts
  <2>2. g \in ObjFile(project.flags[m])
    BY <2>1, <1>1, <1>2, <1>3, <1>4, <1>5, TreeFacts
  <2>3. g \in Offered(i - 1)
    <3>1. m \in DOMAIN project.flags /\ m <= i - 1 /\ project.flags[m] # "other"
      BY <1>1, <1>5 DEF AtDir
    <3> QED BY <2>2, <3>1 DEF Offered
  <2>4. g \in absPath
    BY <2>3, <1>1 DEF PathInv, Behind
  <2>5. PICK k \in DOMAIN include : include[k].header = g
    BY <2>4 DEF IInv, Known, Listed
  <2>6. PICK n \in 1..i : AtDir(n) /\ InTree(project.flags[n], g, include[k].rel)
    BY <2>5 DEF PathInv, Origin
  <2>7. project.flags[n] = project.flags[m]
    <3>1. project.flags[n] \in Dirs
      BY <2>6, <1>1, TreeFacts
    <3> QED BY <2>1, <2>6, <3>1, <1>5 DEF Alone, Inside, InTree
  <2>8. include[k].rel = Rel(h)
    BY <2>6, <2>7, <1>5 DEF InTree
  <2>9. include[k].rel \in relPath
    BY EntryTypes DEF IInv, TypeOK
  <2> QED BY <2>8, <2>9
<1> QED BY <1>3, <1>4, <1>5 DEF IsFirst

LEMMA NewPaths ==
  ASSUME IInv, PathInv, SortInv, Add, Head(objFiles) \notin absPath
  PROVE  PathInv' /\ SortInv'
<1> DEFINE h == Head(objFiles)
           n == Len(include)
<1>1. project \in Project /\ project' = project /\ pc = "add" /\ pc' = pc /\ i' = i
      /\ objFiles' = Tail(objFiles) /\ objFiles # <<>> /\ objFiles \in Seq(Header) /\ i \in Nat \ {0}
      /\ absPath' = absPath \cup {h} /\ include' = Append(include, Entry(h)) /\ Flag' = Flag
  BY DEF Add, IInv, TypeOK, Flag
<1>2. i <= Len(project.flags) /\ Flag # "other" /\ h \in ObjFile(Flag)
  BY <1>1, HeadAndTail DEF IInv, AtFlag
<1>3. i \in DOMAIN project.flags /\ Flag = project.flags[i] /\ Flag \in DOMAIN project.below
      /\ AtDir(i) /\ Flag \in Dirs
  BY <1>1, <1>2, ProjectFacts DEF Flag, AtDir, Dirs
<1>4. InTree(Flag, h, Rel(h))
  BY <1>1, <1>2, <1>3, ProjectFacts DEF InTree, Rel
<1>5. /\ Entry(h).rel = Rel(h) /\ Entry(h).header = h
      /\ Entry(h).index = NoIndex => Rel(h) \notin relPath
  <2>1. i # NoIndex
    BY <1>1, IncludeAssumption
  <2> QED BY <2>1 DEF Entry
<1>6. /\ n \in Nat /\ DOMAIN include = 1..n /\ DOMAIN include' = 1..n + 1
      /\ include'[n + 1] = Entry(h)
      /\ \A k \in 1..n : include'[k] = include[k]
  <2>1. include \in Seq([index : Nat \cup {NoIndex}, rel : relPath, header : absPath])
    BY DEF IInv, TypeOK
  <2> HIDE DEF h
  <2> QED BY <2>1, <1>1
<1>7. Origin'
  <2> SUFFICES ASSUME NEW k \in 1..n + 1
               PROVE  \E m \in 1..i : /\ AtDir(m)
                                      /\ InTree(project.flags[m], include'[k].header, include'[k].rel)
    BY <1>1, <1>6, SameTree DEF Origin
  <2>1. CASE k = n + 1
    BY <2>1, <1>1, <1>3, <1>4, <1>5, <1>6
  <2>2. CASE k \in 1..n
    BY <2>2, <1>6 DEF PathInv, Origin
  <2> QED BY <2>1, <2>2, <1>6
<1>8. Behind'
  BY <1>1, SameOffer DEF PathInv, Behind
<1>9. FirstFound'
  <2> SUFFICES ASSUME \A d \in Dirs : Alone(d), Header = project.valid, NEW k \in 1..n + 1,
                      include'[k].index = NoIndex
               PROVE  \E m \in 1..i : IsFirst(m, include'[k].header, include'[k].rel)
    BY <1>1, <1>6, SameTree DEF FirstFound
  <2>1. CASE k = n + 1
    <3>1. IsFirst(i, h, Rel(h))
      BY <2>1, <1>5, <1>6, NewPath
    <3> QED BY <2>1, <3>1, <1>1, <1>5, <1>6
  <2>2. CASE k \in 1..n
    BY <2>2, <1>6 DEF PathInv, FirstFound
  <2> QED BY <2>1, <2>2, <1>6
<1>10. 1 \in DOMAIN objFiles /\ h = objFiles[1]
  BY <1>1, TailAt
<1>11. \A a \in DOMAIN Tail(objFiles) :
         a + 1 \in DOMAIN objFiles /\ Tail(objFiles)[a] = objFiles[a + 1] /\ a \in Nat \ {0}
  BY <1>1, TailAt
<1>12. Ahead'
  <2> SUFFICES ASSUME NEW k \in 1..n + 1, NEW a \in DOMAIN Tail(objFiles),
                      Tail(objFiles)[a] \notin absPath'
               PROVE  InPlace(include'[k].header, Tail(objFiles)[a])
    BY <1>1, <1>6, SameTree DEF Ahead
  <2>1. CASE k = n + 1
    <3>1. 1 < a + 1
      BY <1>11
    <3>2. Weight(objFiles[1]) >= Weight(objFiles[a + 1])
      BY <3>1, <1>1, <1>10, <1>11 DEF SortInv, Queued
    <3> QED BY <2>1, <3>2, <1>5, <1>6, <1>10, <1>11 DEF InPlace
  <2>2. CASE k \in 1..n
    BY <2>2, <1>1, <1>6, <1>11 DEF SortInv, Ahead
  <2> QED BY <2>1, <2>2, <1>6
<1>13. InOrder'
  <2> SUFFICES ASSUME NEW j \in 1..n + 1, NEW k \in 1..n + 1, j < k
               PROVE  InPlace(include'[j].header, include'[k].header)
    BY <1>1, <1>6, SameTree DEF InOrder
  <2>1. CASE k = n + 1
    <3>1. j \in 1..n /\ include'[j] = include[j]
      BY <2>1, <1>6
    <3>2. InPlace(include[j].header, objFiles[1])
      BY <3>1, <1>1, <1>6, <1>10 DEF SortInv, Ahead
    <3> QED BY <2>1, <3>1, <3>2, <1>5, <1>6, <1>10
  <2>2. CASE k \in 1..n
    <3>1. j \in 1..n
      BY <2>2, <1>6
    <3> QED BY <2>2, <3>1, <1>6 DEF SortInv, InOrder
  <2> QED BY <2>1, <2>2, <1>6
<1>14. ByFlag'
  <2> SUFFICES ASSUME NEW j \in 1..n + 1, NEW k \in 1..n + 1, j < k,
                      OfferedBefore(include'[k].header, include'[j].header)
               PROVE  FALSE
    BY <1>1, <1>6, SameTree DEF ByFlag
  <2>1. j \in 1..n /\ include'[j] = include[j]
    BY <1>6
  <2>2. CASE k = n + 1
    <3>1. PICK p \in DOMAIN project.flags :
            Offers(p, h) /\ \A m \in 1..p : ~Offers(m, include[j].header)
      BY <2>1, <2>2, <1>5, <1>6 DEF OfferedBefore
    <3>2. include[j].header \in Offered(i)
      BY <2>1, <1>1, <1>6 DEF IInv, Known, Listed, Complete
    <3>3. PICK m \in DOMAIN project.flags : m <= i /\ Offers(m, include[j].header)
      BY <3>2 DEF Offered, Offers
    <3>4. h \notin Offered(i - 1)
      BY <1>1 DEF PathInv, Behind
    <3>5. ~(p <= i - 1)
      BY <3>1, <3>4 DEF Offered, Offers
    <3>6. p \in Nat \ {0} /\ m \in Nat \ {0}
      BY <1>1, ProjectFacts
    <3>7. m \in 1..p
      BY <3>3, <3>5, <3>6, <1>1
    <3> QED BY <3>1, <3>3, <3>7
  <2>3. CASE k \in 1..n
    BY <2>1, <2>3, <1>6 DEF SortInv, ByFlag
  <2> QED BY <2>2, <2>3, <1>6
<1> QED BY <1>7, <1>8, <1>9, <1>12, <1>13, <1>14, QueueNext DEF PathInv, SortInv

LEMMA StepPaths ==
  ASSUME IInv, PathInv, SortInv, [Next]_vars
  PROVE  PathInv' /\ SortInv'
<1>1. CASE OtherFlag \/ ParsePanics \/ EndFlag \/ Done
  <2>1. /\ project' = project /\ include' = include /\ pc' # "add"
        /\ (i' = i /\ pc' # "flag") \/ i' = i + 1
    BY <1>1 DEF OtherFlag, ParsePanics, EndFlag, Done
  <2> QED BY <2>1, QuietKeeps
<1>2. CASE ParseFlag
  BY <1>2, ParseFlagPaths
<1>3. CASE Add
  BY <1>3, AgainPaths, NewPaths
<1>4. CASE UNCHANGED vars
  <2>1. UNCHANGED <<project, pc, i, objFiles, absPath, relPath, include>>
    BY <1>4 DEF vars
  <2>2. Flag' = Flag
    BY <2>1 DEF Flag
  <2>3. PathInv'
    BY <2>1, SameTree, SameOffer DEF PathInv, Origin, Behind, FirstFound
  <2>4. SortInv'
    BY <2>1, <2>2, SameTree DEF SortInv, Queued, Ahead, InOrder, ByFlag
  <2> QED BY <2>3, <2>4
<1> QED BY <1>1, <1>2, <1>3, <1>4 DEF Next, Terminated

(* The entry of a header that its directory is the first to have leads     *)
(* back to it: clang looks through the directories in the same order.      *)
LEMMA FirstIsFound ==
  ASSUME project \in Project, NEW n, NEW h \in Header, NEW rel, IsFirst(n, h, rel)
  PROVE  FoundBy(rel) = {h}
<1> DEFINE At(k) == {g \in project.below[project.flags[k]] : project.rel[project.flags[k]][g] = rel}
           ks == {k \in DOMAIN project.flags : project.flags[k] # "other" /\ At(k) # {}}
<1>1. \A k : AtDir(k) => /\ k \in Nat \ {0} /\ project.flags[k] \in DOMAIN project.below
                         /\ project.below[project.flags[k]] \subseteq Header
  BY TreeFacts
<1>2. At(n) = {h}
  <2>1. \A g \in At(n) : g = h
    BY <1>1, ProjectFacts DEF IsFirst, InTree
  <2> QED BY <2>1 DEF IsFirst, InTree
<1>3. \A k \in ks : AtDir(k) /\ k >= n
  <2> SUFFICES ASSUME NEW k \in ks, k < n PROVE FALSE
    BY <1>1 DEF AtDir, IsFirst
  <2>1. AtDir(k) /\ k \in 1..n - 1
    BY <1>1 DEF AtDir, IsFirst
  <2>2. PICK g : g \in At(k)
    OBVIOUS
  <2>3. g \in Header /\ InTree(project.flags[k], g, rel)
    BY <2>1, <2>2, <1>1 DEF InTree
  <2> QED BY <2>1, <2>3 DEF IsFirst
<1>4. n \in ks
  BY <1>2 DEF IsFirst, AtDir
<1> DEFINE first == CHOOSE k \in ks : \A m \in ks : k <= m
<1>5. first = n
  <2>1. \A m \in ks : n <= m
    BY <1>1, <1>3, <1>4
  <2>2. first \in ks /\ \A m \in ks : first <= m
    BY <1>4, <2>1
  <2>3. first \in Nat /\ n \in Nat
    BY <1>1, <1>3, <1>4, <2>2
  <2> HIDE DEF first, ks
  <2> QED BY <1>4, <2>1, <2>2, <2>3
<1>6. FoundBy(rel) = IF ks = {} THEN {} ELSE At(first)
  BY DEF FoundBy
<1> QED BY <1>2, <1>4, <1>5, <1>6

LEMMA ListInvariance == Spec => [](IInv /\ PathInv /\ SortInv)
<1>1. Init => IInv /\ PathInv /\ SortInv
  BY InitHolds, InitPaths
<1>2. IInv /\ PathInv /\ SortInv /\ [Next]_vars => (IInv /\ PathInv /\ SortInv)'
  BY StepHolds, StepPaths
<1> QED BY <1>1, <1>2, PTL DEF Spec

(* An entry without a number leads the llcppg that reads the configuration *)
(* back to its header, when no -I directory is inside another and clang    *)
(* accepts all headers (AddIncludeForObjFile, relPathMap).                 *)
THEOREM LeadsBack == Spec => []Resolves
<1>1. IInv /\ PathInv /\ SortInv => Resolves
  <2> SUFFICES ASSUME IInv, PathInv, \A d, e \in Dirs : ~Inside(d, e), Header = project.valid,
                      NEW k \in DOMAIN include, include[k].index = NoIndex
               PROVE  FoundBy(include[k].rel) = {include[k].header}
    BY DEF Resolves
  <2>1. \A d \in Dirs : Alone(d)
    BY DEF Alone
  <2>2. PICK n \in 1..i : IsFirst(n, include[k].header, include[k].rel)
    BY <2>1 DEF PathInv, FirstFound
  <2>3. project \in Project
    BY DEF IInv, TypeOK
  <2>4. include[k].header \in Header
    BY <2>2, <2>3, TreeFacts DEF IsFirst, InTree
  <2> QED BY <2>2, <2>3, <2>4, FirstIsFound
<1> QED BY <1>1, ListInvariance, PTL

(* Whatever the flags and the files, in nested and repeated directories    *)
(* too, a header is listed before one that it includes and that does not   *)
(* include it, except exactly where a flag has the included header before  *)
(* any has the includer (the sort of parseCFlagsEntry and the appends of   *)
(* AddCflagEntry).                                                         *)
THEOREM IncludersLead == Spec => []IncludersFirst
<1>1. IInv /\ PathInv /\ SortInv => IncludersFirst
  <2> SUFFICES ASSUME IInv, PathInv, SortInv, NEW j \in DOMAIN include, NEW k \in DOMAIN include,
                      include[k].header \in project.deps[include[j].header],
                      include[j].header \notin project.deps[include[k].header]
               PROVE  j < k <=> ~OfferedBefore(include[k].header, include[j].header)
    BY DEF IncludersFirst
  <2>1. project \in Project /\ j \in Nat /\ k \in Nat
    BY DEF IInv, TypeOK
  <2>2. include[j].header \in Header /\ include[k].header \in Header
    <3>1. \A x \in DOMAIN include : \E n \in 1..i :
            AtDir(n) /\ include[x].header \in project.below[project.flags[n]]
      BY DEF PathInv, Origin, InTree
    <3> QED BY <2>1, <3>1, TreeFacts
  <2>3. /\ Weight(include[j].header) > Weight(include[k].header)
        /\ Weight(include[j].header) \in Nat /\ Weight(include[k].header) \in Nat
    BY <2>1, <2>2, TreeFacts
  <2>4. k < j => \/ Weight(include[k].header) >= Weight(include[j].header)
                 \/ OfferedBefore(include[k].header, include[j].header)
    BY DEF SortInv, InOrder, InPlace
  <2>5. j # k
    BY <2>3
  <2>6. j < k => ~OfferedBefore(include[k].header, include[j].header)
    BY DEF SortInv, ByFlag
  <2> QED BY <2>1, <2>3, <2>4, <2>5, <2>6
<1> QED BY <1>1, ListInvariance, PTL
=============================================================================
