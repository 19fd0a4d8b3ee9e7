---------------------------- MODULE PassesProofs ----------------------------
(***************************************************************************)
(* What a run of llcppg promises of its passes (Pipeline), for every set   *)
(* of projects, and what the first of them makes of a translation unit     *)
(* (Parser), for every set of names and however long the unit.             *)
(*                                                                         *)
(* Of the driver, Flow says what each step of an invocation relies on:     *)
(* from ReadTable to the end the table in memory is the one on disk, and   *)
(* what has been written so far was made from it.                          *)
(*                                                                         *)
(* Of the walk, ParserInv says what units are like and that the            *)
(* declarations so far are, one for one and in post order, those of the    *)
(* cursors that have been dealt with and yield one.                        *)
(*                                                                         *)
(* Of the exchange (Wire), any AST whose nodes have the fields and the     *)
(* kinds they may have is read as it was written, and what the walk builds *)
(* is such an AST.                                                         *)
(***************************************************************************)
EXTENDS PipelineSafety, ParserSafety, WellFoundedInduction, FiniteSetTheorems, TLAPS

(* The files that have been written or have failed to be.                  *)
Written(fs) == \A f \in fs : code[f] = Binding(project, read)

Flow ==
  /\ pc \in {"convert", "pub", "write", "fmt"} => table \in Tables /\ read = table
  /\ pc \in {"write", "fmt"} /\ project.public => pub = Binding(project, read)
  /\ pc = "pub" => todo = project.goFiles
  /\ pc = "write" => Written(project.goFiles \ (todo \cup failed))
  /\ pc = "fmt" => Written(project.goFiles)

IInv == TypeOK /\ TableSound /\ Flow /\ BindingsCurrent

-----------------------------------------------------------------------------
(* A table symg wrote is neither a missing file nor one that was cut       *)
(* short, and no file is taken for one that was generated from such.       *)
LEMMA TablesApart == \A t \in Tables : t # None /\ t # Broken
<1>1. SUFFICES ASSUME NEW t \in Tables PROVE t # None /\ t # Broken
  OBVIOUS
<1>2. PICK pr, e : t = <<"symg", pr, e>>
  BY DEF Tables, Table
<1>3. t[1] = "symg"
  BY <1>2
<1>4. None[1] = "none" /\ Broken[1] = "broken"
  BY DEF None, Broken
<1>q. QED
  BY <1>3, <1>4

LEMMA SoundBindings ==
  /\ Sound(None) /\ Sound(Broken)
  /\ \A pr \in Projects, t \in Tables : Sound(Binding(pr, t))
<1>1. \A pr, t : Binding(pr, t)[1] = "gengo" /\ Binding(pr, t)[3] = t
  BY DEF Binding
<1>2. None[1] = "none" /\ Broken[1] = "broken"
  BY DEF None, Broken
<1>3. Sound(None) /\ Sound(Broken)
  BY <1>1, <1>2 DEF Sound
<1>4. \A pr \in Projects, t \in Tables : Sound(Binding(pr, t))
  BY <1>1, TablesApart DEF Sound
<1>q. QED
  BY <1>3, <1>4

(* What symg writes, and what the user makes of it, is a table.            *)
LEMMA NewTables ==
  /\ \A pr \in Projects : Table(pr, FALSE) \in Tables
  /\ \A t \in Tables : Table(t[2], TRUE) \in Tables
<1>1. ASSUME NEW pr \in Projects, NEW e \in BOOLEAN PROVE Table(pr, e) \in Tables
  BY DEF Tables
<1>2. ASSUME NEW t \in Tables PROVE t[2] \in Projects
  <2>1. PICK pr \in Projects, e \in BOOLEAN : t = Table(pr, e)
    BY DEF Tables
  <2>2. Table(pr, e)[2] = pr
    BY DEF Table
  <2>q. QED
    BY <2>1, <2>2
<1>q. QED
  BY <1>1, <1>2

LEMMA GoFiles == \A pr \in Projects : pr.goFiles \subseteq GoFile
BY DEF GoFile

-----------------------------------------------------------------------------
(* The invariant holds in the empty directory.                             *)
LEMMA InitIInv == Init => IInv
<1>1. SUFFICES ASSUME Init PROVE IInv
  OBVIOUS
<1>2. TypeOK
  BY <1>1 DEF Init, TypeOK
<1>3. TableSound
  BY <1>1, SoundBindings DEF Init, TableSound
<1>4. Flow /\ BindingsCurrent
  BY <1>1 DEF Init, Flow, BindingsCurrent, Code
<1>q. QED
  BY <1>2, <1>3, <1>4 DEF IInv

(* The types hold after every step.                                        *)
LEMMA TypeStep == IInv /\ [Next]_vars => TypeOK'
<1> SUFFICES ASSUME IInv, [Next]_vars PROVE TypeOK'
  OBVIOUS
<1> USE DEF IInv, TypeOK, Step, Ended, Working, disk
<1>1. CASE ChangeProject
  BY <1>1 DEF ChangeProject
<1>2. CASE EditTable
  BY <1>2, NewTables DEF EditTable
<1>3. CASE \E symbGen, codeGen, mod \in BOOLEAN : Start(symbGen, codeGen, mod)
  BY <1>3 DEF Start
<1>4. CASE Fail
  BY <1>4 DEF Fail
<1>5. CASE WriteTable \/ BreakTable
  BY <1>5, NewTables DEF WriteTable, BreakTable
<1>6. CASE Parse \/ ModInit \/ GoGet \/ ReadTable
  BY <1>6 DEF Parse, ModInit, GoGet, ReadTable
<1>7. CASE Convert
  BY <1>7, GoFiles DEF Convert, Files
<1>8. CASE WritePub \/ BreakPub
  BY <1>8 DEF WritePub, BreakPub, PubAfter, Bindings
<1>9. CASE \E f \in GoFile : WriteFile(f) \/ BreakFile(f)
  BY <1>9 DEF WriteFile, BreakFile, GoOn, Bindings
<1>10. CASE FilesWritten \/ FmtTidy
  BY <1>10 DEF FilesWritten, FmtTidy, AfterFiles
<1>11. CASE UNCHANGED vars
  BY <1>11 DEF vars
<1>q. QED
  BY <1>1, <1>2, <1>3, <1>4, <1>5, <1>6, <1>7, <1>8, <1>9, <1>10, <1>11 DEF Next

(* Only WritePub and the steps on a Go file write anything but cut-short   *)
(* files, and they use the table ReadTable accepted.                       *)
LEMMA SoundStep == IInv /\ [Next]_vars => TableSound'
<1> SUFFICES ASSUME IInv, [Next]_vars PROVE TableSound'
  OBVIOUS
<1>s. ASSUME NEW b, Sound(b) PROVE Sound(b)'
  BY <1>s DEF Sound, Binding, None, Broken
<1>1. CASE pub' = pub /\ code' = code
  BY <1>1 DEF IInv, TableSound, Sound
<1>2. CASE WritePub
  <2>1. read \in Tables /\ project \in Projects
    BY <1>2 DEF IInv, Flow, TypeOK, WritePub, Step
  <2>2. Sound(pub')
    BY <1>2, <2>1, SoundBindings DEF WritePub, PubAfter, IInv, TableSound
  <2>q. QED
    BY <1>2, <2>2 DEF WritePub, IInv, TableSound, Sound
<1>3. CASE BreakPub
  BY <1>3, SoundBindings DEF BreakPub, IInv, TableSound, Sound
<1>4. ASSUME NEW f \in GoFile, WriteFile(f) \/ BreakFile(f) PROVE TableSound'
  <2>1. read \in Tables /\ project \in Projects /\ code \in [GoFile -> Bindings \cup {None, Broken}]
    BY <1>4 DEF IInv, Flow, TypeOK, WriteFile, BreakFile
  <2>2. \A g \in GoFile : code'[g] \in {code[g], Binding(project, read), Broken}
    BY <1>4, <2>1 DEF WriteFile, BreakFile
  <2>3. \A g \in GoFile : Sound(code'[g])
    BY <2>1, <2>2, SoundBindings DEF IInv, TableSound
  <2>q. QED
    BY <1>4, <2>3 DEF WriteFile, BreakFile, IInv, TableSound, Sound
<1>q. QED
  BY <1>1, <1>2, <1>3, <1>4 DEF Next, vars, disk, ChangeProject, EditTable, Start, Fail, WriteTable,
     BreakTable, Parse, ModInit, GoGet, ReadTable, Convert, FilesWritten, FmtTidy

(* Every step leaves behind what the next one relies on.                   *)
LEMMA FlowStep == IInv /\ [Next]_vars => Flow' /\ BindingsCurrent'
<1> SUFFICES ASSUME IInv, [Next]_vars PROVE Flow' /\ BindingsCurrent'
  OBVIOUS
<1> USE DEF IInv, Flow, BindingsCurrent, Written, Step, Ended, Working, disk, Code
<1>1. CASE ChangeProject \/ EditTable
  BY <1>1 DEF ChangeProject, EditTable
<1>2. CASE \E symbGen, codeGen, mod \in BOOLEAN : Start(symbGen, codeGen, mod)
  BY <1>2 DEF Start
<1>3. CASE Fail
  BY <1>3 DEF Fail
<1>4. CASE WriteTable \/ BreakTable
  BY <1>4 DEF WriteTable, BreakTable
<1>5. CASE Parse \/ ModInit \/ GoGet
  BY <1>5 DEF Parse, ModInit, GoGet
<1>6. CASE ReadTable
  BY <1>6 DEF ReadTable
<1>7. CASE Convert
  BY <1>7 DEF Convert, Files
<1>8. CASE WritePub
  <2>1. pc' = "write" /\ table' \in Tables /\ read' = table'
    BY <1>8 DEF WritePub
  <2>2. project.public => pub' = Binding(project, read)'
    BY <1>8 DEF WritePub, PubAfter, Binding
  <2>q. QED
    BY <1>8, <2>1, <2>2 DEF WritePub
<1>9. CASE BreakPub
  BY <1>9 DEF BreakPub
<1>10. ASSUME NEW f \in GoFile, WriteFile(f) \/ BreakFile(f) PROVE Flow' /\ BindingsCurrent'
  <2>1. /\ pc = "write" /\ pc' = "write" /\ UNCHANGED <<project, table, read, pub>>
        /\ todo' = todo \ {f} /\ failed \subseteq failed'
        /\ \A g \in GoFile \ {f} : code'[g] = code[g]
        /\ f \in failed' \/ code'[f] = Binding(project, read)
    BY <1>10 DEF WriteFile, BreakFile, GoOn, TypeOK
  <2>2. project.goFiles \subseteq GoFile
    BY GoFiles DEF TypeOK
  <2>3. Binding(project, read)' = Binding(project, read)
    BY <2>1 DEF Binding
  <2>4. \A g \in project.goFiles \ (todo' \cup failed') : code'[g] = Binding(project, read)
    BY <2>1, <2>2
  <2>q. QED
    BY <2>1, <2>3, <2>4
<1>11. CASE FilesWritten
  BY <1>11 DEF FilesWritten, AfterFiles, Binding
<1>12. CASE FmtTidy
  BY <1>12 DEF FmtTidy, Binding
<1>13. CASE UNCHANGED vars
  BY <1>13 DEF vars, Binding
<1>q. QED
  BY <1>1, <1>2, <1>3, <1>4, <1>5, <1>6, <1>7, <1>8, <1>9, <1>10, <1>11, <1>12, <1>13 DEF Next

LEMMA Inductive == Spec => []IInv
<1>1. IInv /\ [Next]_vars => IInv'
  BY TypeStep, SoundStep, FlowStep DEF IInv
<1>q. QED
  BY <1>1, InitIInv, PTL DEF Spec

-----------------------------------------------------------------------------
(* For every set of projects, and any sequence of invocations, edits and   *)
(* failures: an invocation that ends well leaves bindings and llcppg.pub   *)
(* of the current project and symbol table.                                *)
THEOREM EndsCurrent == Spec => []BindingsCurrent
<1>1. IInv => BindingsCurrent
  BY DEF IInv
<1>q. QED
  BY <1>1, Inductive, PTL

(* ... nothing is generated from a missing or cut-short symbol table ...   *)
THEOREM GeneratedFromTable == Spec => []TableSound
<1>1. IInv => TableSound
  BY DEF IInv
<1>q. QED
  BY <1>1, Inductive, PTL

(* ... and a Go file that fails does not keep the others from being        *)
(* written.                                                                *)
THEOREM FailureIsolated == Spec => []OthersWritten
<1>1. IInv => OthersWritten
  BY DEF IInv, Flow, Written, OthersWritten
<1>q. QED
  BY <1>1, Inductive, PTL

-----------------------------------------------------------------------------
(* What every unit is like.                                                *)
AnyName == TagName \cup TypedefName \cup {Anon, FuncName, "M", "i.h"}
CursorType ==
  [kind : {"struct", "enum", "typedef", "func", "macro", "include"}, name : AnyName,
   path : {"a.h", BuiltIn}, up : Nat, def : BOOLEAN, to : Nat,
   shape : {"value", "ptr", "array", "fn", "named", "none"}]

(* A cursor alone: what is declared inside a record, and how a type is     *)
(* used, depends on the kind.                                              *)
Formed(c) ==
  /\ c.kind \notin {"struct", "enum"} => c.up = 0
  /\ c.kind # "macro" => c.path = "a.h"
  /\ IsTag(c) => c.name \in TagName \cup {Anon}
  /\ c.kind = "enum" => c.shape = "none"
  /\ c.kind = "struct" =>
       \/ c.shape \in {"value", "ptr"} /\ c.to # 0
       \/ c.shape \in {"none", "array"} /\ c.to = 0
  /\ c.kind = "typedef" => c.name \in TypedefName /\ c.def /\ c.shape \in {"value", "ptr", "fn"}
  /\ c.kind = "func" => c.name = FuncName /\ c.def /\ c.shape \in {"ptr", "named"}

(* Records are nested in order.                                            *)
Nested(i) ==
  /\ unit[i].up < i
  /\ unit[i].up # 0 => unit[unit[i].up].kind = "struct" /\ unit[unit[i].up].def
  /\ \A k \in (unit[i].up + 1)..(i - 1) : unit[k].up >= unit[i].up

(* Types are declared before they are used.                                *)
Uses(i) ==
  /\ unit[i].to < i
  /\ unit[i].to # 0 => /\ unit[unit[i].to].kind \in {"struct", "enum", "typedef"}
                       /\ ~IsAnonymous(unit[unit[i].to])
  /\ unit[i].shape = "named" => FunctionType(unit[i].to)

Tagged(i) ==
  IsTag(unit[i]) =>
    /\ unit[i].kind = "enum" => unit[i].def
    /\ unit[i].name = Anon => unit[i].def /\ (unit[i].up = 0 => unit[i].kind = "enum")
    /\ ~AnonNesting /\ unit[i].up # 0 /\ unit[unit[i].up].name = Anon =>
         unit[i].kind = "struct" /\ unit[i].name = Anon

(* A name has one meaning.                                                 *)
Differs(i) ==
  \A j \in 1..i - 1 :
    /\ IsTag(unit[i]) /\ IsTag(unit[j]) /\ unit[j].name = unit[i].name /\ unit[i].name # Anon =>
         ~(unit[j].def /\ unit[i].def)
    /\ unit[i].kind = "typedef" =>
         ~(unit[j].kind \in {"typedef", "func"} /\ unit[j].name = unit[i].name)
    /\ unit[i].kind = "func" => unit[j].kind # "func"

(* A typedef of the name of a tag is of that tag, and a type used by value *)
(* is complete.                                                            *)
Leads(i) ==
  /\ unit[i].kind = "typedef" /\ unit[i].name \in TagName =>
       unit[i].shape = "value" /\ unit[i].to # 0 /\ ActualName(unit[i].to) = unit[i].name
  /\ unit[i].shape \in {"value", "array"} /\ getActualTypeCursor(unit[i].to) # 0 =>
       \E d \in (1..i - 1) \ Enclosing(unit[i].up) :
          IsTag(unit[d]) /\ unit[d].name = ActualName(unit[i].to) /\ unit[d].def

CursorOK(i) == Nested(i) /\ Uses(i) /\ Tagged(i) /\ Differs(i)
UnitOK ==
  /\ unit \in Seq(CursorType)
  /\ \A i \in 1..Len(unit) : Formed(unit[i]) /\ CursorOK(i)
ChainsOK == \A i \in 1..Len(unit) : Leads(i)

-----------------------------------------------------------------------------
LEMMA CursorsType ==
  ASSUME NEW kind \in {"struct", "enum", "typedef", "func", "macro", "include"},
         NEW names \in SUBSET AnyName, NEW paths \in SUBSET {"a.h", BuiltIn}, NEW ups \in SUBSET Nat,
         NEW defs \in SUBSET BOOLEAN, NEW tos \in SUBSET Nat,
         NEW shapes \in SUBSET {"value", "ptr", "array", "fn", "named", "none"},
         NEW c \in Cursors(kind, names, paths, ups, defs, tos, shapes)
  PROVE  c \in CursorType
  BY DEF Cursors, CursorType

LEMMA Candidate ==
  ASSUME Len(unit) \in Nat, NEW c \in Candidates
  PROVE  c \in CursorType /\ Formed(c) /\ c.to <= Len(unit) /\ c.up <= Len(unit)
<1>a. {TRUE} \in SUBSET BOOLEAN /\ {FALSE} \in SUBSET BOOLEAN
  BY Zenon
<1>b. /\ TagName \cup {Anon} \in SUBSET AnyName /\ TagName \in SUBSET AnyName
      /\ TypedefName \in SUBSET AnyName /\ {FuncName} \in SUBSET AnyName
      /\ {"M"} \in SUBSET AnyName /\ {"i.h"} \in SUBSET AnyName
  BY DEF AnyName
<1>c. /\ 0..Len(unit) \in SUBSET Nat /\ 1..Len(unit) \in SUBSET Nat /\ {0} \in SUBSET Nat
  OBVIOUS
<1>1. \/ c \in Cursors("struct", TagName \cup {Anon}, {"a.h"}, 0..Len(unit), {TRUE}, 1..Len(unit), {"value", "ptr"})
      \/ c \in Cursors("struct", TagName \cup {Anon}, {"a.h"}, 0..Len(unit), {TRUE}, {0}, {"none", "array"})
      \/ c \in Cursors("struct", TagName, {"a.h"}, 0..Len(unit), {FALSE}, {0}, {"none"})
      \/ c \in Cursors("enum", TagName \cup {Anon}, {"a.h"}, 0..Len(unit), {TRUE}, {0}, {"none"})
      \/ c \in Cursors("typedef", TypedefName, {"a.h"}, {0}, {TRUE}, 0..Len(unit), {"value", "ptr", "fn"})
      \/ c \in Cursors("func", {FuncName}, {"a.h"}, {0}, {TRUE}, 0..Len(unit), {"ptr", "named"})
      \/ c \in Cursors("macro", {"M"}, {"a.h", BuiltIn}, {0}, {TRUE}, {0}, {"none"})
      \/ c \in Cursors("include", {"i.h"}, {"a.h"}, {0}, BOOLEAN, {0}, {"none"})
  BY DEF Candidates
<1>2. CASE c \in Cursors("struct", TagName \cup {Anon}, {"a.h"}, 0..Len(unit), {TRUE}, 1..Len(unit), {"value", "ptr"})
  <2>1. c \in CursorType
    BY <1>a, <1>b, <1>c, <1>2, CursorsType
  <2>2. Formed(c) /\ c.to <= Len(unit) /\ c.up <= Len(unit)
    BY <1>2 DEF Cursors, Formed, IsTag
  <2> QED BY <2>1, <2>2
<1>3. CASE c \in Cursors("struct", TagName \cup {Anon}, {"a.h"}, 0..Len(unit), {TRUE}, {0}, {"none", "array"})
  <2>1. c \in CursorType
    BY <1>a, <1>b, <1>c, <1>3, CursorsType
  <2>2. Formed(c) /\ c.to <= Len(unit) /\ c.up <= Len(unit)
    BY <1>3 DEF Cursors, Formed, IsTag
  <2> QED BY <2>1, <2>2
<1>4. CASE c \in Cursors("struct", TagName, {"a.h"}, 0..Len(unit), {FALSE}, {0}, {"none"})
  <2>1. c \in CursorType
    BY <1>a, <1>b, <1>c, <1>4, CursorsType
  <2>2. Formed(c) /\ c.to <= Len(unit) /\ c.up <= Len(unit)
    BY <1>4 DEF Cursors, Formed, IsTag
  <2> QED BY <2>1, <2>2
<1>5. CASE c \in Cursors("enum", TagName \cup {Anon}, {"a.h"}, 0..Len(unit), {TRUE}, {0}, {"none"})
  <2>1. c \in CursorType
    BY <1>a, <1>b, <1>c, <1>5, CursorsType
  <2>2. Formed(c) /\ c.to <= Len(unit) /\ c.up <= Len(unit)
    BY <1>5 DEF Cursors, Formed, IsTag
  <2> QED BY <2>1, <2>2
<1>6. CASE c \in Cursors("typedef", TypedefName, {"a.h"}, {0}, {TRUE}, 0..Len(unit), {"value", "ptr", "fn"})
  <2>1. c \in CursorType
    BY <1>a, <1>b, <1>c, <1>6, CursorsType
  <2>2. c.def \in {TRUE}
    BY <1>6 DEF Cursors
  <2>3. c.def
    BY <2>2, Zenon
  <2>4. Formed(c) /\ c.to <= Len(unit) /\ c.up <= Len(unit)
    BY <1>6, <2>3 DEF Cursors, Formed, IsTag
  <2> QED BY <2>1, <2>4
<1>7. CASE c \in Cursors("func", {FuncName}, {"a.h"}, {0}, {TRUE}, 0..Len(unit), {"ptr", "named"})
  <2>1. c \in CursorType
    BY <1>a, <1>b, <1>c, <1>7, CursorsType
  <2>2. c.def \in {TRUE}
    BY <1>7 DEF Cursors
  <2>3. c.def
    BY <2>2, Zenon
  <2>4. Formed(c) /\ c.to <= Len(unit) /\ c.up <= Len(unit)
    BY <1>7, <2>3 DEF Cursors, Formed, IsTag
  <2> QED BY <2>1, <2>4
<1>8. CASE c \in Cursors("macro", {"M"}, {"a.h", BuiltIn}, {0}, {TRUE}, {0}, {"none"})
  <2>1. c \in CursorType
    BY <1>a, <1>b, <1>c, <1>8, CursorsType
  <2>2. Formed(c) /\ c.to <= Len(unit) /\ c.up <= Len(unit)
    BY <1>8 DEF Cursors, Formed, IsTag
  <2> QED BY <2>1, <2>2
<1>9. CASE c \in Cursors("include", {"i.h"}, {"a.h"}, {0}, BOOLEAN, {0}, {"none"})
  <2>1. c \in CursorType
    BY <1>a, <1>b, <1>c, <1>9, CursorsType
  <2>2. Formed(c) /\ c.to <= Len(unit) /\ c.up <= Len(unit)
    BY <1>9 DEF Cursors, Formed, IsTag
  <2> QED BY <2>1, <2>2
<1> QED BY <1>1, <1>2, <1>3, <1>4, <1>5, <1>6, <1>7, <1>8, <1>9

LEMMA Declared ==
  ASSUME UnitOK, NEW c \in Candidates, Legal(c), unit' = Append(unit, c)
  PROVE  /\ Len(unit) \in Nat /\ Len(unit') = Len(unit) + 1 /\ unit' \in Seq(CursorType)
         /\ \A i \in 1..Len(unit) : unit'[i] = unit[i] /\ unit[i] \in CursorType
         /\ unit'[Len(unit) + 1] = c /\ c \in CursorType
         /\ c.to <= Len(unit) /\ c.up <= Len(unit) /\ Formed(c)
<1>1. unit \in Seq(CursorType) /\ Len(unit) \in Nat
  BY DEF UnitOK
<1>2. c \in CursorType /\ Formed(c) /\ c.to <= Len(unit) /\ c.up <= Len(unit)
  BY <1>1, Candidate
<1> HIDE DEF CursorType, Formed
<1> QED BY <1>1, <1>2

(* What has been declared stays as it is.                                  *)
LEMMA StaysOK ==
  ASSUME UnitOK, NEW c \in Candidates, Legal(c), unit' = Append(unit, c), NEW i \in 1..Len(unit)
  PROVE  CursorOK(i)'
<1>1. /\ Len(unit) \in Nat /\ \A k \in 1..Len(unit) : unit'[k] = unit[k] /\ unit[k] \in CursorType
      /\ Nested(i) /\ Uses(i) /\ Tagged(i) /\ Differs(i)
  BY Declared DEF UnitOK, CursorOK
<1>2. /\ unit'[i] = unit[i] /\ unit[i].up \in Nat /\ unit[i].to \in Nat
      /\ unit[i].up # 0 => unit'[unit[i].up] = unit[unit[i].up]
      /\ unit[i].to # 0 => unit'[unit[i].to] = unit[unit[i].to]
      /\ \A k \in 1..i - 1 : unit'[k] = unit[k]
  BY <1>1 DEF CursorType, Nested, Uses
<1>3. Nested(i)'
  BY <1>1, <1>2 DEF Nested
<1>4. Uses(i)'
  <2>1. FunctionType(unit[i].to) => FunctionType(unit[i].to)'
    BY <1>2 DEF FunctionType, IsTypedef
  <2> QED BY <1>1, <1>2, <2>1 DEF Uses, FunctionType, IsTypedef
<1>5. Tagged(i)'
  BY <1>1, <1>2 DEF Tagged
<1>6. Differs(i)'
  BY <1>1, <1>2 DEF Differs
<1> QED BY <1>3, <1>4, <1>5, <1>6 DEF CursorOK

LEMMA NewOK ==
  ASSUME UnitOK, NEW c \in Candidates, Legal(c), unit' = Append(unit, c), NEW n, n = Len(unit)
  PROVE  CursorOK(n + 1)'
<1>1. /\ n \in Nat /\ (n + 1) - 1 = n /\ \A k \in 1..n : unit'[k] = unit[k] /\ unit[k] \in CursorType
      /\ unit'[n + 1] = c /\ c \in CursorType /\ c.to <= n /\ c.up <= n /\ Formed(c)
  BY Declared
<1>2. /\ c.up \in Nat /\ c.to \in Nat
      /\ c.up # 0 => unit'[c.up] = unit[c.up]
      /\ c.to # 0 => unit'[c.to] = unit[c.to]
  BY <1>1 DEF CursorType
<1>3. Nested(n + 1)'
  <2>1. c.up # 0 => unit[c.up].kind = "struct" /\ unit[c.up].def /\ Spans(c.up, n)
    BY DEF Legal
  <2>2. \A k \in (c.up + 1)..n : unit'[k].up >= c.up
    <3>1. CASE c.up = 0
      BY <1>1, <3>1 DEF CursorType
    <3>2. CASE c.up # 0
      BY <1>1, <1>2, <2>1, <3>2 DEF Spans
    <3> QED BY <3>1, <3>2
  <2> QED BY <1>1, <1>2, <2>1, <2>2 DEF Nested
<1>4. Uses(n + 1)'
  <2>1. c.to # 0 => unit[c.to].kind \in {"struct", "enum", "typedef"} /\ ~IsAnonymous(unit[c.to])
    BY DEF Legal
  <2>2. c.shape = "named" => FunctionType(c.to)
    BY DEF Legal, LegalUse
  <2> QED BY <1>1, <1>2, <2>1, <2>2 DEF Uses, FunctionType, IsTypedef
<1>5. Tagged(n + 1)'
  <2>1. IsTag(c) => LegalTag(c)
    BY DEF Legal
  <2> QED BY <1>1, <1>2, <2>1 DEF Tagged, LegalTag
<1>6. Differs(n + 1)'
  <2> SUFFICES ASSUME NEW j \in 1..n
               PROVE  /\ IsTag(c) /\ IsTag(unit[j]) /\ unit[j].name = c.name /\ c.name # Anon =>
                           ~(unit[j].def /\ c.def)
                      /\ c.kind = "typedef" =>
                           ~(unit[j].kind \in {"typedef", "func"} /\ unit[j].name = c.name)
                      /\ c.kind = "func" => unit[j].kind # "func"
    BY <1>1 DEF Differs
  <2> QED BY DEF Legal, LegalTag, LegalTypedef
<1> QED BY <1>3, <1>4, <1>5, <1>6 DEF CursorOK

LEMMA DeclareUnit ==
  ASSUME UnitOK, NEW c \in Candidates, Legal(c), unit' = Append(unit, c)
  PROVE  UnitOK'
<1>1. /\ Len(unit) \in Nat /\ Len(unit') = Len(unit) + 1 /\ unit' \in Seq(CursorType)
      /\ \A i \in 1..Len(unit) : unit'[i] = unit[i]
      /\ unit'[Len(unit) + 1] = c /\ Formed(c)
  BY Declared
<1>2. ASSUME NEW i \in 1..Len(unit') PROVE Formed(unit'[i]) /\ CursorOK(i)'
  <2>1. CASE i \in 1..Len(unit)
    BY <1>1, <2>1, StaysOK DEF UnitOK
  <2>2. CASE i = Len(unit) + 1
    BY <1>1, <2>2, NewOK
  <2> QED BY <1>1, <2>1, <2>2
<1> QED BY <1>1, <1>2 DEF UnitOK

-----------------------------------------------------------------------------
(* Induction on numbers.                                                   *)
LEMMA OnNat ==
  ASSUME NEW T, 0 \in T, \A n \in Nat : n \in T => n + 1 \in T
  PROVE  Nat \subseteq T
<1> SUFFICES ASSUME Nat \ T # {} PROVE FALSE
  OBVIOUS
<1> DEFINE U == Nat \ T
<1>1. U \subseteq Nat /\ U # {}
  OBVIOUS
<1>2. PICK n \in U : \A m \in U : ~ (<<m, n>> \in OpToRel(<, Nat))
  <2> HIDE DEF U
  <2> QED BY <1>1, WFMin, NatLessThanWellFounded
<1>3. n \in Nat /\ n # 0 /\ n - 1 \in Nat /\ n - 1 < n /\ (n - 1) + 1 = n
  <2>1. n \in Nat /\ n \notin T
    OBVIOUS
  <2> HIDE DEF U
  <2> QED BY <2>1
<1>4. n - 1 \notin U
  <2>1. <<n - 1, n>> \in OpToRel(<, Nat)
    BY <1>3 DEF OpToRel
  <2> QED BY <1>2, <2>1
<1>5. n - 1 \in T
  BY <1>3, <1>4
<1>6. n \in T
  BY <1>3, <1>5
<1> QED BY <1>2, <1>6

LEMMA OnBelow ==
  ASSUME NEW T, NEW n \in Nat,
         \A i \in 0..n : (\A k \in 0..n : k < i => k \in T) => i \in T
  PROVE  \A i \in 0..n : i \in T
<1> DEFINE S == {m \in Nat : \A i \in 0..n : i < m => i \in T}
<1>1. 0 \in S
  OBVIOUS
<1>2. ASSUME NEW m \in Nat, m \in S PROVE m + 1 \in S
  <2> SUFFICES ASSUME NEW i \in 0..n, i < m + 1 PROVE i \in T
    OBVIOUS
  <2>1. \A k \in 0..n : k < i => k \in T
    BY <1>2
  <2> QED BY <2>1
<1>3. Nat \subseteq S
  <2> HIDE DEF S
  <2> QED BY <1>1, <1>2, OnNat
<1> SUFFICES ASSUME NEW i \in 0..n PROVE i \in T
  OBVIOUS
<1>4. i + 1 \in S
  BY <1>3
<1> QED BY <1>4

-----------------------------------------------------------------------------
(* Where chains of typedefs end.                                           *)
ChainNext(u, f, i) == IF i # 0 /\ u[i].kind = "typedef" /\ u[i].shape = "value" THEN f[u[i].to] ELSE i
ChainOf(u) == CHOOSE f : f = [i \in 0..Len(u) |-> ChainNext(u, f, i)]

LEMMA ResolvedIs == Resolved = ChainOf(unit)
  BY DEF Resolved, ChainOf, ChainEnd, ChainNext

Backward(u) == Len(u) \in Nat /\ \A i \in 1..Len(u) : u[i].to \in 0..i - 1

LEMMA ChainDef ==
  ASSUME NEW u, Backward(u)
  PROVE  ChainOf(u) = [i \in 0..Len(u) |-> ChainNext(u, ChainOf(u), i)]
<1> DEFINE Def(f, n) == f = [i \in 0..n |-> ChainNext(u, f, i)]
           T == {n \in Nat : n <= Len(u) => \E f : Def(f, n)}
<1>1. 0 \in T
  <2>1. Def([i \in 0..0 |-> 0], 0)
    BY DEF ChainNext
  <2> QED BY <2>1
<1>2. ASSUME NEW n \in Nat, n \in T PROVE n + 1 \in T
  <2> SUFFICES ASSUME n + 1 <= Len(u) PROVE \E f : Def(f, n + 1)
    OBVIOUS
  <2>1. PICK f : Def(f, n)
    BY <1>2 DEF Backward
  <2> DEFINE g == [i \in 0..n + 1 |-> IF i = n + 1 THEN ChainNext(u, f, i) ELSE f[i]]
  <2>2. ASSUME NEW i \in 0..n + 1 PROVE g[i] = ChainNext(u, g, i)
    <3>1. i # 0 => u[i].to \in 0..n /\ g[u[i].to] = f[u[i].to]
      BY DEF Backward
    <3>2. ChainNext(u, g, i) = ChainNext(u, f, i)
      <4> HIDE DEF g
      <4> QED BY <3>1 DEF ChainNext
    <3>3. i # n + 1 => f[i] = ChainNext(u, f, i)
      BY <2>1
    <3> QED BY <3>2, <3>3
  <2>3. Def(g, n + 1)
    <3> HIDE DEF g
    <3>1. g = [i \in 0..n + 1 |-> g[i]]
      BY DEF g
    <3> QED BY <2>2, <3>1
  <2> QED BY <2>3
<1>3. Nat \subseteq T
  <2> HIDE DEF T
  <2> QED BY <1>1, <1>2, OnNat
<1>4. \E f : Def(f, Len(u))
  BY <1>3 DEF Backward
<1> QED BY <1>4 DEF ChainOf

LEMMA ChainFacts ==
  ASSUME NEW u, Backward(u)
  PROVE  /\ ChainOf(u)[0] = 0
         /\ \A i \in 1..Len(u) :
              ChainOf(u)[i] = IF u[i].kind = "typedef" /\ u[i].shape = "value" THEN ChainOf(u)[u[i].to] ELSE i
<1> DEFINE f == ChainOf(u)
<1>1. f = [i \in 0..Len(u) |-> ChainNext(u, f, i)]
  BY ChainDef
<1> HIDE DEF f
<1>2. \A i \in 0..Len(u) : f[i] = ChainNext(u, f, i)
  BY <1>1
<1>3. f[0] = 0
  BY <1>2 DEF ChainNext, Backward
<1>4. \A i \in 1..Len(u) :
        f[i] = IF u[i].kind = "typedef" /\ u[i].shape = "value" THEN f[u[i].to] ELSE i
  BY <1>2 DEF ChainNext, Backward
<1> QED BY <1>3, <1>4 DEF f

LEMMA ChainRange ==
  ASSUME NEW u, Backward(u)
  PROVE  \A i \in 0..Len(u) : ChainOf(u)[i] \in 0..i
<1> DEFINE f == ChainOf(u)
           T == {i \in 0..Len(u) : f[i] \in 0..i}
<1>1. /\ f[0] = 0
      /\ \A i \in 1..Len(u) : f[i] = IF u[i].kind = "typedef" /\ u[i].shape = "value" THEN f[u[i].to] ELSE i
  BY ChainFacts
<1> HIDE DEF f
<1>2. ASSUME NEW i \in 0..Len(u), \A k \in 0..Len(u) : k < i => k \in T PROVE i \in T
  <2>1. CASE i = 0
    BY <1>1, <2>1
  <2>2. CASE i # 0
    <3>1. u[i].to \in 0..i - 1 /\ u[i].to \in 0..Len(u)
      BY <2>2 DEF Backward
    <3>2. f[u[i].to] \in 0..u[i].to
      BY <1>2, <3>1
    <3> QED BY <1>1, <2>2, <3>1, <3>2
  <2> QED BY <2>1, <2>2
<1>3. \A i \in 0..Len(u) : i \in T
  <2> HIDE DEF T
  <2> QED BY <1>2, OnBelow DEF Backward
<1> QED BY <1>3 DEF f

LEMMA ChainPrefix ==
  ASSUME NEW u, NEW v, Backward(u), Backward(v), Len(u) <= Len(v), \A i \in 1..Len(u) : v[i] = u[i]
  PROVE  \A i \in 0..Len(u) : ChainOf(v)[i] = ChainOf(u)[i]
<1> DEFINE f == ChainOf(u)
           g == ChainOf(v)
           T == {i \in 0..Len(u) : g[i] = f[i]}
<1>1. /\ f[0] = 0
      /\ \A i \in 1..Len(u) : f[i] = IF u[i].kind = "typedef" /\ u[i].shape = "value" THEN f[u[i].to] ELSE i
  BY ChainFacts
<1>2. /\ g[0] = 0
      /\ \A i \in 1..Len(v) : g[i] = IF v[i].kind = "typedef" /\ v[i].shape = "value" THEN g[v[i].to] ELSE i
  BY ChainFacts
<1> HIDE DEF f, g
<1>3. ASSUME NEW i \in 0..Len(u), \A k \in 0..Len(u) : k < i => k \in T PROVE i \in T
  <2>1. CASE i = 0
    BY <1>1, <1>2, <2>1
  <2>2. CASE i # 0
    <3>1. u[i].to \in 0..i - 1 /\ u[i].to \in 0..Len(u) /\ v[i] = u[i] /\ i \in 1..Len(v)
      BY <2>2 DEF Backward
    <3>2. g[u[i].to] = f[u[i].to]
      BY <1>3, <3>1
    <3> QED BY <1>1, <1>2, <2>2, <3>1, <3>2
  <2> QED BY <2>1, <2>2
<1>4. \A i \in 0..Len(u) : i \in T
  <2> HIDE DEF T
  <2> QED BY <1>3, OnBelow DEF Backward
<1> QED BY <1>4 DEF f, g

LEMMA UnitBackward == ASSUME UnitOK PROVE Backward(unit)
<1> SUFFICES ASSUME NEW i \in 1..Len(unit) PROVE unit[i].to \in 0..i - 1
  BY DEF Backward, UnitOK
<1>1. unit[i] \in CursorType /\ Uses(i) /\ Len(unit) \in Nat
  BY DEF UnitOK, CursorOK
<1>2. unit[i].to \in Nat
  BY <1>1 DEF CursorType
<1> QED BY <1>1, <1>2 DEF Uses

LEMMA ResolvedFacts ==
  ASSUME UnitOK
  PROVE  /\ Resolved[0] = 0
         /\ \A i \in 0..Len(unit) : Resolved[i] \in 0..i
         /\ \A i \in 1..Len(unit) :
              Resolved[i] = IF unit[i].kind = "typedef" /\ unit[i].shape = "value"
                            THEN Resolved[unit[i].to] ELSE i
  BY UnitBackward, ResolvedIs, ChainFacts, ChainRange

(* The actual name of what a typedef is for.                               *)
LEMMA TypedefName0 ==
  ASSUME UnitOK, NEW i \in 1..Len(unit), unit[i].kind = "typedef"
  PROVE  IF unit[i].shape = "value" THEN ActualName(i) = ActualName(unit[i].to)
         ELSE ActualName(i) = Anon
<1>1. Resolved[i] = IF unit[i].shape = "value" THEN Resolved[unit[i].to] ELSE i
  BY ResolvedFacts
<1>2. CASE unit[i].shape = "value"
  BY <1>1, <1>2 DEF ActualName, getActualTypeCursor
<1>3. CASE unit[i].shape # "value"
  BY <1>1, <1>3 DEF ActualName, getActualTypeCursor, IsTypedef
<1> QED BY <1>2, <1>3

LEMMA ActualNone == ASSUME UnitOK PROVE getActualTypeCursor(0) = 0 /\ ActualName(0) = Anon
<1>1. Resolved[0] = 0
  BY ResolvedFacts
<1> QED BY <1>1 DEF ActualName, getActualTypeCursor, IsTypedef

-----------------------------------------------------------------------------
LEMMA SameActual ==
  ASSUME UnitOK, UnitOK', NEW c, unit' = Append(unit, c), NEW i \in 0..Len(unit)
  PROVE  /\ getActualTypeCursor(i)' = getActualTypeCursor(i)
         /\ ActualName(i)' = ActualName(i) /\ getActualTypeCursor(i) \in 0..i
<1>1. Len(unit) \in Nat /\ Len(unit') = Len(unit) + 1 /\ \A k \in 1..Len(unit) : unit'[k] = unit[k]
  BY DEF UnitOK
<1>2. Backward(unit) /\ Backward(unit')
  <2>1. Backward(unit)
    BY UnitBackward
  <2>2. ASSUME NEW k \in 1..Len(unit') PROVE unit'[k].to \in 0..k - 1
    <3>1. unit'[k] \in CursorType /\ Uses(k)'
      BY DEF UnitOK, CursorOK
    <3>2. unit'[k].to \in Nat
      BY <3>1 DEF CursorType
    <3> QED BY <1>1, <3>1, <3>2 DEF Uses
  <2> QED BY <1>1, <2>1, <2>2 DEF Backward
<1>3. ChainOf(unit')[i] = ChainOf(unit)[i] /\ ChainOf(unit)[i] \in 0..i
  <2>1. Len(unit) <= Len(unit')
    BY <1>1
  <2>2. \A k \in 0..Len(unit) : ChainOf(unit')[k] = ChainOf(unit)[k]
    BY <1>1, <1>2, <2>1, ChainPrefix
  <2>3. \A k \in 0..Len(unit) : ChainOf(unit)[k] \in 0..k
    BY <1>2, ChainRange
  <2> QED BY <2>2, <2>3
<1>4. Resolved'[i] = Resolved[i] /\ Resolved[i] \in 0..i
  <2>1. Resolved' = ChainOf(unit')
    BY DEF Resolved, ChainOf, ChainEnd, ChainNext
  <2> QED BY <1>3, <2>1, ResolvedIs
<1>5. Resolved[i] # 0 => unit'[Resolved[i]] = unit[Resolved[i]]
  BY <1>1, <1>4
<1>6. IsTypedef(Resolved[i])' = IsTypedef(Resolved[i])
  BY <1>4, <1>5 DEF IsTypedef
<1>7. getActualTypeCursor(i)' = getActualTypeCursor(i) /\ getActualTypeCursor(i) \in 0..i
  BY <1>4, <1>6 DEF getActualTypeCursor
<1>8. getActualTypeCursor(i) # 0 => unit'[getActualTypeCursor(i)] = unit[getActualTypeCursor(i)]
  BY <1>1, <1>7
<1> QED BY <1>7, <1>8 DEF ActualName

LEMMA DeclareChains ==
  ASSUME UnitOK, ChainsOK, NEW c \in Candidates, Legal(c), unit' = Append(unit, c)
  PROVE  ChainsOK'
<1>1. UnitOK'
  BY DeclareUnit
<1>2. /\ Len(unit) \in Nat /\ Len(unit') = Len(unit) + 1
      /\ \A i \in 1..Len(unit) : unit'[i] = unit[i] /\ unit[i] \in CursorType
      /\ unit'[Len(unit) + 1] = c /\ c \in CursorType
      /\ c.to <= Len(unit) /\ c.up <= Len(unit)
  BY Declared
<1>3. ASSUME NEW i \in 0..Len(unit) PROVE Enclosing(i)' = Enclosing(i)
  BY <1>2 DEF Enclosing, Spans
<1>4. ASSUME NEW i \in 1..Len(unit) PROVE Leads(i)'
  <2>1. Leads(i) /\ Nested(i) /\ Uses(i)
    BY DEF ChainsOK, UnitOK, CursorOK
  <2>2. unit[i].to \in 0..Len(unit) /\ unit[i].up \in 0..Len(unit)
    BY <1>2, <2>1 DEF CursorType, Nested, Uses
  <2>3. /\ ActualName(unit[i].to)' = ActualName(unit[i].to)
        /\ getActualTypeCursor(unit[i].to)' = getActualTypeCursor(unit[i].to)
        /\ Enclosing(unit[i].up)' = Enclosing(unit[i].up) /\ unit'[i] = unit[i]
        /\ \A d \in 1..i - 1 : unit'[d] = unit[d]
    <3>1. unit'[i] = unit[i]
      BY <1>2
    <3>2. ASSUME NEW t \in 0..Len(unit), t = unit[i].to
          PROVE  /\ ActualName(unit[i].to)' = ActualName(unit[i].to)
                 /\ getActualTypeCursor(unit[i].to)' = getActualTypeCursor(unit[i].to)
      <4>1. ActualName(t)' = ActualName(t) /\ getActualTypeCursor(t)' = getActualTypeCursor(t)
        BY <1>1, SameActual
      <4>2. unit'[i].to = t
        BY <3>1, <3>2
      <4> QED BY <4>1, <4>2, <3>2 DEF ActualName, getActualTypeCursor
    <3>3. ASSUME NEW t \in 0..Len(unit), t = unit[i].up
          PROVE  Enclosing(unit[i].up)' = Enclosing(unit[i].up)
      <4>1. Enclosing(t)' = Enclosing(t)
        BY <1>3
      <4>2. unit'[i].up = t
        BY <3>1, <3>3
      <4> QED BY <4>1, <4>2, <3>3 DEF Enclosing, Spans
    <3> QED BY <1>2, <2>2, <3>1, <3>2, <3>3
  <2> QED BY <2>1, <2>3 DEF Leads
<1>5. ASSUME NEW n, n = Len(unit) PROVE Leads(n + 1)'
  <2>1. n \in Nat /\ (n + 1) - 1 = n /\ unit'[n + 1] = c /\ c.to \in 0..n /\ c.up \in 0..n
    BY <1>2, <1>5 DEF CursorType
  <2>2. /\ c.kind = "typedef" => LegalTypedef(c)
        /\ c.shape \in {"value", "array"} => Complete(c.to, c)
    BY DEF Legal, LegalUse
  <2>3. /\ ActualName(c.to)' = ActualName(c.to) /\ Enclosing(c.up)' = Enclosing(c.up)
        /\ getActualTypeCursor(c.to)' = getActualTypeCursor(c.to)
    BY <1>1, <1>3, <1>5, <2>1, SameActual
  <2>4. /\ ActualName(unit[n + 1].to)' = ActualName(c.to) /\ Enclosing(unit[n + 1].up)' = Enclosing(c.up)
        /\ getActualTypeCursor(unit[n + 1].to)' = getActualTypeCursor(c.to)
    BY <2>1, <2>3 DEF ActualName, getActualTypeCursor, Enclosing, Spans
  <2>5. c.kind = "typedef" /\ c.name \in TagName =>
          c.shape = "value" /\ c.to # 0 /\ ActualName(c.to) = c.name
    BY <2>2 DEF LegalTypedef
  <2>6. c.shape \in {"value", "array"} /\ getActualTypeCursor(c.to) # 0 =>
          \E d \in (1..n) \ Enclosing(c.up) :
             IsTag(unit[d]) /\ unit[d].name = ActualName(c.to) /\ unit[d].def
    BY <1>5, <2>2 DEF Complete, ActualName
  <2>7. \A d \in 1..n : unit'[d] = unit[d]
    BY <1>2, <1>5
  <2> QED BY <2>1, <2>4, <2>5, <2>6, <2>7 DEF Leads
<1>6. ASSUME NEW i \in 1..Len(unit') PROVE Leads(i)'
  BY <1>2, <1>4, <1>5
<1> QED BY <1>6 DEF ChainsOK

-----------------------------------------------------------------------------
(* The cursors inside a record, and those that follow it in the same one.  *)
Facts(i) ==
  /\ unit[i] \in CursorType /\ unit[i].up \in Nat /\ unit[i].to \in Nat
  /\ Formed(unit[i]) /\ Nested(i) /\ Uses(i) /\ Tagged(i) /\ Differs(i)

LEMMA UnitFacts == ASSUME UnitOK PROVE Len(unit) \in Nat /\ \A i \in 1..Len(unit) : Facts(i)
<1>1. Len(unit) \in Nat /\ \A i \in 1..Len(unit) : unit[i] \in CursorType
  BY DEF UnitOK
<1>2. \A i \in 1..Len(unit) : unit[i].up \in Nat /\ unit[i].to \in Nat
  BY <1>1 DEF CursorType
<1> QED BY <1>1, <1>2 DEF Facts, UnitOK, CursorOK

LEMMA LeastOf ==
  ASSUME NEW n \in Nat, NEW S \in SUBSET (1..n), S # {}
  PROVE  LET m == CHOOSE k \in S : \A l \in S : k <= l IN m \in S /\ \A l \in S : m <= l
<1>1. PICK k \in S : \A l \in S : ~ (<<l, k>> \in OpToRel(<, Nat))
  <2>1. S \subseteq Nat
    OBVIOUS
  <2> QED BY <2>1, WFMin, NatLessThanWellFounded
<1>2. ASSUME NEW l \in S PROVE k <= l
  <2>1. l \in Nat /\ k \in Nat
    OBVIOUS
  <2>2. ASSUME l < k PROVE FALSE
    <3>1. <<l, k>> \in OpToRel(<, Nat)
      BY <2>1, <2>2 DEF OpToRel
    <3> QED BY <1>1, <3>1
  <2> QED BY <2>1, <2>2
<1> QED BY <1>2

LEMMA Links ==
  ASSUME UnitOK, NEW i \in 1..Len(unit)
  PROVE  /\ FirstChild(i) \in {0} \cup ((i + 1)..Len(unit))
         /\ FirstChild(i) # 0 => FirstChild(i) = i + 1 /\ unit[i + 1].up = i
         /\ FirstChild(i) = 0 /\ i < Len(unit) => unit[i + 1].up # i
         /\ NextChild(i) \in {0} \cup ((i + 1)..Len(unit))
         /\ NextChild(i) # 0 => unit[NextChild(i)].up = unit[i].up
         /\ \A m \in (i + 1)..Len(unit) :
              unit[m].up = unit[i].up => NextChild(i) # 0 /\ NextChild(i) <= m
<1>1. Len(unit) \in Nat
  BY UnitFacts
<1>2. /\ FirstChild(i) \in {0} \cup ((i + 1)..Len(unit))
      /\ FirstChild(i) # 0 => FirstChild(i) = i + 1 /\ unit[i + 1].up = i
      /\ FirstChild(i) = 0 /\ i < Len(unit) => unit[i + 1].up # i
  BY <1>1 DEF FirstChild
<1> DEFINE later == {k \in (i + 1)..Len(unit) : unit[k].up = unit[i].up}
<1>3. NextChild(i) = IF later = {} THEN 0 ELSE CHOOSE k \in later : \A m \in later : k <= m
  BY DEF NextChild
<1>4. later \in SUBSET (1..Len(unit))
  BY <1>1
<1>5. later # {} => NextChild(i) \in later /\ \A m \in later : NextChild(i) <= m
  <2> HIDE DEF later
  <2> QED BY <1>1, <1>3, <1>4, LeastOf
<1>6. \A m \in later : m \in (i + 1)..Len(unit) /\ unit[m].up = unit[i].up
  OBVIOUS
<1>7. \A m \in (i + 1)..Len(unit) : unit[m].up = unit[i].up => m \in later
  OBVIOUS
<1> HIDE DEF later
<1>8. CASE later = {}
  BY <1>2, <1>3, <1>7, <1>8
<1>9. CASE later # {}
  <2>1. NextChild(i) # 0
    BY <1>1, <1>5, <1>6, <1>9
  <2> QED BY <1>2, <1>5, <1>6, <1>7, <1>9, <2>1
<1> QED BY <1>8, <1>9

(* The functions that go over nested cursors are those their definitions   *)
(* say: the value at a cursor takes values only at later ones.             *)
Upward(r, f, i) == IF r = "fields" THEN FieldsFrom(f, i) ELSE CollectFrom(f, i)

LEMMA UpwardSame ==
  ASSUME UnitOK, NEW r, NEW f, NEW g, NEW i \in 0..Len(unit), f[0] = g[0],
         \A k \in (i + 1)..Len(unit) : f[k] = g[k]
  PROVE  Upward(r, f, i) = Upward(r, g, i)
<1>1. CASE i = 0
  BY <1>1 DEF Upward, FieldsFrom, CollectFrom
<1>2. CASE i # 0
  <2>1. f[FirstChild(i)] = g[FirstChild(i)] /\ f[NextChild(i)] = g[NextChild(i)]
    BY <1>2, Links
  <2> QED BY <1>2, <2>1 DEF Upward, FieldsFrom, CollectFrom, NestedType, RecordType
<1> QED BY <1>1, <1>2

LEMMA UpwardExists == ASSUME UnitOK, NEW r PROVE \E f : f = [i \in 0..Len(unit) |-> Upward(r, f, i)]
<1>1. Len(unit) \in Nat
  BY UnitFacts
<1> DEFINE L == Len(unit)
           Def(f, n) == /\ f = [i \in 0..L |-> f[i]] /\ f[0] = Upward(r, f, 0)
                        /\ \A i \in 1..L : L - n < i => f[i] = Upward(r, f, i)
           T == {n \in Nat : n <= L => \E f : Def(f, n)}
<1>2. 0 \in T
  <2> DEFINE z == [i \in 0..L |-> <<>>]
  <2>1. z = [i \in 0..L |-> z[i]] /\ z[0] = <<>>
    BY <1>1
  <2>2. Upward(r, z, 0) = <<>>
    BY DEF Upward, FieldsFrom, CollectFrom
  <2> HIDE DEF z
  <2>3. Def(z, 0)
    BY <1>1, <2>1, <2>2
  <2> QED BY <2>3
<1>3. ASSUME NEW n \in Nat, n \in T PROVE n + 1 \in T
  <2> SUFFICES ASSUME n + 1 <= L PROVE \E f : Def(f, n + 1)
    OBVIOUS
  <2>1. PICK f : Def(f, n)
    BY <1>1, <1>3
  <2> DEFINE k == L - n
             g == [i \in 0..L |-> IF i = k THEN Upward(r, f, i) ELSE f[i]]
  <2>2. k \in 1..L
    BY <1>1
  <2> HIDE DEF k
  <2>3. g = [i \in 0..L |-> g[i]] /\ \A i \in 0..L : g[i] = IF i = k THEN Upward(r, f, i) ELSE f[i]
    OBVIOUS
  <2> HIDE DEF g
  <2>4. ASSUME NEW i \in 0..L, i = 0 \/ k <= i PROVE g[i] = Upward(r, g, i)
    <3>1. f[0] = g[0] /\ (i # 0 => \A m \in (i + 1)..L : f[m] = g[m])
      BY <1>1, <2>2, <2>3, <2>4
    <3>2. CASE i = 0
      <4>1. Upward(r, f, 0) = Upward(r, g, 0)
        BY DEF Upward, FieldsFrom, CollectFrom
      <4> QED BY <2>1, <3>1, <3>2, <4>1
    <3>3. CASE i # 0
      <4>1. Upward(r, f, i) = Upward(r, g, i)
        BY <3>1, <3>3, UpwardSame
      <4>2. i # k => f[i] = Upward(r, f, i)
        BY <1>1, <2>1, <2>2, <2>4, <3>3 DEF k
      <4> QED BY <2>3, <4>1, <4>2
    <3> QED BY <3>2, <3>3
  <2>5. Def(g, n + 1)
    <3>1. \A i \in 1..L : L - (n + 1) < i => k <= i
      BY <1>1 DEF k
    <3>2. 0 \in 0..L
      BY <1>1
    <3> QED BY <2>3, <2>4, <3>1, <3>2
  <2> QED BY <2>5
<1>4. Nat \subseteq T
  <2> HIDE DEF T
  <2> QED BY <1>2, <1>3, OnNat
<1>5. PICK f : Def(f, L)
  <2>1. L \in T
    <3> HIDE DEF T
    <3> QED BY <1>1, <1>4
  <2>2. L <= L
    BY <1>1
  <2> QED BY <2>1, <2>2
<1>6. \A i \in 0..L : f[i] = Upward(r, f, i)
  BY <1>1, <1>5
<1>7. f = [i \in 0..L |-> Upward(r, f, i)]
  BY <1>5, <1>6
<1> QED BY <1>7

LEMMA FieldsDef ==
  ASSUME UnitOK PROVE \A i \in 0..Len(unit) : NestedFields[i] = FieldsFrom(NestedFields, i)
<1>1. \E f : f = [i \in 0..Len(unit) |-> FieldsFrom(f, i)]
  <2>1. \A f, i : Upward("fields", f, i) = FieldsFrom(f, i)
    BY DEF Upward
  <2> QED BY <2>1, UpwardExists
<1>2. NestedFields = [i \in 0..Len(unit) |-> FieldsFrom(NestedFields, i)]
  BY <1>1 DEF NestedFields
<1> HIDE DEF NestedFields
<1> QED BY <1>2

LEMMA PostDef ==
  ASSUME UnitOK PROVE \A i \in 0..Len(unit) : PostOrder[i] = CollectFrom(PostOrder, i)
<1>1. \E f : f = [i \in 0..Len(unit) |-> CollectFrom(f, i)]
  <2>1. \A f, i : Upward("post", f, i) = CollectFrom(f, i)
    BY DEF Upward
  <2> QED BY <2>1, UpwardExists
<1>2. PostOrder = [i \in 0..Len(unit) |-> CollectFrom(PostOrder, i)]
  BY <1>1 DEF PostOrder
<1> HIDE DEF PostOrder
<1> QED BY <1>2

-----------------------------------------------------------------------------
(* Post order: a cursor comes before another when the other is later and   *)
(* not inside it, or around it.                                            *)
Before(a, b) == a # b /\ (a < b => ~Spans(a, b)) /\ (b < a => Spans(b, a))
InOrder(s) == \A p, q \in 1..Len(s) : p < q => Before(s[p], s[q])
Lists(s, S) ==
  /\ s \in Seq(1..Len(unit)) /\ InOrder(s)
  /\ \A p \in 1..Len(s) : s[p] \in S
  /\ \A k \in S : \E p \in 1..Len(s) : s[p] = k

Collects(k) == Collect(k) /\ HasType(k)
Inside(i) == {k \in (i + 1)..Len(unit) : Spans(i, k)}
From(j) == {k \in j..Len(unit) : Spans(unit[j].up, k)}

LEMMA ListsNone == Lists(<<>>, {})
  BY DEF Lists, InOrder

LEMMA ListsOne == ASSUME NEW i \in 1..Len(unit) PROVE Lists(<<i>>, {i})
<1>1. <<i>> \in Seq(1..Len(unit)) /\ Len(<<i>>) = 1 /\ <<i>>[1] = i
  OBVIOUS
<1> QED BY <1>1 DEF Lists, InOrder

LEMMA ConcatFacts ==
  ASSUME NEW D, NEW s \in Seq(D), NEW t \in Seq(D)
  PROVE  /\ s \o t \in Seq(D) /\ Len(s \o t) = Len(s) + Len(t) /\ Len(s) \in Nat /\ Len(t) \in Nat
         /\ \A p \in 1..Len(s) : (s \o t)[p] = s[p]
         /\ \A p \in 1..Len(t) : (s \o t)[Len(s) + p] = t[p]
         /\ \A p \in 1..Len(s) + Len(t) :
              (s \o t)[p] = IF p <= Len(s) THEN s[p] ELSE t[p - Len(s)]
  OBVIOUS

LEMMA ListsConcat ==
  ASSUME NEW s, NEW t, NEW S, NEW U, Lists(s, S), Lists(t, U), \A a \in S, b \in U : Before(a, b)
  PROVE  Lists(s \o t, S \cup U)
<1> DEFINE D == 1..Len(unit)
           m == Len(s)
           n == Len(t)
           r == s \o t
<1>1. s \in Seq(D) /\ t \in Seq(D)
  BY DEF Lists
<1> HIDE DEF D
<1>2. /\ r \in Seq(D) /\ Len(r) = m + n /\ m \in Nat /\ n \in Nat
      /\ \A p \in 1..m : r[p] = s[p]
      /\ \A p \in 1..n : r[m + p] = t[p]
      /\ \A p \in 1..m + n : r[p] = IF p <= m THEN s[p] ELSE t[p - m]
  BY <1>1, ConcatFacts
<1>3. /\ \A p \in 1..m : s[p] \in S
      /\ \A p \in 1..n : t[p] \in U
      /\ \A k \in S : \E p \in 1..m : s[p] = k
      /\ \A k \in U : \E p \in 1..n : t[p] = k
      /\ \A p, q \in 1..m : p < q => Before(s[p], s[q])
      /\ \A p, q \in 1..n : p < q => Before(t[p], t[q])
  BY DEF Lists, InOrder
<1> HIDE DEF m, n, r
<1>4. \A p \in 1..m + n : r[p] \in S \cup U
  BY <1>2, <1>3
<1>5. \A k \in S : \E p \in 1..m + n : r[p] = k
  BY <1>2, <1>3
<1>6. \A k \in U : \E p \in 1..m + n : r[p] = k
  <2> SUFFICES ASSUME NEW k \in U PROVE \E p \in 1..m + n : r[p] = k
    OBVIOUS
  <2>1. PICK p \in 1..n : t[p] = k
    BY <1>3
  <2>2. m + p \in 1..m + n /\ r[m + p] = k
    BY <1>2, <2>1
  <2> QED BY <2>2
<1>7. ASSUME NEW p \in 1..m + n, NEW q \in 1..m + n, p < q PROVE Before(r[p], r[q])
  <2>1. CASE q <= m
    BY <1>2, <1>3, <1>7, <2>1
  <2>2. CASE p <= m /\ m < q
    <3>1. r[p] = s[p] /\ s[p] \in S /\ r[q] = t[q - m] /\ t[q - m] \in U
      BY <1>2, <1>3, <2>2
    <3> QED BY <3>1
  <2>3. CASE m < p
    <3>1. p - m \in 1..n /\ q - m \in 1..n /\ p - m < q - m /\ r[p] = t[p - m] /\ r[q] = t[q - m]
      BY <1>2, <1>7, <2>3
    <3> QED BY <1>3, <3>1
  <2> QED BY <1>2, <1>7, <2>1, <2>2, <2>3
<1>8. InOrder(r) /\ \A k \in S \cup U : \E p \in 1..Len(r) : r[p] = k
  BY <1>2, <1>5, <1>6, <1>7 DEF InOrder
<1>9. Lists(r, S \cup U)
  BY <1>2, <1>4, <1>8 DEF Lists, D
<1> QED BY <1>9 DEF r

(* The cursors from one on, in the same record: itself, what is inside it  *)
(* and those from the next one on.                                         *)
LEMMA InsideFirst ==
  ASSUME UnitOK, NEW i \in 1..Len(unit)
  PROVE  /\ FirstChild(i) = 0 => Inside(i) = {}
         /\ FirstChild(i) # 0 => Inside(i) = From(FirstChild(i)) /\ unit[FirstChild(i)].up = i
<1>1. Len(unit) \in Nat /\ \A k \in 1..Len(unit) : Facts(k)
  BY UnitFacts
<1>2. CASE FirstChild(i) = 0
  <2> SUFFICES ASSUME NEW k \in Inside(i) PROVE FALSE
    BY <1>2
  <2>1. k \in (i + 1)..Len(unit) /\ Spans(i, k)
    BY DEF Inside
  <2>2. i + 1 \in (i + 1)..k /\ i + 1 \in 1..Len(unit) /\ i < Len(unit)
    BY <1>1, <2>1
  <2>3. unit[i + 1].up >= i /\ unit[i + 1].up # i
    BY <1>2, <2>1, <2>2, Links DEF Spans
  <2>4. unit[i + 1].up \in Nat /\ unit[i + 1].up < i + 1
    BY <1>1, <2>2 DEF Facts, Nested
  <2> QED BY <2>3, <2>4
<1>3. CASE FirstChild(i) # 0
  <2>1. FirstChild(i) = i + 1 /\ unit[i + 1].up = i
    BY <1>3, Links
  <2> QED BY <1>3, <2>1 DEF Inside, From
<1> QED BY <1>2, <1>3

LEMMA FromParts ==
  ASSUME UnitOK, NEW j \in 1..Len(unit)
  PROVE  /\ NextChild(j) = 0 => From(j) = {j} \cup Inside(j)
         /\ NextChild(j) # 0 => /\ From(j) = ({j} \cup Inside(j)) \cup From(NextChild(j))
                                /\ \A a \in {j} \cup Inside(j) : a < NextChild(j) /\ j <= a
                                /\ unit[NextChild(j)].up < j
<1> DEFINE u == unit[j].up
           n == NextChild(j)
<1>1. Len(unit) \in Nat /\ \A k \in 1..Len(unit) : Facts(k)
  BY UnitFacts
<1>2. u \in Nat /\ u < j /\ \A k \in (u + 1)..(j - 1) : unit[k].up >= u
  BY <1>1 DEF Facts, Nested
<1>3. /\ n \in {0} \cup ((j + 1)..Len(unit))
      /\ n # 0 => unit[n].up = u
      /\ \A m \in (j + 1)..Len(unit) : unit[m].up = u => n # 0 /\ n <= m
  BY Links
<1> HIDE DEF u, n
<1>4. \A k \in (u + 1)..j : unit[k].up >= u
  BY <1>1, <1>2 DEF u
<1>5. ASSUME NEW k \in Inside(j) PROVE k \in From(j) /\ j < k /\ (n # 0 => k < n)
  <2>1. k \in (j + 1)..Len(unit) /\ \A l \in (j + 1)..k : unit[l].up >= j
    BY <1>5 DEF Inside, Spans
  <2>2. ASSUME NEW l \in (u + 1)..k PROVE unit[l].up >= u
    <3>1. CASE l <= j
      BY <1>2, <1>4, <2>1, <3>1
    <3>2. CASE j < l
      <4>1. unit[l].up >= j /\ unit[l].up \in Nat
        BY <1>1, <1>2, <2>1, <3>2 DEF Facts
      <4> QED BY <1>2, <4>1
    <3> QED BY <1>2, <2>1, <3>1, <3>2
  <2>3. Spans(unit[j].up, k)
    BY <2>2 DEF Spans, u
  <2>4. ASSUME n # 0, n <= k PROVE FALSE
    <3>1. n \in (j + 1)..k
      BY <1>3, <2>1, <2>4
    <3> QED BY <1>2, <1>3, <2>1, <2>4, <3>1
  <2> QED BY <1>3, <2>1, <2>3, <2>4 DEF From
<1>6. ASSUME NEW k \in From(j), k # j, k \notin Inside(j) PROVE n # 0 /\ k \in From(n)
  <2>1. k \in (j + 1)..Len(unit) /\ Spans(u, k) /\ ~Spans(j, k)
    BY <1>6 DEF From, Inside, u
  <2>2. PICK m \in (j + 1)..k : ~(unit[m].up >= j)
    BY <2>1 DEF Spans
  <2>3. m \in 1..Len(unit) /\ unit[m].up \in Nat /\ unit[m].up < j /\ unit[m].up >= u
    BY <1>1, <1>2, <2>1, <2>2 DEF Facts, Spans
  <2>4. \A l \in (unit[m].up + 1)..(m - 1) : unit[l].up >= unit[m].up
    BY <1>1, <2>3 DEF Facts, Nested
  <2>5. j \in (unit[m].up + 1)..(m - 1)
    BY <2>2, <2>3
  <2>6. unit[m].up = u
    BY <1>2, <2>3, <2>4, <2>5 DEF u
  <2>7. n # 0 /\ n <= m
    BY <1>3, <2>1, <2>2, <2>6
  <2> QED BY <1>3, <2>1, <2>2, <2>7 DEF From
<1>7. n # 0 => \A k \in From(n) : k \in From(j)
  BY <1>1, <1>3 DEF From, u
<1>8. j \in From(j)
  BY <1>1, <1>4 DEF From, Spans, u
<1>9. CASE n = 0
  <2>1. From(j) = {j} \cup Inside(j)
    BY <1>5, <1>6, <1>8, <1>9
  <2> QED BY <1>9, <2>1 DEF n
<1>10. CASE n # 0
  <2>1. From(j) = ({j} \cup Inside(j)) \cup From(n)
    BY <1>5, <1>6, <1>7, <1>8, <1>10
  <2>2. \A a \in {j} \cup Inside(j) : a < n /\ j <= a
    BY <1>3, <1>5, <1>10 DEF Inside
  <2> QED BY <1>2, <1>3, <1>10, <2>1, <2>2 DEF n
<1> QED BY <1>9, <1>10

LEMMA OnAbove ==
  ASSUME NEW T, NEW n \in Nat,
         \A i \in 0..n : (\A k \in (i + 1)..n : k \in T) => i \in T
  PROVE  \A i \in 0..n : i \in T
<1> DEFINE S == {m \in Nat : \A i \in 0..n : n - m < i => i \in T}
<1>1. 0 \in S
  OBVIOUS
<1>2. ASSUME NEW m \in Nat, m \in S PROVE m + 1 \in S
  <2> SUFFICES ASSUME NEW i \in 0..n, n - (m + 1) < i PROVE i \in T
    OBVIOUS
  <2>1. \A k \in (i + 1)..n : k \in T
    BY <1>2
  <2> QED BY <2>1
<1>3. Nat \subseteq S
  <2> HIDE DEF S
  <2> QED BY <1>1, <1>2, OnNat
<1> SUFFICES ASSUME NEW i \in 0..n PROVE i \in T
  OBVIOUS
<1>4. n + 1 \in S
  BY <1>3
<1> QED BY <1>4

(* Without named tags and enums in them, unnamed records hold nothing that *)
(* is collected.                                                           *)
LEMMA AnonInside ==
  ASSUME UnitOK, ~AnonNesting, NEW i \in 1..Len(unit), unit[i].kind = "struct", unit[i].name = Anon
  PROVE  \A k \in Inside(i) : unit[k].kind = "struct" /\ unit[k].name = Anon
<1>1. Len(unit) \in Nat /\ \A k \in 1..Len(unit) : Facts(k)
  BY UnitFacts
<1> DEFINE T == {k \in 0..Len(unit) : k \in Inside(i) => unit[k].kind = "struct" /\ unit[k].name = Anon}
<1>2. ASSUME NEW k \in 0..Len(unit), \A l \in 0..Len(unit) : l < k => l \in T PROVE k \in T
  <2> SUFFICES ASSUME k \in Inside(i) PROVE unit[k].kind = "struct" /\ unit[k].name = Anon
    OBVIOUS
  <2>1. k \in (i + 1)..Len(unit) /\ \A l \in (i + 1)..k : unit[l].up >= i
    BY DEF Inside, Spans
  <2>2. /\ unit[k].up \in Nat /\ unit[k].up < k /\ unit[k].up >= i /\ unit[k].up # 0
        /\ Tagged(k) /\ Formed(unit[k])
    BY <1>1, <2>1 DEF Facts, Nested
  <2>3. unit[unit[k].up].name = Anon
    <3>1. CASE unit[k].up = i
      BY <3>1
    <3>2. CASE unit[k].up # i
      <4>1. unit[k].up \in (i + 1)..Len(unit) /\ unit[k].up < k
        BY <1>1, <2>1, <2>2, <3>2
      <4>2. \A l \in (i + 1)..unit[k].up : unit[l].up >= i
        BY <2>1, <4>1
      <4>3. unit[k].up \in Inside(i) /\ unit[k].up \in 0..Len(unit)
        BY <1>1, <4>1, <4>2 DEF Inside, Spans
      <4> QED BY <1>2, <4>1, <4>3
    <3> QED BY <3>1, <3>2
  <2>4. IsTag(unit[k])
    BY <2>2 DEF Formed, IsTag
  <2> QED BY <2>2, <2>3, <2>4 DEF Tagged
<1>3. \A k \in 0..Len(unit) : k \in T
  <2> HIDE DEF T
  <2> QED BY <1>1, <1>2, OnBelow
<1> QED BY <1>1, <1>3 DEF Inside

Collected(S) == {k \in S : Collects(k)}

LEMMA CollectedHere ==
  ASSUME UnitOK, ~AnonNesting, NEW j \in 1..Len(unit), NEW s, Lists(s, Collected(Inside(j)))
  PROVE  Lists(IF Collect(j) THEN s \o (IF HasType(j) THEN <<j>> ELSE <<>>) ELSE <<>>,
               Collected({j} \cup Inside(j)))
<1>1. Len(unit) \in Nat /\ unit[j] \in CursorType
  BY UnitFacts DEF Facts
<1>2. CASE ~Collect(j)
  <2>1. unit[j].kind = "struct" /\ unit[j].name = Anon
    BY <1>2 DEF Collect, IsAnonymous, IsTag
  <2>2. \A k \in {j} \cup Inside(j) : unit[k].kind = "struct" /\ unit[k].name = Anon
    BY <2>1, AnonInside
  <2>3. \A k \in {j} \cup Inside(j) : ~Collects(k)
    BY <2>2 DEF Collects, Collect, IsAnonymous, IsTag
  <2>4. Collected({j} \cup Inside(j)) = {}
    BY <2>3 DEF Collected
  <2> QED BY <1>2, <2>4, ListsNone
<1>3. CASE Collect(j) /\ ~HasType(j)
  <2>1. ~Collects(j)
    BY <1>3 DEF Collects
  <2>2. Collected({j} \cup Inside(j)) = Collected(Inside(j)) \cup {}
    BY <2>1 DEF Collected
  <2>3. Lists(s \o <<>>, Collected(Inside(j)) \cup {})
    BY ListsNone, ListsConcat
  <2> QED BY <1>3, <2>2, <2>3
<1>4. CASE Collect(j) /\ HasType(j)
  <2>1. Collects(j)
    BY <1>4 DEF Collects
  <2>2. Collected({j} \cup Inside(j)) = Collected(Inside(j)) \cup {j}
    BY <2>1 DEF Collected
  <2>3. Lists(<<j>>, {j})
    BY ListsOne
  <2>4. ASSUME NEW a \in Collected(Inside(j)), NEW b \in {j} PROVE Before(a, b)
    <3>1. a \in (j + 1)..Len(unit) /\ Spans(j, a) /\ b = j
      BY <2>4 DEF Collected, Inside
    <3> QED BY <1>1, <3>1 DEF Before
  <2>5. Lists(s \o <<j>>, Collected(Inside(j)) \cup {j})
    BY <2>3, <2>4, ListsConcat
  <2> QED BY <1>4, <2>2, <2>5
<1> QED BY <1>2, <1>3, <1>4

LEMMA PostOrderLists ==
  ASSUME UnitOK, ~AnonNesting
  PROVE  /\ PostOrder[0] = <<>>
         /\ \A j \in 1..Len(unit) : unit[j].up # 0 => Lists(PostOrder[j], Collected(From(j)))
<1>1. Len(unit) \in Nat /\ \A k \in 1..Len(unit) : Facts(k)
  BY UnitFacts
<1>2. PostOrder[0] = <<>>
  <2>1. PostOrder[0] = CollectFrom(PostOrder, 0)
    <3>1. 0 \in 0..Len(unit)
      BY <1>1
    <3> QED BY <3>1, PostDef
  <2>2. \A f : CollectFrom(f, 0) = <<>>
    BY DEF CollectFrom
  <2> QED BY <2>1, <2>2
<1> DEFINE T == {j \in 0..Len(unit) : j # 0 => (unit[j].up # 0 => Lists(PostOrder[j], Collected(From(j))))}
<1>3. ASSUME NEW j \in 0..Len(unit), \A k \in (j + 1)..Len(unit) : k \in T PROVE j \in T
  <2> SUFFICES ASSUME j # 0, unit[j].up # 0 PROVE Lists(PostOrder[j], Collected(From(j)))
    OBVIOUS
  <2> DEFINE c == FirstChild(j)
             n == NextChild(j)
             A == IF Collect(j) THEN PostOrder[c] \o (IF HasType(j) THEN <<j>> ELSE <<>>) ELSE <<>>
  <2>1. j \in 1..Len(unit)
    OBVIOUS
  <2>2. PostOrder[j] = A \o PostOrder[n]
    BY <2>1, PostDef DEF CollectFrom
  <2>3. \A k \in (j + 1)..Len(unit) : unit[k].up # 0 => Lists(PostOrder[k], Collected(From(k)))
    BY <1>3
  <2>4. Lists(PostOrder[c], Collected(Inside(j)))
    <3>1. CASE c = 0
      <4>1. Inside(j) = {}
        BY <2>1, <3>1, InsideFirst
      <4>2. Collected(Inside(j)) = {}
        BY <4>1 DEF Collected
      <4> QED BY <1>2, <3>1, <4>2, ListsNone
    <3>2. CASE c # 0
      <4>1. c \in (j + 1)..Len(unit)
        BY <2>1, <3>2, Links
      <4>2. Inside(j) = From(c) /\ unit[c].up = j
        BY <2>1, <3>2, InsideFirst
      <4> HIDE DEF c
      <4> QED BY <2>1, <2>3, <4>1, <4>2
    <3> QED BY <3>1, <3>2
  <2>5. Lists(A, Collected({j} \cup Inside(j)))
    BY <2>1, <2>4, CollectedHere
  <2> HIDE DEF A
  <2>6. CASE n = 0
    <3>1. From(j) = {j} \cup Inside(j)
      BY <2>1, <2>6, FromParts
    <3>2. Lists(A \o <<>>, Collected({j} \cup Inside(j)) \cup {})
      BY <2>5, ListsNone, ListsConcat
    <3> QED BY <1>2, <2>2, <2>6, <3>1, <3>2
  <2>7. CASE n # 0
    <3>1. n \in (j + 1)..Len(unit) /\ unit[n].up = unit[j].up
      BY <2>1, <2>7, Links
    <3>2. /\ From(j) = ({j} \cup Inside(j)) \cup From(n)
          /\ \A a \in {j} \cup Inside(j) : a < n /\ j <= a
          /\ unit[n].up < j
      BY <2>1, <2>7, FromParts
    <3> HIDE DEF n
    <3>3. Lists(PostOrder[n], Collected(From(n)))
      BY <2>3, <3>1
    <3>4. ASSUME NEW a \in Collected({j} \cup Inside(j)), NEW b \in Collected(From(n)) PROVE Before(a, b)
      <4>1. a \in 1..Len(unit) /\ a < n /\ j <= a /\ b \in n..Len(unit)
        BY <1>1, <2>1, <3>1, <3>2 DEF Collected, Inside, From
      <4>2. n \in (a + 1)..b /\ unit[n].up \in Nat /\ ~(unit[n].up >= a)
        BY <1>1, <2>1, <3>1, <3>2, <4>1 DEF Facts
      <4>3. ~Spans(a, b)
        BY <4>2 DEF Spans
      <4> QED BY <1>1, <3>1, <4>1, <4>3 DEF Before
    <3>5. Lists(A \o PostOrder[n], Collected({j} \cup Inside(j)) \cup Collected(From(n)))
      BY <2>5, <3>3, <3>4, ListsConcat
    <3>6. Collected(From(j)) = Collected({j} \cup Inside(j)) \cup Collected(From(n))
      BY <3>2 DEF Collected
    <3> QED BY <2>2, <3>5, <3>6
  <2> QED BY <2>6, <2>7
<1>4. \A j \in 0..Len(unit) : j \in T
  <2> HIDE DEF T
  <2> QED BY <1>1, <1>3, OnAbove
<1>5. ASSUME NEW j \in 1..Len(unit), unit[j].up # 0 PROVE Lists(PostOrder[j], Collected(From(j)))
  <2>1. j \in T
    <3> HIDE DEF T
    <3> QED BY <1>1, <1>4
  <2> QED BY <1>5, <2>1
<1> QED BY <1>2, <1>5

LEMMA NestedLists ==
  ASSUME UnitOK, ~AnonNesting, NEW i \in 1..Len(unit)
  PROVE  Lists(PostOrder[FirstChild(i)], Collected(Inside(i)))
<1>1. CASE FirstChild(i) = 0
  <2>1. Inside(i) = {} /\ PostOrder[0] = <<>>
    BY <1>1, InsideFirst, PostOrderLists
  <2>2. Collected(Inside(i)) = {}
    BY <2>1 DEF Collected
  <2> QED BY <1>1, <2>1, <2>2, ListsNone
<1>2. CASE FirstChild(i) # 0
  <2>1. FirstChild(i) \in (i + 1)..Len(unit) /\ Inside(i) = From(FirstChild(i)) /\ unit[FirstChild(i)].up = i
    BY <1>2, InsideFirst, Links
  <2>2. Len(unit) \in Nat
    BY UnitFacts
  <2>3. FirstChild(i) \in 1..Len(unit) /\ unit[FirstChild(i)].up # 0
    BY <2>1, <2>2
  <2> QED BY <2>1, <2>3, PostOrderLists
<1> QED BY <1>1, <1>2

-----------------------------------------------------------------------------
(* The cursors that a declaration comes from, and the declaration.         *)
Yields(i) ==
  \/ unit[i].kind = "enum"
  \/ unit[i].kind = "struct" /\ (unit[i].up = 0 \/ Collects(i))
  \/ unit[i].kind = "typedef" /\ ~SelfReference(i)
  \/ unit[i].kind = "func"

DeclAt(i) ==
  CASE unit[i].kind = "enum" -> ProcessEnumDecl(i)
    [] unit[i].kind = "struct" -> TypeDecl(i)
    [] unit[i].kind = "typedef" -> ProcessTypeDefDecl(i)[1]
    [] unit[i].kind = "func" -> ProcessFuncDecl(i)[1]
    [] OTHER -> Nil

Made(s) == [k \in 1..Len(s) |-> DeclAt(s[k])]

(* The cursors that have been dealt with when the next one is n: those     *)
(* inside the last one are.                                                *)
Done(n, i) == i < n \/ \A k \in n..i : unit[k].up # 0
Yielded(n) == {i \in 1..Len(unit) : Done(n, i) /\ Yields(i)}

DeclsOK == \E src : Lists(src, Yielded(at)) /\ decls = Made(src)

FileOK ==
  file = [kind |-> "File", decls |-> file.decls, includes |-> file.includes, macros |-> file.macros]

ParserInv ==
  /\ UnitOK /\ ChainsOK /\ FileOK
  /\ phase \in {"source", "visit", "parsed", "done"}
  /\ at \in 1..Len(unit) + 1
  /\ phase = "source" => at = 1 /\ decls = <<>>
  /\ phase \in {"parsed", "done"} => at = Len(unit) + 1
  /\ DeclsOK

LEMMA SameSeq ==
  ASSUME NEW D, NEW s \in Seq(D), NEW t \in Seq(D), Len(s) = Len(t), \A p \in 1..Len(s) : s[p] = t[p]
  PROVE  s = t
  OBVIOUS

LEMMA MadeSeq ==
  ASSUME NEW D, NEW s \in Seq(D)
  PROVE  /\ Made(s) \in Seq({DeclAt(i) : i \in D}) /\ Len(Made(s)) = Len(s) /\ Len(s) \in Nat
         /\ \A p \in 1..Len(s) : Made(s)[p] = DeclAt(s[p])
<1> DEFINE d(i) == DeclAt(i)
           v == [k \in 1..Len(s) |-> d(s[k])]
<1> HIDE DEF d
<1>1. /\ v \in Seq({d(i) : i \in D}) /\ Len(v) = Len(s) /\ Len(s) \in Nat
      /\ \A p \in 1..Len(s) : v[p] = d(s[p])
  OBVIOUS
<1>2. v = Made(s)
  BY DEF Made, d
<1> HIDE DEF v
<1> QED BY <1>1, <1>2 DEF d

LEMMA MadeConcat ==
  ASSUME NEW D, NEW s \in Seq(D), NEW t \in Seq(D)
  PROVE  Made(s \o t) = Made(s) \o Made(t)
<1> DEFINE r == s \o t
           m == Made(s)
           n == Made(t)
           E == {DeclAt(i) : i \in D}
<1>1. /\ r \in Seq(D) /\ Len(r) = Len(s) + Len(t) /\ Len(s) \in Nat /\ Len(t) \in Nat
      /\ \A p \in 1..Len(s) + Len(t) : r[p] = IF p <= Len(s) THEN s[p] ELSE t[p - Len(s)]
  BY ConcatFacts
<1> HIDE DEF r
<1>2. m \in Seq(E) /\ Len(m) = Len(s) /\ \A p \in 1..Len(s) : m[p] = DeclAt(s[p])
  BY MadeSeq
<1>3. n \in Seq(E) /\ Len(n) = Len(t) /\ \A p \in 1..Len(t) : n[p] = DeclAt(t[p])
  BY MadeSeq
<1>4. Made(r) \in Seq(E) /\ Len(Made(r)) = Len(r) /\ \A p \in 1..Len(r) : Made(r)[p] = DeclAt(r[p])
  BY <1>1, MadeSeq
<1> HIDE DEF m, n, E
<1>5. /\ m \o n \in Seq(E) /\ Len(m \o n) = Len(m) + Len(n)
      /\ \A p \in 1..Len(m) + Len(n) : (m \o n)[p] = IF p <= Len(m) THEN m[p] ELSE n[p - Len(m)]
  <2>1. m \in Seq(E) /\ n \in Seq(E)
    BY <1>2, <1>3
  <2> QED BY <2>1, ConcatFacts
<1>6. ASSUME NEW p \in 1..Len(s) + Len(t) PROVE Made(r)[p] = (m \o n)[p]
  <2>1. Made(r)[p] = DeclAt(r[p]) /\ (m \o n)[p] = IF p <= Len(s) THEN m[p] ELSE n[p - Len(s)]
    BY <1>1, <1>2, <1>3, <1>4, <1>5
  <2>2. CASE p <= Len(s)
    <3>1. p \in 1..Len(s) /\ r[p] = s[p]
      BY <1>1, <2>2
    <3> QED BY <1>2, <2>1, <2>2, <3>1
  <2>3. CASE Len(s) < p
    <3>1. p - Len(s) \in 1..Len(t) /\ r[p] = t[p - Len(s)] /\ ~(p <= Len(s))
      BY <1>1, <2>3
    <3> QED BY <1>3, <2>1, <3>1
  <2>4. p <= Len(s) \/ Len(s) < p
    BY <1>1
  <2> QED BY <2>2, <2>3, <2>4
<1>7. Made(r) = m \o n
  <2>1. Len(Made(r)) = Len(m \o n) /\ \A p \in 1..Len(Made(r)) : Made(r)[p] = (m \o n)[p]
    BY <1>1, <1>2, <1>3, <1>4, <1>5, <1>6
  <2> QED BY <1>4, <1>5, <2>1, SameSeq
<1> QED BY <1>7 DEF m, n, r

LEMMA MadeOne == ASSUME NEW i PROVE Made(<<i>>) = <<DeclAt(i)>>
<1>1. Len(<<i>>) = 1 /\ <<i>>[1] = i
  OBVIOUS
<1> QED BY <1>1 DEF Made

LEMMA MadeNone == Made(<<>>) = <<>>
  BY DEF Made

-----------------------------------------------------------------------------
(* What one more cursor adds to those that have been dealt with.           *)
LEMMA DoneTop ==
  ASSUME UnitOK, NEW n \in 1..Len(unit), unit[n].up = 0
  PROVE  /\ \A i \in 1..Len(unit) : Done(n + 1, i) <=> Done(n, i) \/ i \in {n} \cup Inside(n)
         /\ \A i \in 1..Len(unit) : Done(n, i) => i < n
<1>1. Len(unit) \in Nat /\ \A k \in 1..Len(unit) : Facts(k)
  BY UnitFacts
<1>2. ASSUME NEW i \in 1..Len(unit), Done(n, i) PROVE i < n
  <2>1. CASE ~(i < n)
    <3>1. n \in n..i
      BY <1>1, <2>1
    <3> QED BY <1>2, <2>1, <3>1 DEF Done
  <2> QED BY <2>1
<1>3. ASSUME NEW i \in 1..Len(unit), n < i
      PROVE  (\A k \in (n + 1)..i : unit[k].up # 0) <=> i \in Inside(n)
  <2>1. ASSUME NEW k \in (n + 1)..i, unit[k].up # 0 PROVE unit[k].up >= n
    <3>1. /\ unit[k].up \in Nat /\ unit[k].up < k
          /\ \A l \in (unit[k].up + 1)..(k - 1) : unit[l].up >= unit[k].up
      BY <1>1, <1>3, <2>1 DEF Facts, Nested
    <3>2. CASE unit[k].up < n
      <4>1. n \in (unit[k].up + 1)..(k - 1)
        BY <1>1, <2>1, <3>1, <3>2
      <4> QED BY <2>1, <3>1, <4>1
    <3> QED BY <3>1, <3>2
  <2>2. \A k \in (n + 1)..i : unit[k].up \in Nat
    BY <1>1, <1>3 DEF Facts
  <2>3. i \in (n + 1)..Len(unit)
    BY <1>1, <1>3
  <2>4. i \in Inside(n) <=> \A k \in (n + 1)..i : unit[k].up >= n
    BY <2>3 DEF Inside, Spans
  <2>5. ASSUME NEW k \in (n + 1)..i PROVE (unit[k].up # 0) <=> (unit[k].up >= n)
    BY <2>1, <2>2
  <2> QED BY <2>4, <2>5
<1>4. ASSUME NEW i \in 1..Len(unit)
      PROVE  Done(n + 1, i) <=> Done(n, i) \/ i \in {n} \cup Inside(n)
  <2>1. CASE i < n
    BY <1>1, <2>1 DEF Done
  <2>2. CASE i = n
    BY <1>1, <2>2 DEF Done
  <2>3. CASE n < i
    <3>1. Done(n + 1, i) <=> \A k \in (n + 1)..i : unit[k].up # 0
      BY <1>1, <2>3 DEF Done
    <3>2. ~Done(n, i)
      BY <1>2, <2>3
    <3> QED BY <1>3, <2>3, <3>1, <3>2
  <2> QED BY <1>1, <2>1, <2>2, <2>3
<1> QED BY <1>2, <1>4

LEMMA DoneNested ==
  ASSUME UnitOK, NEW n \in 1..Len(unit), unit[n].up # 0
  PROVE  \A i \in 1..Len(unit) : Done(n + 1, i) <=> Done(n, i)
<1>1. Len(unit) \in Nat
  BY UnitFacts
<1> SUFFICES ASSUME NEW i \in 1..Len(unit) PROVE Done(n + 1, i) <=> Done(n, i)
  OBVIOUS
<1>2. CASE i < n
  BY <1>1, <1>2 DEF Done
<1>3. CASE ~(i < n)
  <2>1. \A k \in n..i : k = n \/ k \in (n + 1)..i
    BY <1>1
  <2>2. \A k \in (n + 1)..i : k \in n..i
    BY <1>1
  <2>3. n \in n..i
    BY <1>1, <1>3
  <2>4. i < n + 1 => i = n
    BY <1>1, <1>3
  <2> QED BY <1>3, <2>1, <2>2, <2>3, <2>4 DEF Done
<1> QED BY <1>2, <1>3

LEMMA AddsLists ==
  ASSUME UnitOK, NEW n \in 1..Len(unit), unit[n].up = 0, NEW src, Lists(src, Yielded(n)),
         NEW t, Lists(t, {i \in {n} \cup Inside(n) : Yields(i)})
  PROVE  Lists(src \o t, Yielded(n + 1)) /\ Made(src \o t) = Made(src) \o Made(t)
<1> DEFINE New == {i \in {n} \cup Inside(n) : Yields(i)}
<1>1. Len(unit) \in Nat /\ \A k \in 1..Len(unit) : Facts(k)
  BY UnitFacts
<1>2. \A i \in Inside(n) : i \in 1..Len(unit) /\ n < i
  BY <1>1 DEF Inside
<1>3. Yielded(n + 1) = Yielded(n) \cup New
  <2>1. \A i \in 1..Len(unit) : Done(n + 1, i) <=> Done(n, i) \/ i \in {n} \cup Inside(n)
    BY DoneTop
  <2> QED BY <1>2, <2>1 DEF Yielded
<1>4. ASSUME NEW a \in Yielded(n), NEW b \in New PROVE Before(a, b)
  <2>1. a \in 1..Len(unit) /\ a < n
    BY DoneTop DEF Yielded
  <2>2. b \in 1..Len(unit) /\ n <= b
    BY <1>1, <1>2
  <2>3. n \in (a + 1)..b /\ ~(unit[n].up >= a)
    BY <1>1, <2>1, <2>2
  <2>4. ~Spans(a, b)
    BY <2>3 DEF Spans
  <2> QED BY <1>1, <2>1, <2>2, <2>4 DEF Before
<1>5. Lists(src \o t, Yielded(n) \cup New)
  <2> HIDE DEF New
  <2>1. Lists(t, New)
    BY DEF New
  <2> QED BY <1>4, <2>1, ListsConcat
<1>6. src \in Seq(1..Len(unit)) /\ t \in Seq(1..Len(unit))
  BY DEF Lists
<1> QED BY <1>3, <1>5, <1>6, MadeConcat

-----------------------------------------------------------------------------
(* A step that leaves the unit alone leaves what is said of it.            *)
LEMMA SameUnitOK == ASSUME UnitOK, unit' = unit PROVE UnitOK'
<1>1. ASSUME NEW i \in 1..Len(unit) PROVE CursorOK(i)'
  <2>1. Nested(i) /\ Uses(i) /\ Tagged(i) /\ Differs(i)
    BY DEF UnitOK, CursorOK
  <2>2. Nested(i)'
    BY <2>1 DEF Nested
  <2>3. Uses(i)'
    BY <2>1 DEF Uses, FunctionType, IsTypedef
  <2>4. Tagged(i)'
    BY <2>1 DEF Tagged
  <2>5. Differs(i)'
    BY <2>1 DEF Differs
  <2> QED BY <2>2, <2>3, <2>4, <2>5 DEF CursorOK
<1> QED BY <1>1 DEF UnitOK

LEMMA SameCursors ==
  ASSUME unit' = unit
  PROVE  Resolved' = Resolved /\ NestedFields' = NestedFields /\ PostOrder' = PostOrder
<1>1. Resolved' = Resolved
  BY DEF Resolved, ChainEnd
<1>2. NestedFields' = NestedFields
  BY DEF NestedFields, FieldsFrom, NestedType, RecordType, OwnFields, ProcessType, NamedType,
         FirstChild, NextChild, IsAnonymous, IsTag
<1>3. PostOrder' = PostOrder
  BY DEF PostOrder, CollectFrom, Collect, HasType, FirstChild, NextChild, IsAnonymous, IsTag
<1> QED BY <1>1, <1>2, <1>3

LEMMA SameChains == ASSUME ChainsOK, unit' = unit PROVE ChainsOK'
<1>1. Resolved' = Resolved
  BY SameCursors
<1> SUFFICES ASSUME NEW i \in 1..Len(unit) PROVE Leads(i)'
  BY DEF ChainsOK
<1>2. Leads(i)
  BY DEF ChainsOK
<1>3. ASSUME NEW k PROVE getActualTypeCursor(k)' = getActualTypeCursor(k) /\ ActualName(k)' = ActualName(k)
  BY <1>1 DEF getActualTypeCursor, ActualName, IsTypedef
<1>4. ASSUME NEW k PROVE Enclosing(k)' = Enclosing(k)
  BY DEF Enclosing, Spans
<1>5. /\ ActualName(unit[i].to)' = ActualName(unit[i].to)
      /\ getActualTypeCursor(unit[i].to)' = getActualTypeCursor(unit[i].to)
      /\ Enclosing(unit[i].up)' = Enclosing(unit[i].up)
  BY <1>1 DEF getActualTypeCursor, ActualName, IsTypedef, Enclosing, Spans
<1> QED BY <1>2, <1>5 DEF Leads

LEMMA SameDecls ==
  ASSUME unit' = unit, NEW i
  PROVE  DeclAt(i)' = DeclAt(i) /\ (Yields(i)' <=> Yields(i))
<1>1. Resolved' = Resolved /\ NestedFields' = NestedFields
  BY SameCursors
<1>2. \A k : ActualName(k)' = ActualName(k)
  BY <1>1 DEF getActualTypeCursor, ActualName, IsTypedef
<1>3. SelfReference(i)' <=> SelfReference(i)
  BY <1>1 DEF SelfReference, getActualTypeCursor, ActualName, IsTypedef
<1>4. ProcessEnumDecl(i)' = ProcessEnumDecl(i)
  BY DEF ProcessEnumDecl, DeclOf, Parent, NameOf, ProcessEnumType, IsAnonymous, IsTag
<1>5. TypeDecl(i)' = TypeDecl(i)
  BY <1>1 DEF TypeDecl, DeclOf, Parent, NameOf, ProcessRecordType, RecordType, OwnFields, ProcessType,
              NamedType, FirstChild, IsAnonymous, IsTag
<1>6. ProcessTypeDefDecl(i)' = ProcessTypeDefDecl(i)
  <2>1. ProcessType(unit[i].to, unit[i].shape)' = ProcessType(unit[i].to, unit[i].shape)
    BY DEF ProcessType, NamedType, IsTag
  <2>2. DeclOf("TypedefDecl", i, Ident(unit[i].name), ProcessType(unit[i].to, unit[i].shape))'
          = DeclOf("TypedefDecl", i, Ident(unit[i].name), ProcessType(unit[i].to, unit[i].shape))
    BY <2>1 DEF DeclOf, Parent, IsAnonymous, IsTag
  <2> QED BY <1>3, <2>2 DEF ProcessTypeDefDecl
<1>7. ProcessFuncDecl(i)' = ProcessFuncDecl(i)
  <2>1. FuncTypeOf(i)' = FuncTypeOf(i)
    BY <1>1 DEF FuncTypeOf, getActualType, ProcessType, NamedType, IsTypedef, IsTag
  <2> QED BY <2>1 DEF ProcessFuncDecl, Parent, IsAnonymous, IsTag
<1>8. DeclAt(i)' = DeclAt(i)
  BY <1>4, <1>5, <1>6, <1>7 DEF DeclAt
<1>9. Yields(i)' <=> Yields(i)
  BY <1>3 DEF Yields, Collects, Collect, HasType, IsAnonymous, IsTag
<1> QED BY <1>8, <1>9

LEMMA SameLists ==
  ASSUME unit' = unit, NEW s, NEW n
  PROVE  Made(s)' = Made(s) /\ Yielded(n)' = Yielded(n) /\ \A S : Lists(s, S)' <=> Lists(s, S)
<1>1. Made(s)' = Made(s)
  BY SameDecls DEF Made
<1>2. Yielded(n)' = Yielded(n)
  BY SameDecls DEF Yielded, Done
<1>3. \A S : Lists(s, S)' <=> Lists(s, S)
  BY DEF Lists, InOrder, Before, Spans
<1> QED BY <1>1, <1>2, <1>3

-----------------------------------------------------------------------------
(* What a cursor at the top yields, with all that is inside it.            *)
Top(n) == {i \in {n} \cup Inside(n) : Yields(i)}

LEMMA NoInside ==
  ASSUME UnitOK, NEW n \in 1..Len(unit), unit[n].kind # "struct" PROVE Inside(n) = {}
<1>1. FirstChild(n) = 0
  <2> SUFFICES ASSUME FirstChild(n) # 0 PROVE FALSE
    OBVIOUS
  <2>1. FirstChild(n) \in (n + 1)..Len(unit) /\ unit[FirstChild(n)].up = n
    BY Links, InsideFirst
  <2>2. Len(unit) \in Nat /\ FirstChild(n) \in 1..Len(unit)
    BY <2>1, UnitFacts
  <2>3. Nested(FirstChild(n)) /\ n # 0
    BY <2>2, UnitFacts DEF Facts
  <2> QED BY <2>1, <2>3 DEF Nested
<1> QED BY <1>1, InsideFirst

LEMMA TopAlone ==
  ASSUME UnitOK, NEW n \in 1..Len(unit), unit[n].kind # "struct"
  PROVE  Lists(IF Yields(n) THEN <<n>> ELSE <<>>, Top(n))
<1>1. Inside(n) = {}
  BY NoInside
<1>2. CASE Yields(n)
  <2>1. Top(n) = {n}
    BY <1>1, <1>2 DEF Top
  <2> QED BY <1>2, <2>1, ListsOne
<1>3. CASE ~Yields(n)
  <2>1. Top(n) = {}
    BY <1>1, <1>3 DEF Top
  <2> QED BY <1>3, <2>1, ListsNone
<1> QED BY <1>2, <1>3

LEMMA InsideKinds ==
  ASSUME UnitOK, NEW n \in 1..Len(unit), NEW i \in Inside(n)
  PROVE  /\ i \in 1..Len(unit) /\ n < i /\ unit[i].up >= n /\ unit[i].up # 0
         /\ unit[i].kind \in {"struct", "enum"} /\ (Yields(i) <=> Collects(i))
<1>1. Len(unit) \in Nat /\ \A k \in 1..Len(unit) : Facts(k)
  BY UnitFacts
<1>2. i \in 1..Len(unit) /\ i \in (n + 1)..i /\ n < i /\ \A k \in (n + 1)..i : unit[k].up >= n
  BY <1>1 DEF Inside, Spans
<1>3. unit[i].up \in Nat /\ unit[i].up >= n /\ unit[i].up # 0 /\ Formed(unit[i]) /\ unit[i] \in CursorType
  BY <1>1, <1>2 DEF Facts
<1>4. unit[i].kind \in {"struct", "enum"}
  BY <1>3 DEF Formed
<1>5. Yields(i) <=> Collects(i)
  BY <1>3, <1>4 DEF Yields, Collects, Collect, HasType
<1> QED BY <1>2, <1>3, <1>4, <1>5

LEMMA TopStruct ==
  ASSUME UnitOK, ~AnonNesting, NEW n \in 1..Len(unit), unit[n].kind = "struct", unit[n].up = 0
  PROVE  \E t : Lists(t, Top(n)) /\ ProcessRecordDecl(n) = Made(t)
<1> DEFINE s == PostOrder[FirstChild(n)]
<1>1. Lists(s, Collected(Inside(n)))
  BY NestedLists
<1>2. Len(unit) \in Nat
  BY UnitFacts
<1>3. Lists(<<n>>, {n})
  BY ListsOne
<1>4. ASSUME NEW a \in Collected(Inside(n)), NEW b \in {n} PROVE Before(a, b)
  <2>1. a \in (n + 1)..Len(unit) /\ Spans(n, a) /\ b = n
    BY <1>4 DEF Collected, Inside
  <2> QED BY <1>2, <2>1 DEF Before
<1>5. Lists(s \o <<n>>, Collected(Inside(n)) \cup {n})
  BY <1>1, <1>3, <1>4, ListsConcat
<1>6. Top(n) = Collected(Inside(n)) \cup {n}
  <2>1. \A i \in Inside(n) : Yields(i) <=> Collects(i)
    BY InsideKinds
  <2>2. Yields(n)
    BY DEF Yields
  <2> QED BY <2>1, <2>2 DEF Top, Collected
<1>7. NestedDecls(n) = Made(s)
  <2>1. NestedDecls(n) = [k \in DOMAIN s |-> NestedDecl(s[k])]
    BY DEF NestedDecls
  <2>2. s \in Seq(1..Len(unit)) /\ DOMAIN s = 1..Len(s) /\ \A k \in 1..Len(s) : s[k] \in Inside(n)
    BY <1>1 DEF Lists, Collected
  <2> HIDE DEF s
  <2>3. ASSUME NEW k \in 1..Len(s) PROVE NestedDecl(s[k]) = DeclAt(s[k])
    <3>1. unit[s[k]].kind \in {"struct", "enum"}
      BY <2>2, InsideKinds
    <3> QED BY <3>1 DEF NestedDecl, DeclAt
  <2> QED BY <2>1, <2>2, <2>3 DEF Made
<1>8. DeclAt(n) = TypeDecl(n)
  BY DEF DeclAt
<1>9. s \in Seq(1..Len(unit)) /\ <<n>> \in Seq(1..Len(unit))
  BY <1>1, <1>3 DEF Lists
<1> HIDE DEF s
<1>10. Made(s) \in Seq({DeclAt(i) : i \in 1..Len(unit)})
  BY <1>9, MadeSeq
<1>11. ProcessRecordDecl(n) = Made(s) \o <<DeclAt(n)>>
  BY <1>7, <1>8, <1>10 DEF ProcessRecordDecl
<1>12. ProcessRecordDecl(n) = Made(s \o <<n>>)
  BY <1>9, <1>11, MadeConcat, MadeOne
<1> QED BY <1>5, <1>6, <1>12

LEMMA TopOther ==
  ASSUME UnitOK, NEW n \in 1..Len(unit)
  PROVE  /\ unit[n].kind = "enum" => Yields(n) /\ <<ProcessEnumDecl(n)>> = Made(<<n>>)
         /\ unit[n].kind = "typedef" =>
              ProcessTypeDefDecl(n) = IF Yields(n) THEN Made(<<n>>) ELSE <<>>
         /\ unit[n].kind = "func" =>
              Yields(n) /\ ProcessFuncDecl(n) = Made(<<n>>) /\ ProcessFuncDecl(n) # <<>>
         /\ unit[n].kind \in {"macro", "include"} => ~Yields(n)
<1>1. Made(<<n>>) = <<DeclAt(n)>>
  BY MadeOne
<1>2. unit[n].kind = "enum" => Yields(n) /\ <<ProcessEnumDecl(n)>> = Made(<<n>>)
  BY <1>1 DEF Yields, DeclAt
<1>3. ASSUME unit[n].kind = "typedef"
      PROVE  ProcessTypeDefDecl(n) = IF Yields(n) THEN Made(<<n>>) ELSE <<>>
  <2>1. Yields(n) <=> ~SelfReference(n)
    BY <1>3 DEF Yields
  <2>2. DeclAt(n) = ProcessTypeDefDecl(n)[1]
    BY <1>3 DEF DeclAt
  <2>3. \A d : <<d>>[1] = d
    OBVIOUS
  <2> QED BY <1>1, <2>1, <2>2, <2>3 DEF ProcessTypeDefDecl
<1>4. ASSUME unit[n].kind = "func"
      PROVE  Yields(n) /\ ProcessFuncDecl(n) = Made(<<n>>) /\ ProcessFuncDecl(n) # <<>>
  <2>1. Yields(n) /\ DeclAt(n) = ProcessFuncDecl(n)[1]
    BY <1>4 DEF Yields, DeclAt
  <2>2. FuncTypeOf(n).kind = "FuncType"
    <3>1. CASE unit[n].shape # "named"
      BY <3>1 DEF FuncTypeOf, FuncType
    <3>2. CASE unit[n].shape = "named"
      <4>1. FunctionType(unit[n].to) /\ unit[n].to \in 1..Len(unit)
        BY <3>2, UnitFacts DEF Facts, Uses, FunctionType, IsTypedef
      <4>2. Resolved[unit[n].to] = unit[n].to
        BY <4>1, ResolvedFacts DEF FunctionType
      <4> QED BY <3>2, <4>1, <4>2 DEF FuncTypeOf, getActualType, FunctionType, ProcessType, FuncType
    <3> QED BY <3>1, <3>2
  <2>3. \A d : <<d>>[1] = d /\ <<d>> # <<>>
    OBVIOUS
  <2> QED BY <1>1, <2>1, <2>2, <2>3 DEF ProcessFuncDecl
<1>5. unit[n].kind \in {"macro", "include"} => ~Yields(n)
  BY DEF Yields
<1> QED BY <1>2, <1>3, <1>4, <1>5

-----------------------------------------------------------------------------
LEMMA Listed ==
  ASSUME unit' = unit, NEW n, at' = n, NEW src, Lists(src, Yielded(n)), decls' = Made(src)
  PROVE  DeclsOK'
<1>1. Made(src)' = Made(src) /\ Yielded(n)' = Yielded(n) /\ \A S : Lists(src, S)' <=> Lists(src, S)
  BY SameLists
<1>2. Yielded(at)' = Yielded(n)'
  BY DEF Yielded, Done
<1>3. Lists(src, Yielded(at))'
  <2>1. Lists(src, Yielded(n))'
    BY <1>1 DEF Lists, InOrder, Before, Spans
  <2> QED BY <1>2, <2>1 DEF Lists
<1> QED BY <1>1, <1>3 DEF DeclsOK

LEMMA Adds ==
  ASSUME FileOK, NEW ds, AddDecls(ds) PROVE FileOK' /\ decls' = decls \o ds
<1>1. ASSUME NEW a, NEW b, NEW c, NEW d
      PROVE  [[kind |-> "File", decls |-> a, includes |-> b, macros |-> c] EXCEPT !.decls = d] =
               [kind |-> "File", decls |-> d, includes |-> b, macros |-> c]
  OBVIOUS
<1>2. file' = [kind |-> "File", decls |-> file.decls \o ds,
               includes |-> file.includes, macros |-> file.macros]
  <2>1. file = [kind |-> "File", decls |-> file.decls,
                includes |-> file.includes, macros |-> file.macros]
    BY DEF FileOK
  <2>2. file' = [file EXCEPT !.decls = file.decls \o ds]
    BY DEF AddDecls
  <2>3. PICK a, b, c : file = [kind |-> "File", decls |-> a, includes |-> b, macros |-> c]
                       /\ a = file.decls /\ b = file.includes /\ c = file.macros
    BY <2>1, Zenon
  <2> QED BY <1>1, <2>2, <2>3
<1>3. file'.decls = file.decls \o ds
  BY <1>2
<1>4. FileOK'
  BY <1>2 DEF FileOK
<1> QED BY <1>3, <1>4 DEF decls

(* A cursor at the top.                                                    *)
LEMMA VisitAdds ==
  ASSUME ParserInv, Move, unit[at].up = 0, NEW t, Lists(t, Top(at)), AddDecls(Made(t))
  PROVE  FileOK' /\ DeclsOK'
<1>1. /\ FileOK /\ UnitOK /\ unit' = unit /\ at' = at + 1 /\ at \in 1..Len(unit) /\ DeclsOK
  <2>1. UnitOK /\ at \in 1..Len(unit) + 1 /\ at <= Len(unit) /\ Len(unit) \in Nat
    BY UnitFacts DEF ParserInv, Move
  <2> QED BY <2>1 DEF ParserInv, Move
<1>2. FileOK' /\ decls' = decls \o Made(t)
  BY <1>1, Adds
<1>3. PICK src : Lists(src, Yielded(at)) /\ decls = Made(src)
  BY <1>1 DEF DeclsOK
<1>4. Lists(src \o t, Yielded(at + 1)) /\ Made(src \o t) = Made(src) \o Made(t)
  <2>1. Lists(t, {i \in {at} \cup Inside(at) : Yields(i)})
    BY DEF Top
  <2>2. UnitOK /\ at \in 1..Len(unit) /\ unit[at].up = 0 /\ Lists(src, Yielded(at))
    BY <1>1, <1>3
  <2> QED BY <2>1, <2>2, AddsLists
<1>5. decls' = Made(src \o t)
  BY <1>2, <1>3, <1>4
<1>6. DeclsOK'
  <2>1. ASSUME NEW n, n = at + 1 PROVE DeclsOK'
    <3>1. Lists(src \o t, Yielded(n)) /\ at' = n
      BY <1>1, <1>4, <2>1
    <3> QED BY <1>1, <1>5, <3>1, Listed
  <2> QED BY <2>1
<1> QED BY <1>2, <1>6

(* A step that adds no declaration.                                        *)
LEMMA AddsNone ==
  ASSUME ParserInv, unit' = unit, NEW n, at' = n, Yielded(n) = Yielded(at), decls' = decls
  PROVE  DeclsOK'
<1>1. PICK src : Lists(src, Yielded(at)) /\ decls = Made(src)
  BY DEF ParserInv, DeclsOK
<1>2. Lists(src, Yielded(n)) /\ decls' = Made(src)
  BY <1>1
<1> QED BY <1>2, Listed

LEMMA AtHere ==
  ASSUME ParserInv, Move
  PROVE  /\ at \in 1..Len(unit) /\ at' \in 1..Len(unit') + 1 /\ at' = at + 1 /\ unit' = unit
         /\ UnitOK /\ UnitOK' /\ ChainsOK' /\ FileOK /\ phase = "visit"
<1>1. UnitOK /\ ChainsOK /\ FileOK /\ at \in 1..Len(unit) + 1 /\ at <= Len(unit) /\ unit' = unit
  BY DEF ParserInv, Move
<1>2. Len(unit) \in Nat
  BY <1>1, UnitFacts
<1>3. UnitOK' /\ ChainsOK'
  BY <1>1, SameUnitOK, SameChains
<1>4. at \in 1..Len(unit) /\ at' = at + 1 /\ phase = "visit"
  BY <1>1, <1>2 DEF Move
<1>5. at' \in 1..Len(unit') + 1
  BY <1>1, <1>2, <1>4
<1> QED BY <1>1, <1>3, <1>4, <1>5

LEMMA Visited ==
  ASSUME ParserInv, Move, FileOK', DeclsOK', phase' = phase PROVE ParserInv'
<1>1. /\ at' \in 1..Len(unit') + 1 /\ UnitOK' /\ ChainsOK' /\ phase' = "visit"
  BY AtHere
<1> QED BY <1>1 DEF ParserInv

LEMMA InvInit == ParseInit => ParserInv
<1> SUFFICES ASSUME ParseInit PROVE ParserInv
  OBVIOUS
<1>1. unit = <<>> /\ Len(unit) = 0 /\ unit \in Seq(CursorType)
  BY DEF ParseInit
<1>2. UnitOK /\ ChainsOK
  BY <1>1 DEF UnitOK, ChainsOK
<1>3. FileOK /\ decls = <<>> /\ at = 1 /\ phase = "source"
  BY DEF ParseInit, FileOK, decls
<1>4. Yielded(at) = {}
  BY <1>1 DEF Yielded
<1>5. DeclsOK
  BY <1>3, <1>4, ListsNone, MadeNone DEF DeclsOK
<1> QED BY <1>1, <1>2, <1>3, <1>5 DEF ParserInv

LEMMA DeclareInv == ASSUME ParserInv, Declare PROVE ParserInv'
<1>1. UnitOK /\ ChainsOK /\ FileOK /\ at = 1 /\ decls = <<>> /\ phase = "source"
  BY DEF ParserInv, Declare
<1>2. UnitOK' /\ ChainsOK'
  BY <1>1, DeclareUnit, DeclareChains DEF Declare
<1>3. FileOK' /\ at' = 1 /\ decls' = <<>> /\ phase' = "source"
  BY <1>1 DEF Declare, FileOK, decls
<1>4. Len(unit') \in Nat
  BY <1>2 DEF UnitOK
<1>5. Yielded(at)' = {}
  <2> SUFFICES ASSUME NEW i \in 1..Len(unit'), Done(at, i)' PROVE FALSE
    BY DEF Yielded, Done
  <2>1. 1 \in 1..i /\ 1 \in 1..Len(unit') /\ ~(i < 1)
    BY <1>4
  <2>2. unit'[1].up # 0
    BY <1>3, <2>1 DEF Done
  <2>3. unit'[1] \in CursorType /\ unit'[1].up < 1
    BY <1>2, <2>1 DEF UnitOK, CursorOK, Nested
  <2> QED BY <2>2, <2>3 DEF CursorType
<1>6. DeclsOK'
  <2>1. Lists(<<>>, {})' /\ Made(<<>>)' = <<>>
    BY DEF Lists, InOrder, Made
  <2> QED BY <1>3, <1>5, <2>1 DEF DeclsOK, Lists
<1> QED BY <1>2, <1>3, <1>4, <1>6 DEF ParserInv

LEMMA PassInv == ASSUME ParserInv, PassOver PROVE ParserInv'
<1>1. Move /\ ~Reported(unit[at]) /\ phase' = phase /\ file' = file
  BY DEF PassOver
<1>2. /\ at \in 1..Len(unit) /\ at' = at + 1 /\ unit' = unit /\ UnitOK /\ FileOK
  BY <1>1, AtHere
<1>3. FileOK' /\ decls' = decls
  BY <1>1, <1>2 DEF FileOK, decls
<1>4. Yielded(at + 1) = Yielded(at)
  <2>1. CASE unit[at].up # 0
    BY <1>2, <2>1, DoneNested DEF Yielded
  <2>2. CASE unit[at].up = 0
    <3>1. unit[at].kind = "macro"
      BY <1>1, <1>2, <2>2, UnitFacts DEF Reported, InFile, Facts, Formed, BuiltIn
    <3>2. Inside(at) = {} /\ ~Yields(at)
      BY <1>2, <3>1, NoInside, TopOther
    <3>3. \A i \in 1..Len(unit) : Done(at + 1, i) <=> Done(at, i) \/ i = at
      BY <1>2, <2>2, <3>2, DoneTop
    <3> QED BY <3>2, <3>3 DEF Yielded
  <2> QED BY <2>1, <2>2
<1>5. DeclsOK'
  BY <1>2, <1>3, <1>4, AddsNone
<1> QED BY <1>1, <1>3, <1>5, Visited

LEMMA VisitInv ==
  ASSUME ParserInv, VisitEnum \/ VisitStruct \/ VisitTypedef \/ VisitFunc \/ VisitMacro \/ VisitInclude,
         ~AnonNesting
  PROVE  ParserInv'
<1>1. Move /\ unit[at].up = 0
  BY DEF VisitEnum, VisitStruct, VisitTypedef, VisitFunc, VisitMacro, VisitInclude, VisitTop, Reported
<1>2. /\ at \in 1..Len(unit) /\ at' = at + 1 /\ unit' = unit /\ UnitOK /\ FileOK
  BY <1>1, AtHere
<1>3. ASSUME NEW t, Lists(t, Top(at)), AddDecls(Made(t)), phase' = phase PROVE ParserInv'
  BY <1>1, <1>3, VisitAdds, Visited
<1>4. unit[at].kind # "struct" => Lists(IF Yields(at) THEN <<at>> ELSE <<>>, Top(at))
  BY <1>2, TopAlone
<1>5. CASE VisitEnum
  <2>1. unit[at].kind = "enum" /\ AddDecls(<<ProcessEnumDecl(at)>>) /\ phase' = phase
    BY <1>5 DEF VisitEnum, VisitTop
  <2>2. Lists(<<at>>, Top(at)) /\ <<ProcessEnumDecl(at)>> = Made(<<at>>)
    BY <1>2, <1>4, <2>1, TopOther
  <2> QED BY <1>3, <2>1, <2>2
<1>6. CASE VisitStruct
  <2>1. unit[at].kind = "struct" /\ AddDecls(ProcessRecordDecl(at)) /\ phase' = phase
    BY <1>6 DEF VisitStruct, VisitTop
  <2>2. PICK t : Lists(t, Top(at)) /\ ProcessRecordDecl(at) = Made(t)
    BY <1>1, <1>2, <2>1, TopStruct
  <2> QED BY <1>3, <2>1, <2>2
<1>7. CASE VisitTypedef
  <2>1. unit[at].kind = "typedef" /\ AddDecls(ProcessTypeDefDecl(at)) /\ phase' = phase
    BY <1>7 DEF VisitTypedef, VisitTop
  <2>2. CASE Yields(at)
    <3>1. Lists(<<at>>, Top(at)) /\ ProcessTypeDefDecl(at) = Made(<<at>>)
      BY <1>2, <1>4, <2>1, <2>2, TopOther
    <3> QED BY <1>3, <2>1, <3>1
  <2>3. CASE ~Yields(at)
    <3>1. Lists(<<>>, Top(at)) /\ ProcessTypeDefDecl(at) = Made(<<>>)
      BY <1>2, <1>4, <2>1, <2>3, TopOther, MadeNone
    <3> QED BY <1>3, <2>1, <3>1
  <2> QED BY <2>2, <2>3
<1>8. CASE VisitFunc
  <2>1. unit[at].kind = "func" /\ AddDecls(ProcessFuncDecl(at))
    BY <1>8 DEF VisitFunc, VisitTop
  <2>2. /\ Lists(<<at>>, Top(at)) /\ ProcessFuncDecl(at) = Made(<<at>>) /\ ProcessFuncDecl(at) # <<>>
    BY <1>2, <1>4, <2>1, TopOther
  <2>3. phase' = phase
    BY <1>8, <2>2 DEF VisitFunc
  <2> QED BY <1>3, <2>1, <2>2, <2>3
<1>9. CASE VisitMacro \/ VisitInclude
  <2>1. unit[at].kind \in {"macro", "include"} /\ phase' = phase
    BY <1>9 DEF VisitMacro, VisitInclude, VisitTop
  <2>2. FileOK' /\ decls' = decls
    BY <1>2, <1>9 DEF VisitMacro, VisitInclude, FileOK, decls
  <2>3. Inside(at) = {} /\ ~Yields(at)
    BY <1>2, <2>1, NoInside, TopOther
  <2>4. \A i \in 1..Len(unit) : Done(at + 1, i) <=> Done(at, i) \/ i = at
    BY <1>1, <1>2, <2>3, DoneTop
  <2>5. Yielded(at + 1) = Yielded(at)
    BY <2>3, <2>4 DEF Yielded
  <2>6. DeclsOK'
    BY <1>2, <2>2, <2>5, AddsNone
  <2> QED BY <1>1, <2>1, <2>2, <2>6, Visited
<1> QED BY <1>5, <1>6, <1>7, <1>8, <1>9

LEMMA OtherInv ==
  ASSUME ParserInv, unit' = unit, at' = at, file' = file,
         phase' \in {"source", "visit", "parsed", "done"},
         phase' = "source" => phase = "source", phase' \in {"parsed", "done"} => at = Len(unit) + 1
  PROVE  ParserInv'
<1>1. UnitOK' /\ ChainsOK' /\ FileOK' /\ decls' = decls
  BY SameUnitOK, SameChains DEF ParserInv, FileOK, decls
<1>2. DeclsOK'
  BY <1>1, AddsNone
<1> QED BY <1>1, <1>2 DEF ParserInv

LEMMA InvStep == ASSUME ~AnonNesting, ParserInv, [ParseNext]_parseVars PROVE ParserInv'
<1>1. CASE Declare
  BY <1>1, DeclareInv
<1>2. CASE EndSource
  BY <1>2, OtherInv DEF EndSource
<1>3. CASE PassOver
  BY <1>3, PassInv
<1>4. CASE VisitEnum \/ VisitStruct \/ VisitTypedef \/ VisitFunc \/ VisitMacro \/ VisitInclude
  BY <1>4, VisitInv
<1>5. CASE EndVisit
  <2>1. at = Len(unit) + 1
    <3>1. UnitOK /\ at \in 1..Len(unit) + 1 /\ at > Len(unit)
      BY <1>5 DEF ParserInv, EndVisit
    <3> QED BY <3>1, UnitFacts
  <2> QED BY <1>5, <2>1, OtherInv DEF EndVisit
<1>6. CASE Send
  BY <1>6, OtherInv DEF Send, ParserInv
<1>7. CASE UNCHANGED parseVars
  BY <1>7, OtherInv DEF parseVars, ParserInv
<1> QED BY <1>1, <1>2, <1>3, <1>4, <1>5, <1>6, <1>7 DEF ParseNext, Terminated

LEMMA ParserInvAlways == ASSUME ~AnonNesting PROVE ParseSpec => []ParserInv
<1>1. ParserInv /\ [ParseNext]_parseVars => ParserInv'
  BY InvStep
<1> QED BY InvInit, <1>1, PTL DEF ParseSpec

-----------------------------------------------------------------------------
(* What a declaration says of its cursor.                                  *)
NilIsNoNode == (\A n : Nil # Ident(n)) /\ (\A l : Nil # FieldList(l))

LEMMA DeclKinds ==
  ASSUME UnitOK, NEW i \in 1..Len(unit), Yields(i)
  PROVE  /\ unit[i].kind \in {"struct", "enum", "typedef", "func"}
         /\ DeclAt(i).kind = CASE unit[i].kind = "enum" -> "EnumTypeDecl"
                               [] unit[i].kind = "struct" -> "TypeDecl"
                               [] unit[i].kind = "typedef" -> "TypedefDecl"
                               [] unit[i].kind = "func" -> "FuncDecl"
         /\ DeclAt(i).Name = NameOf(i)
         /\ unit[i].kind = "struct" => DeclAt(i).Type = ProcessRecordType(i)
<1>1. \A d : <<d>>[1] = d
  OBVIOUS
<1>2. \A kind, name, type : /\ DeclOf(kind, i, name, type).kind = kind
                            /\ DeclOf(kind, i, name, type).Name = name
                            /\ DeclOf(kind, i, name, type).Type = type
  BY DEF DeclOf
<1>3. CASE unit[i].kind = "enum"
  BY <1>2, <1>3 DEF DeclAt, ProcessEnumDecl
<1>4. CASE unit[i].kind = "struct"
  BY <1>2, <1>4 DEF DeclAt, TypeDecl
<1>5. CASE unit[i].kind = "typedef"
  <2>1. ~SelfReference(i)
    BY <1>5 DEF Yields
  <2>2. DeclAt(i) = DeclOf("TypedefDecl", i, Ident(unit[i].name), ProcessType(unit[i].to, unit[i].shape))
    BY <1>1, <1>5, <2>1 DEF DeclAt, ProcessTypeDefDecl
  <2>3. NameOf(i) = Ident(unit[i].name)
    BY <1>5 DEF NameOf, IsAnonymous, IsTag
  <2> QED BY <1>2, <1>5, <2>2, <2>3
<1>6. CASE unit[i].kind = "func"
  <2>1. ProcessFuncDecl(i) # <<>>
    BY <1>6, TopOther
  <2>2. DeclAt(i).kind = "FuncDecl" /\ DeclAt(i).Name = Ident(unit[i].name)
    BY <1>1, <1>6, <2>1 DEF DeclAt, ProcessFuncDecl
  <2>3. NameOf(i) = Ident(unit[i].name)
    BY <1>6 DEF NameOf, IsAnonymous, IsTag
  <2> QED BY <1>6, <2>2, <2>3
<1> QED BY <1>3, <1>4, <1>5, <1>6 DEF Yields

LEMMA NamedDecl ==
  ASSUME UnitOK, NilIsNoNode, NEW i \in 1..Len(unit), Yields(i), NEW n, n # Anon
  PROVE  (Full(DeclAt(i)) /\ DeclAt(i).Name = Ident(n)) <=> Means(i, n)
<1>1. Facts(i) /\ Len(unit) \in Nat
  BY UnitFacts
<1>2. DeclAt(i).Name = Ident(n) <=> unit[i].name = n
  <2>1. \A m : Ident(m) = Ident(n) <=> m = n
    <3>1. \A m : Ident(m).Name = m
      BY DEF Ident
    <3> QED BY <3>1
  <2> QED BY <2>1, DeclKinds DEF NameOf, IsAnonymous, NilIsNoNode
<1>3. ASSUME unit[i].kind = "struct" PROVE Full(DeclAt(i)) <=> unit[i].def
  <2>1. \A l : FieldList(l) # Nil
    BY DEF NilIsNoNode
  <2>2. ProcessRecordType(i).Fields = Nil <=> ~unit[i].def
    BY <2>1 DEF ProcessRecordType, RecordType
  <2>3. DeclAt(i).kind = "TypeDecl" /\ DeclAt(i).Type = ProcessRecordType(i)
    BY <1>3, DeclKinds
  <2> QED BY <2>2, <2>3 DEF Full
<1>4. CASE unit[i].kind = "struct"
  BY <1>2, <1>3, <1>4 DEF Means, IsTag
<1>5. CASE unit[i].kind = "enum"
  <2>1. DeclAt(i).kind = "EnumTypeDecl" /\ unit[i].def
    BY <1>1, <1>5, DeclKinds DEF Facts, Tagged, IsTag
  <2> QED BY <1>2, <1>5, <2>1 DEF Means, IsTag, Full
<1>6. CASE unit[i].kind = "func"
  <2>1. DeclAt(i).kind = "FuncDecl" /\ unit[i].def
    BY <1>1, <1>6, DeclKinds DEF Facts, Formed
  <2> QED BY <1>2, <1>6, <2>1 DEF Means, Full
<1>7. CASE unit[i].kind = "typedef"
  <2>1. DeclAt(i).kind = "TypedefDecl" /\ unit[i].def /\ ~SelfReference(i)
    BY <1>1, <1>7, DeclKinds DEF Facts, Formed, Yields
  <2>2. unit[i].name = n => ActualName(i) # n
    <3>1. CASE unit[i].shape # "value"
      BY <1>7, <3>1, TypedefName0
    <3>2. CASE unit[i].shape = "value" /\ unit[i].to = 0
      BY <1>7, <3>2, TypedefName0, ActualNone
    <3>3. CASE unit[i].shape = "value" /\ unit[i].to # 0
      BY <1>7, <2>1, <3>3, TypedefName0 DEF SelfReference
    <3> QED BY <3>1, <3>2, <3>3
  <2> QED BY <1>2, <1>7, <2>1, <2>2 DEF Means, Full
<1> QED BY <1>4, <1>5, <1>6, <1>7, DeclKinds

LEMMA MeansYields ==
  ASSUME UnitOK, NEW i \in 1..Len(unit), NEW n, n # Anon, Means(i, n)
  PROVE  Yields(i)
<1>1. Facts(i) /\ unit[i].name = n /\ unit[i].def
  BY UnitFacts DEF Means
<1>2. CASE IsTag(unit[i])
  BY <1>1, <1>2 DEF Yields, Collects, Collect, HasType, IsTag, IsAnonymous
<1>3. CASE unit[i].kind = "func"
  BY <1>3 DEF Yields
<1>4. CASE unit[i].kind = "typedef"
  <2>1. ActualName(i) # n
    BY <1>4 DEF Means, IsTag
  <2>2. ~SelfReference(i)
    BY <1>1, <1>4, <2>1, TypedefName0 DEF SelfReference
  <2> QED BY <1>4, <2>2 DEF Yields
<1> QED BY <1>2, <1>3, <1>4 DEF Means

LEMMA MeansOnce ==
  ASSUME UnitOK, ChainsOK, NEW n, n # Anon, NEW i \in 1..Len(unit), NEW j \in 1..Len(unit),
         Means(i, n), Means(j, n), i < j
  PROVE  FALSE
<1>1. /\ Facts(i) /\ Facts(j) /\ Leads(i) /\ Leads(j) /\ Differs(j) /\ i \in 1..j - 1
      /\ Formed(unit[i]) /\ Formed(unit[j])
  BY UnitFacts DEF Facts, ChainsOK
<1>2. unit[i].name = n /\ unit[j].name = n /\ unit[i].def /\ unit[j].def
  BY DEF Means
<1>3. ASSUME NEW k \in 1..Len(unit), IsTag(unit[k]), Formed(unit[k]), unit[k].name = n PROVE n \in TagName
  BY <1>3 DEF Formed
<1>4. ASSUME NEW k \in 1..Len(unit), unit[k].kind = "typedef", Means(k, n), Leads(k), n \in TagName PROVE FALSE
  <2>1. unit[k].name = n /\ ActualName(k) # n
    BY <1>4 DEF Means, IsTag
  <2>2. unit[k].shape = "value" /\ ActualName(unit[k].to) = n
    BY <1>4, <2>1 DEF Leads
  <2> QED BY <1>4, <2>1, <2>2, TypedefName0
<1>5. CASE IsTag(unit[j])
  <2>1. CASE IsTag(unit[i])
    BY <1>1, <1>2, <1>5, <2>1 DEF Differs
  <2>2. CASE unit[i].kind = "func"
    BY <1>1, <1>2, <1>3, <1>5, <2>2, ParserAssumption DEF Formed
  <2>3. CASE unit[i].kind = "typedef"
    BY <1>1, <1>2, <1>3, <1>4, <1>5, <2>3
  <2> QED BY <2>1, <2>2, <2>3 DEF Means
<1>6. CASE unit[j].kind = "typedef"
  <2>1. CASE IsTag(unit[i])
    BY <1>1, <1>2, <1>3, <1>4, <1>6, <2>1
  <2>2. CASE unit[i].kind \in {"func", "typedef"}
    BY <1>1, <1>2, <1>6, <2>2 DEF Differs
  <2> QED BY <2>1, <2>2 DEF Means
<1>7. CASE unit[j].kind = "func"
  <2>1. n = FuncName
    BY <1>1, <1>2, <1>7 DEF Formed
  <2>2. CASE IsTag(unit[i])
    BY <1>1, <1>2, <1>3, <2>1, <2>2, ParserAssumption
  <2>3. CASE unit[i].kind = "func"
    BY <1>1, <1>7, <2>3 DEF Differs
  <2>4. CASE unit[i].kind = "typedef"
    BY <1>1, <1>2, <2>1, <2>4, ParserAssumption DEF Formed
  <2> QED BY <2>2, <2>3, <2>4 DEF Means
<1> QED BY <1>5, <1>6, <1>7 DEF Means

(* The declarations, by the cursors they come from.                        *)
Sourced(src) ==
  /\ src \in Seq(1..Len(unit)) /\ Len(src) \in Nat /\ InOrder(src)
  /\ \A p \in 1..Len(src) : src[p] \in Yielded(at)
  /\ \A i \in Yielded(at) : \E p \in 1..Len(src) : src[p] = i
  /\ DOMAIN decls = 1..Len(src) /\ \A p \in 1..Len(src) : decls[p] = DeclAt(src[p])
  /\ \A p, q \in 1..Len(src) : src[p] = src[q] => p = q

LEMMA SourcedExists == ASSUME ParserInv PROVE \E src : Sourced(src)
<1>1. PICK src : Lists(src, Yielded(at)) /\ decls = Made(src)
  BY DEF ParserInv, DeclsOK
<1>2. src \in Seq(1..Len(unit)) /\ Len(src) \in Nat
  BY <1>1 DEF Lists
<1>3. DOMAIN decls = 1..Len(src) /\ \A p \in 1..Len(src) : decls[p] = DeclAt(src[p])
  BY <1>1 DEF Made
<1>4. ASSUME NEW p \in 1..Len(src), NEW q \in 1..Len(src), src[p] = src[q] PROVE p = q
  <2>1. \A a, b \in 1..Len(src) : a < b => src[a] # src[b]
    BY <1>1 DEF Lists, InOrder, Before
  <2> QED BY <1>2, <1>4, <2>1
<1> QED BY <1>1, <1>2, <1>3, <1>4 DEF Sourced, Lists

LEMMA AllDone ==
  ASSUME ParserInv, Parsed PROVE Yielded(at) = {i \in 1..Len(unit) : Yields(i)}
<1>1. UnitOK /\ at = Len(unit) + 1
  BY DEF ParserInv, Parsed
<1>2. \A i \in 1..Len(unit) : Done(at, i)
  BY <1>1, UnitFacts DEF Done
<1> QED BY <1>2 DEF Yielded

LEMMA EnumsKeptHolds == ASSUME ParserInv PROVE EnumsKept
<1> SUFFICES ASSUME Parsed
             PROVE  Cardinality({i \in DOMAIN decls : decls[i].kind = "EnumTypeDecl"})
                      = Cardinality({i \in DOMAIN unit : unit[i].kind = "enum"})
  BY DEF EnumsKept
<1>1. PICK src : Sourced(src)
  BY SourcedExists
<1>2. UnitOK /\ Len(unit) \in Nat /\ DOMAIN unit = 1..Len(unit)
  BY UnitFacts DEF ParserInv, UnitOK
<1> DEFINE D == {p \in 1..Len(src) : decls[p].kind = "EnumTypeDecl"}
           E == {i \in 1..Len(unit) : unit[i].kind = "enum"}
           f == [p \in D |-> src[p]]
<1>3. ASSUME NEW p \in 1..Len(src)
      PROVE  src[p] \in 1..Len(unit) /\ (p \in D <=> src[p] \in E)
  <2>1. src[p] \in 1..Len(unit) /\ Yields(src[p]) /\ decls[p] = DeclAt(src[p])
    BY <1>1 DEF Sourced, Yielded
  <2>2. decls[p].kind = "EnumTypeDecl" <=> unit[src[p]].kind = "enum"
    BY <1>2, <2>1, DeclKinds
  <2> QED BY <2>1, <2>2
<1>4. ASSUME NEW i \in E PROVE \E p \in D : f[p] = i
  <2>1. i \in Yielded(at)
    BY AllDone DEF Yields
  <2>2. PICK p \in 1..Len(src) : src[p] = i
    BY <1>1, <2>1 DEF Sourced
  <2> QED BY <1>3, <2>2
<1>5. f \in Bijection(D, E)
  <2>1. f \in [D -> E]
    BY <1>3
  <2>2. \A p, q \in D : f[p] = f[q] => p = q
    BY <1>1 DEF Sourced
  <2> HIDE DEF D, E, f
  <2> QED BY <1>4, <2>1, <2>2 DEF Bijection, Injection, Surjection, IsInjective
<1>6. IsFiniteSet(D)
  <2>1. IsFiniteSet(1..Len(src)) /\ D \subseteq 1..Len(src)
    BY <1>1, FS_Interval DEF Sourced
  <2> HIDE DEF D
  <2> QED BY <2>1, FS_Subset
<1>7. Cardinality(E) = Cardinality(D)
  <2> HIDE DEF D, E, f
  <2>1. ExistsBijection(D, E)
    BY <1>5 DEF ExistsBijection
  <2> QED BY <1>6, <2>1, FS_Bijection
<1>8. DOMAIN decls = 1..Len(src)
  BY <1>1 DEF Sourced
<1> QED BY <1>2, <1>7, <1>8

LEMMA DefinedOnceHolds == ASSUME ParserInv, NilIsNoNode PROVE DefinedOnce
<1> SUFFICES ASSUME Parsed, NEW n \in Names
             PROVE  Cardinality(Defining(n)) = IF n \in DeclNames THEN 1 ELSE 0
  BY DEF DefinedOnce
<1>1. PICK src : Sourced(src)
  BY SourcedExists
<1>2. UnitOK /\ ChainsOK /\ Len(unit) \in Nat /\ DOMAIN unit = 1..Len(unit) /\ n # Anon
  BY UnitFacts DEF ParserInv, UnitOK, Names
<1>3. ASSUME NEW p \in 1..Len(src)
      PROVE  src[p] \in 1..Len(unit) /\ (p \in Defining(n) <=> Means(src[p], n))
  <2>1. src[p] \in 1..Len(unit) /\ Yields(src[p]) /\ decls[p] = DeclAt(src[p]) /\ p \in DOMAIN decls
    BY <1>1 DEF Sourced, Yielded
  <2>2. (Full(DeclAt(src[p])) /\ DeclAt(src[p]).Name = Ident(n)) <=> Means(src[p], n)
    BY <1>2, <2>1, NamedDecl
  <2> QED BY <2>1, <2>2 DEF Defining
<1>4. \A p \in Defining(n) : p \in 1..Len(src)
  BY <1>1 DEF Sourced, Defining
<1>5. CASE n \in DeclNames
  <2>1. PICK i \in 1..Len(unit) : Means(i, n)
    BY <1>2, <1>5 DEF DeclNames
  <2>2. i \in Yielded(at)
    BY <1>2, <2>1, AllDone, MeansYields
  <2>3. PICK p \in 1..Len(src) : src[p] = i
    BY <1>1, <2>2 DEF Sourced
  <2>4. ASSUME NEW q \in Defining(n) PROVE q = p
    <3>1. q \in 1..Len(src) /\ src[q] \in 1..Len(unit) /\ Means(src[q], n)
      BY <1>3, <1>4, <2>4
    <3>2. src[q] = i
      <4>1. ~(src[q] < i) /\ ~(i < src[q])
        BY <1>2, <2>1, <3>1, MeansOnce
      <4> QED BY <3>1, <4>1
    <3> QED BY <1>1, <2>3, <3>1, <3>2 DEF Sourced
  <2>5. Defining(n) = {p}
    BY <1>3, <2>1, <2>3, <2>4
  <2> QED BY <1>5, <2>5, FS_Singleton
<1>6. CASE n \notin DeclNames
  <2>1. Defining(n) = {}
    <3> SUFFICES ASSUME NEW p \in Defining(n) PROVE FALSE
      OBVIOUS
    <3>1. src[p] \in DOMAIN unit /\ Means(src[p], n)
      BY <1>2, <1>3, <1>4
    <3> QED BY <1>6, <3>1 DEF DeclNames
  <2> QED BY <1>6, <2>1, FS_EmptySet
<1> QED BY <1>5, <1>6

-----------------------------------------------------------------------------
(* The types inside a record.                                              *)
NestedField(c) == FieldOf(<<Ident("y")>>, NestedType(NestedFields, c))
NestedFieldSet(S) == {NestedField(c) : c \in S}

LEMMA Widen == ASSUME NEW S, NEW U \in SUBSET S, NEW s \in Seq(U) PROVE s \in Seq(S)
  OBVIOUS

LEMMA EmptySeq == \A S : <<>> \in Seq(S)
  OBVIOUS

LEMMA FieldsSeq ==
  ASSUME UnitOK
  PROVE  /\ NestedFields[0] = <<>>
         /\ \A j \in 1..Len(unit) : NestedFields[j] \in Seq(NestedFieldSet(From(j)))
<1>1. Len(unit) \in Nat
  BY UnitFacts
<1>2. NestedFields[0] = <<>>
  <2>1. NestedFields[0] = FieldsFrom(NestedFields, 0)
    <3>1. 0 \in 0..Len(unit)
      BY <1>1
    <3> QED BY <3>1, FieldsDef
  <2>2. \A f : FieldsFrom(f, 0) = <<>>
    BY DEF FieldsFrom
  <2> QED BY <2>1, <2>2
<1> DEFINE T == {j \in 0..Len(unit) : j # 0 => NestedFields[j] \in Seq(NestedFieldSet(From(j)))}
<1>3. ASSUME NEW j \in 0..Len(unit), \A k \in (j + 1)..Len(unit) : k \in T PROVE j \in T
  <2> SUFFICES ASSUME j # 0 PROVE NestedFields[j] \in Seq(NestedFieldSet(From(j)))
    OBVIOUS
  <2> DEFINE n == NextChild(j)
  <2>1. j \in 1..Len(unit)
    OBVIOUS
  <2>2. NestedFields[j] = <<NestedField(j)>> \o NestedFields[n]
    BY <2>1, FieldsDef DEF FieldsFrom, NestedField
  <2>3. j \in From(j) /\ (n # 0 => From(n) \subseteq From(j))
    BY <2>1, FromParts
  <2>4. <<NestedField(j)>> \in Seq(NestedFieldSet(From(j)))
    <3>1. NestedField(j) \in NestedFieldSet(From(j))
      BY <2>3 DEF NestedFieldSet
    <3> HIDE DEF NestedField, NestedFieldSet
    <3> QED BY <3>1
  <2>5. NestedFields[n] \in Seq(NestedFieldSet(From(j)))
    <3>1. CASE n = 0
      BY <1>2, <3>1, EmptySeq, Zenon
    <3>2. CASE n # 0
      <4>1. n \in (j + 1)..Len(unit) /\ n # 0
        BY <2>1, <3>2, Links
      <4>2. n \in T
        BY <1>3, <4>1
      <4>3. NestedFields[n] \in Seq(NestedFieldSet(From(n)))
        BY <4>1, <4>2
      <4>4. NestedFieldSet(From(n)) \in SUBSET NestedFieldSet(From(j))
        BY <2>3, <3>2 DEF NestedFieldSet
      <4> HIDE DEF n
      <4> QED BY <4>3, <4>4, Widen
    <3> QED BY <3>1, <3>2
  <2> HIDE DEF n
  <2> QED BY <2>2, <2>4, <2>5
<1>4. \A j \in 0..Len(unit) : j \in T
  <2> HIDE DEF T
  <2> QED BY <1>1, <1>3, OnAbove
<1> QED BY <1>1, <1>2, <1>4

LEMMA NestedSeq ==
  ASSUME UnitOK, NEW j \in 1..Len(unit)
  PROVE  NestedFields[FirstChild(j)] \in Seq(NestedFieldSet(Inside(j)))
<1>1. Len(unit) \in Nat
  BY UnitFacts
<1>2. CASE FirstChild(j) = 0
  <2>1. NestedFields[0] = <<>>
    BY FieldsSeq
  <2> QED BY <1>2, <2>1, EmptySeq, Zenon
<1>3. CASE FirstChild(j) # 0
  <2>1. FirstChild(j) \in (j + 1)..Len(unit) /\ Inside(j) = From(FirstChild(j))
    BY <1>3, Links, InsideFirst
  <2>2. FirstChild(j) \in 1..Len(unit)
    BY <1>1, <2>1
  <2> QED BY <2>1, <2>2, FieldsSeq
<1> QED BY <1>2, <1>3

(* What is declared by the time record r is: what is declared before it    *)
(* and does not contain it, and what is in it.                             *)
Ready(r, d) == (d < r /\ ~Spans(d, r)) \/ (r < d /\ Spans(r, d))
Provided(r, m) == m # Anon /\ \E d \in 1..Len(unit) : Means(d, m) /\ Ready(r, d)
Within(r, j) == j = r \/ j \in Inside(r)

LEMMA WithinFacts ==
  ASSUME UnitOK, NEW r \in 1..Len(unit), NEW j, Within(r, j)
  PROVE  /\ j \in 1..Len(unit) /\ r <= j /\ \A k \in (r + 1)..j : unit[k].up >= r /\ unit[k].up \in Nat
         /\ \A c \in Inside(j) : c \in Inside(r)
<1>1. Len(unit) \in Nat /\ \A k \in 1..Len(unit) : Facts(k)
  BY UnitFacts
<1>2. j \in 1..Len(unit) /\ r <= j /\ \A k \in (r + 1)..j : unit[k].up >= r
  BY <1>1 DEF Within, Inside, Spans
<1>3. \A k \in (r + 1)..j : unit[k].up \in Nat
  BY <1>1, <1>2 DEF Facts
<1>4. ASSUME NEW c \in Inside(j) PROVE c \in Inside(r)
  <2>1. c \in (j + 1)..Len(unit) /\ \A k \in (j + 1)..c : unit[k].up >= j
    BY DEF Inside, Spans
  <2>2. ASSUME NEW k \in (r + 1)..c PROVE unit[k].up >= r
    <3>1. unit[k].up \in Nat
      BY <1>1, <1>2, <2>1 DEF Facts
    <3>2. CASE k <= j
      BY <1>2, <3>2
    <3>3. CASE j < k
      BY <1>2, <2>1, <3>1, <3>3
    <3> QED BY <1>2, <3>2, <3>3
  <2>3. c \in (r + 1)..Len(unit)
    BY <1>1, <1>2, <2>1
  <2> QED BY <2>2, <2>3 DEF Inside, Spans
<1> QED BY <1>2, <1>3, <1>4

LEMMA ReadyOutside ==
  ASSUME UnitOK, NEW r \in 1..Len(unit), NEW j, Within(r, j),
         NEW d \in (1..j - 1) \ Enclosing(unit[j].up)
  PROVE  Ready(r, d)
<1>1. Len(unit) \in Nat /\ \A k \in 1..Len(unit) : Facts(k)
  BY UnitFacts
<1>2. j \in 1..Len(unit) /\ r <= j /\ \A k \in (r + 1)..j : unit[k].up >= r /\ unit[k].up \in Nat
  BY WithinFacts
<1>3. unit[j].up \in Nat /\ unit[j].up < j
  BY <1>1, <1>2 DEF Facts, Nested
<1>4. ASSUME Spans(d, j) PROVE FALSE
  <2>1. j \in (d + 1)..j /\ \A k \in (d + 1)..j : unit[k].up >= d
    BY <1>2, <1>4 DEF Spans
  <2>2. unit[j].up >= d
    BY <2>1
  <2>3. \A k \in (d + 1)..unit[j].up : unit[k].up >= d
    BY <1>2, <1>3, <2>1
  <2> QED BY <1>2, <1>3, <2>2, <2>3 DEF Enclosing, Spans
<1>5. ASSUME d <= r, Spans(d, r) PROVE FALSE
  <2>1. \A k \in (d + 1)..r : unit[k].up >= d
    BY <1>5 DEF Spans
  <2>2. ASSUME NEW k \in (d + 1)..j PROVE unit[k].up >= d
    <3>1. CASE k <= r
      BY <1>2, <2>1, <3>1
    <3>2. CASE r < k
      BY <1>2, <1>5, <3>2
    <3> QED BY <1>2, <3>1, <3>2
  <2> QED BY <1>4, <2>2 DEF Spans
<1>6. d # r
  <2>1. Spans(r, r)
    BY DEF Spans
  <2> QED BY <1>5, <2>1
<1>7. CASE d < r
  BY <1>5, <1>7 DEF Ready
<1>8. CASE r < d
  <2>1. \A k \in (r + 1)..d : unit[k].up >= r
    BY <1>2, <1>8
  <2> QED BY <1>8, <2>1 DEF Ready, Spans
<1> QED BY <1>2, <1>6, <1>7, <1>8

LEMMA NoSpan ==
  ASSUME UnitOK, NEW d \in 1..Len(unit), unit[d].kind # "struct", NEW r \in 1..Len(unit), d < r
  PROVE  ~Spans(d, r)
<1>1. Len(unit) \in Nat
  BY UnitFacts
<1>2. Inside(d) = {}
  BY NoInside
<1>3. r \in (d + 1)..Len(unit)
  BY <1>1
<1> QED BY <1>2, <1>3 DEF Inside

LEMMA ValueUse ==
  ASSUME UnitOK, ChainsOK, NEW r \in 1..Len(unit), NEW j, Within(r, j),
         unit[j].kind = "struct", unit[j].shape = "value"
  PROVE  unit[j].to # 0 /\ Provided(r, unit[unit[j].to].name)
<1> DEFINE t == unit[j].to
           m == unit[t].name
<1>1. Len(unit) \in Nat /\ \A k \in 1..Len(unit) : Facts(k) /\ Leads(k)
  BY UnitFacts DEF ChainsOK
<1>2. j \in 1..Len(unit) /\ r <= j /\ \A k \in (r + 1)..j : unit[k].up >= r /\ unit[k].up \in Nat
  BY WithinFacts
<1>3. /\ t \in 1..j - 1 /\ t \in 1..Len(unit) /\ unit[t].kind \in {"struct", "enum", "typedef"}
      /\ ~IsAnonymous(unit[t]) /\ Leads(j) /\ Formed(unit[t]) /\ Facts(t)
  BY <1>1, <1>2 DEF Facts, Uses, Formed
<1>4. m # Anon
  BY <1>3, ParserAssumption DEF IsAnonymous, IsTag, Formed
<1>5. ASSUME getActualTypeCursor(t) # 0, ActualName(t) = m PROVE Provided(r, m)
  <2>1. PICK d \in (1..j - 1) \ Enclosing(unit[j].up) : IsTag(unit[d]) /\ unit[d].name = m /\ unit[d].def
    BY <1>3, <1>5 DEF Leads
  <2>2. Means(d, m) /\ d \in 1..Len(unit)
    BY <1>1, <1>2, <2>1 DEF Means
  <2>3. Ready(r, d)
    BY <2>1, ReadyOutside
  <2> QED BY <1>4, <2>2, <2>3 DEF Provided
<1> HIDE DEF m
<1>6. CASE unit[t].kind # "typedef"
  <2>1. Resolved[t] = t
    BY <1>3, <1>6, ResolvedFacts
  <2>2. getActualTypeCursor(t) # 0 /\ ActualName(t) = m
    BY <1>3, <1>6, <2>1 DEF getActualTypeCursor, ActualName, IsTypedef, m
  <2> QED BY <1>3, <1>5, <2>2 DEF m
<1>7. CASE unit[t].kind = "typedef" /\ ActualName(t) = m
  <2>1. getActualTypeCursor(t) # 0
    BY <1>4, <1>7 DEF ActualName
  <2> QED BY <1>3, <1>5, <1>7, <2>1 DEF m
<1>8. CASE unit[t].kind = "typedef" /\ ActualName(t) # m
  <2>1. unit[t].up = 0 /\ unit[t].def
    BY <1>3, <1>8 DEF Formed
  <2>2. Means(t, m)
    BY <1>8, <2>1 DEF Means, m
  <2>3. t <= r
    <3>1. CASE r < t
      <4>1. t \in (r + 1)..j
        BY <1>2, <1>3, <3>1
      <4>2. unit[t].up >= r
        BY <1>2, <4>1
      <4> QED BY <2>1, <4>2
    <3> QED BY <1>3, <3>1
  <2>4. t # r
    <3>1. CASE t = r
      <4>1. j \in Inside(r)
        BY <1>3, <3>1 DEF Within
      <4> QED BY <1>3, <1>8, <3>1, <4>1, NoInside
    <3> QED BY <3>1
  <2>5. t < r /\ ~Spans(t, r)
    BY <1>3, <1>8, <2>3, <2>4, NoSpan
  <2> QED BY <1>3, <1>4, <2>2, <2>5 DEF Provided, Ready, m
<1> QED BY <1>6, <1>7, <1>8

(* What the types in record r can be.                                      *)
RecordAt(j) == RecordType(NestedFields, OwnFields(j), j)
TagExpr(tag, m) == [kind |-> "TagExpr", Tag |-> tag, Name |-> Ident(m)]
ContentType(r, x) ==
  \/ x.kind \notin {"Ident", "TagExpr", "ArrayType", "RecordType"}
  \/ \E m : Provided(r, m) /\ x = Ident(m)
  \/ \E m, tag : Provided(r, m) /\ x = TagExpr(tag, m)
  \/ x = ArrayType(CInt)
  \/ \E j : Within(r, j) /\ unit[j].kind = "struct" /\ x = RecordAt(j)

LEMMA RecordHolds ==
  ASSUME UnitOK, NEW j \in 1..Len(unit), NEW y \in Holds(RecordAt(j))
  PROVE  \/ unit[j].shape # "none" /\ y = ProcessType(unit[j].to, unit[j].shape)
         \/ \E c \in Inside(j) : y = NestedType(NestedFields, c)
<1> DEFINE own == OwnFields(j)
           rest == NestedFields[FirstChild(j)]
           L == own \o rest
           O == {e \in {FieldOf(<<Ident("x")>>, ProcessType(unit[j].to, unit[j].shape))} : unit[j].shape # "none"}
           S == O \cup NestedFieldSet(Inside(j))
<1>1. own \in Seq(S)
  <2>1. CASE unit[j].shape = "none"
    <3>1. own = <<>>
      BY <2>1 DEF OwnFields
    <3> QED BY <3>1, EmptySeq, Zenon
  <2>2. CASE unit[j].shape # "none"
    <3> DEFINE e == FieldOf(<<Ident("x")>>, ProcessType(unit[j].to, unit[j].shape))
    <3>1. own = <<e>>
      BY <2>2 DEF OwnFields
    <3>2. e \in S
      BY <2>2
    <3> HIDE DEF own, e, S
    <3> QED BY <3>1, <3>2
  <2> QED BY <2>1, <2>2
<1>2. rest \in Seq(S)
  <2>1. rest \in Seq(NestedFieldSet(Inside(j))) /\ NestedFieldSet(Inside(j)) \in SUBSET S
    BY NestedSeq
  <2> HIDE DEF rest, S
  <2> QED BY <2>1, Widen
<1>3. L \in Seq(S) /\ DOMAIN L = 1..Len(L)
  <2> HIDE DEF own, rest, S
  <2> QED BY <1>1, <1>2
<1>4. \E k \in DOMAIN L : y = L[k].Type
  <2>1. /\ RecordAt(j).kind = "RecordType"
        /\ RecordAt(j).Fields = IF unit[j].def THEN FieldList(L) ELSE Nil
    BY DEF RecordAt, RecordType
  <2>2. FieldList(L).List = L
    <3> HIDE DEF L
    <3> QED BY DEF FieldList
  <2> HIDE DEF L
  <2>3. RecordAt(j).Fields # Nil
    BY <2>1 DEF Holds
  <2>4. RecordAt(j).Fields = FieldList(L)
    BY <2>1, <2>3
  <2>5. Holds(RecordAt(j)) = {FieldList(L).List[k].Type : k \in DOMAIN FieldList(L).List}
    BY <2>1, <2>3, <2>4 DEF Holds
  <2> QED BY <2>2, <2>5
<1>5. PICK e \in S : y = e.Type
  <2> HIDE DEF L, S
  <2> QED BY <1>3, <1>4
<1>6. \A names, type : FieldOf(names, type).Type = type
  BY DEF FieldOf
<1>7. CASE e \in O
  BY <1>5, <1>6, <1>7
<1>8. CASE e \in NestedFieldSet(Inside(j))
  <2>1. PICK c \in Inside(j) : e = NestedField(c)
    BY <1>8 DEF NestedFieldSet
  <2>2. y = NestedType(NestedFields, c)
    BY <1>5, <1>6, <2>1 DEF NestedField
  <2> QED BY <2>2
<1> QED BY <1>5, <1>7, <1>8

LEMMA NamedContent ==
  ASSUME NEW r, NEW i, i # 0, Provided(r, unit[i].name)
  PROVE  ContentType(r, ProcessType(i, "value"))
<1>1. ProcessType(i, "value") = NamedType(i)
  BY DEF ProcessType
<1>2. CASE IsTag(unit[i])
  <2>1. NamedType(i) = TagExpr(unit[i].kind, unit[i].name)
    BY <1>2 DEF NamedType, TagExpr
  <2> HIDE DEF TagExpr
  <2> QED BY <1>1, <2>1 DEF ContentType
<1>3. CASE ~IsTag(unit[i])
  <2>1. NamedType(i) = Ident(unit[i].name)
    BY <1>3 DEF NamedType
  <2> QED BY <1>1, <2>1 DEF ContentType
<1> QED BY <1>2, <1>3

LEMMA PointerContent == ASSUME NEW r, NEW i PROVE ContentType(r, ProcessType(i, "ptr"))
<1>1. ProcessType(i, "ptr").kind = "PointerType"
  BY DEF ProcessType, PointerType
<1> QED BY <1>1 DEF ContentType

LEMMA RecordContent ==
  ASSUME UnitOK, ChainsOK, NEW r \in 1..Len(unit), NEW j, Within(r, j), unit[j].kind = "struct",
         NEW y \in Holds(RecordAt(j))
  PROVE  ContentType(r, y)
<1>1. /\ j \in 1..Len(unit) /\ \A c \in Inside(j) : c \in Inside(r)
  BY WithinFacts
<1>2. Facts(j)
  BY <1>1, UnitFacts
<1>3. CASE unit[j].shape # "none" /\ y = ProcessType(unit[j].to, unit[j].shape)
  <2>1. CASE unit[j].shape = "value"
    BY <1>3, <2>1, ValueUse, NamedContent
  <2>2. CASE unit[j].shape = "ptr"
    BY <1>3, <2>2, PointerContent
  <2>3. CASE unit[j].shape = "array" /\ unit[j].to = 0
    <3>1. y = ArrayType(CInt)
      BY <1>3, <2>3 DEF ProcessType, NamedType
    <3> QED BY <3>1 DEF ContentType
  <2> QED BY <1>2, <1>3, <2>1, <2>2, <2>3 DEF Facts, Formed
<1>4. ASSUME NEW c \in Inside(j), y = NestedType(NestedFields, c) PROVE ContentType(r, y)
  <2>1. c \in Inside(r) /\ c \in 1..Len(unit) /\ unit[c].kind \in {"struct", "enum"} /\ c # 0
    BY <1>1, InsideKinds
  <2>2. CASE IsAnonymous(unit[c]) /\ unit[c].kind = "enum"
    <3>1. y.kind = "BuiltinType"
      BY <1>4, <2>2 DEF NestedType, CInt
    <3> QED BY <3>1 DEF ContentType
  <2>3. CASE IsAnonymous(unit[c]) /\ unit[c].kind = "struct"
    <3>1. y = RecordAt(c)
      BY <1>4, <2>3 DEF NestedType, RecordAt
    <3>2. Within(r, c)
      BY <2>1 DEF Within
    <3> QED BY <2>3, <3>1, <3>2 DEF ContentType
  <2>4. CASE ~IsAnonymous(unit[c]) /\ unit[c].def
    <3>1. y = ProcessType(c, "value")
      BY <1>4, <2>4 DEF NestedType
    <3>2. unit[c].name # Anon /\ Means(c, unit[c].name)
      BY <2>1, <2>4 DEF IsAnonymous, IsTag, Means
    <3>3. Ready(r, c)
      BY <2>1 DEF Inside, Ready
    <3>4. Provided(r, unit[c].name)
      BY <2>1, <3>2, <3>3 DEF Provided
    <3> QED BY <2>1, <3>1, <3>4, NamedContent
  <2>5. CASE ~IsAnonymous(unit[c]) /\ ~unit[c].def
    <3>1. y = ProcessType(c, "ptr")
      BY <1>4, <2>5 DEF NestedType
    <3> QED BY <3>1, PointerContent
  <2> QED BY <2>1, <2>2, <2>3, <2>4, <2>5
<1> QED BY <1>1, <1>3, <1>4, RecordHolds

LEMMA ContentStep ==
  ASSUME UnitOK, ChainsOK, NEW r \in 1..Len(unit), NEW x, ContentType(r, x), NEW y \in Holds(x)
  PROVE  ContentType(r, y)
<1>1. CASE x.kind \notin {"Ident", "TagExpr", "ArrayType", "RecordType"}
  BY <1>1 DEF Holds
<1>2. CASE \E m : x = Ident(m)
  BY <1>2 DEF Holds, Ident
<1>3. CASE \E m, tag : x = TagExpr(tag, m)
  BY <1>3 DEF Holds, TagExpr
<1>4. CASE x = ArrayType(CInt)
  <2>1. x.kind = "ArrayType" /\ x.Elt = CInt
    BY <1>4 DEF ArrayType
  <2>2. Holds(x) = {CInt}
    BY <2>1 DEF Holds
  <2> QED BY <2>2 DEF ContentType, CInt
<1>5. ASSUME NEW j, Within(r, j), unit[j].kind = "struct", x = RecordAt(j) PROVE ContentType(r, y)
  BY <1>5, RecordContent
<1> QED BY <1>1, <1>2, <1>3, <1>4, <1>5 DEF ContentType

(* Whatever is held is reached in as many steps as Held takes.             *)
Level(t) ==
  CHOOSE f : f = [k \in 0..MaxCursor + 1 |->
                    IF k = 0 THEN {t} ELSE UNION {Holds(x) : x \in f[k - 1]}]

LEMMA HeldIs == ASSUME NEW t PROVE Held(t) = UNION {Level(t)[k] : k \in 0..MaxCursor + 1}
  BY DEF Held, Level

LEMMA LevelDef ==
  ASSUME NEW t
  PROVE  /\ Level(t)[0] = {t}
         /\ \A k \in 1..MaxCursor + 1 : Level(t)[k] = UNION {Holds(x) : x \in Level(t)[k - 1]}
<1> DEFINE Grow(f, k) == IF k = 0 THEN {t} ELSE UNION {Holds(x) : x \in f[k - 1]}
           Def(f, n) == f = [k \in 0..n |-> Grow(f, k)]
           T == {n \in Nat : \E f : Def(f, n)}
<1>1. MaxCursor \in Nat
  BY ParserAssumption
<1>2. 0 \in T
  <2>1. Def([k \in 0..0 |-> {t}], 0)
    OBVIOUS
  <2> QED BY <2>1
<1>3. ASSUME NEW n \in Nat, n \in T PROVE n + 1 \in T
  <2>1. PICK f : Def(f, n)
    BY <1>3
  <2> DEFINE g == [k \in 0..n + 1 |-> IF k = n + 1 THEN Grow(f, k) ELSE f[k]]
  <2>2. ASSUME NEW k \in 0..n + 1 PROVE g[k] = Grow(g, k)
    <3>1. k # 0 => k - 1 \in 0..n /\ g[k - 1] = f[k - 1]
      OBVIOUS
    <3>2. Grow(g, k) = Grow(f, k)
      <4> HIDE DEF g
      <4> QED BY <3>1
    <3>3. k # n + 1 => k \in 0..n
      OBVIOUS
    <3>4. k # n + 1 => f[k] = Grow(f, k)
      <4> HIDE DEF Grow
      <4> QED BY <2>1, <3>3
    <3>5. g[k] = IF k = n + 1 THEN Grow(f, k) ELSE f[k]
      <4> HIDE DEF Grow
      <4> QED OBVIOUS
    <3> HIDE DEF g, Grow
    <3> QED BY <3>2, <3>4, <3>5
  <2>3. g = [k \in 0..n + 1 |-> g[k]]
    OBVIOUS
  <2>4. Def(g, n + 1)
    <3> HIDE DEF g, Grow
    <3> QED BY <2>2, <2>3
  <2> HIDE DEF g, Grow
  <2> QED BY <2>4
<1>4. MaxCursor + 1 \in T
  <2> HIDE DEF T
  <2>1. Nat \subseteq T
    BY <1>2, <1>3, OnNat
  <2> QED BY <1>1, <2>1
<1>5. \E f : Def(f, MaxCursor + 1)
  BY <1>4
<1>6. Def(Level(t), MaxCursor + 1)
  BY <1>5 DEF Level
<1>7. \A k \in 0..MaxCursor + 1 : Level(t)[k] = Grow(Level(t), k)
  <2> HIDE DEF Level, Grow
  <2> QED BY <1>6
<1>8. 0 \in 0..MaxCursor + 1 /\ \A k \in 1..MaxCursor + 1 : k \in 0..MaxCursor + 1 /\ k # 0
  BY <1>1
<1> QED BY <1>7, <1>8

LEMMA HeldContent ==
  ASSUME UnitOK, ChainsOK, NEW r \in 1..Len(unit), unit[r].kind = "struct", NEW x \in Held(RecordAt(r))
  PROVE  ContentType(r, x)
<1> DEFINE f == Level(RecordAt(r))
           T == {k \in 0..MaxCursor + 1 : \A y \in f[k] : ContentType(r, y)}
<1>1. /\ f[0] = {RecordAt(r)} /\ MaxCursor + 1 \in Nat
      /\ \A k \in 1..MaxCursor + 1 : f[k] = UNION {Holds(y) : y \in f[k - 1]}
  BY LevelDef, ParserAssumption
<1> HIDE DEF f
<1>2. ASSUME NEW k \in 0..MaxCursor + 1, \A l \in 0..MaxCursor + 1 : l < k => l \in T PROVE k \in T
  <2>1. CASE k = 0
    <3>1. ContentType(r, RecordAt(r))
      BY DEF ContentType, Within
    <3> QED BY <1>1, <2>1, <3>1
  <2>2. CASE k # 0
    <3>1. k - 1 \in 0..MaxCursor + 1 /\ k - 1 < k /\ k \in 1..MaxCursor + 1
      BY <1>1, <2>2
    <3>2. \A y \in f[k - 1] : ContentType(r, y)
      BY <1>2, <3>1
    <3> SUFFICES ASSUME NEW z \in f[k] PROVE ContentType(r, z)
      OBVIOUS
    <3>3. PICK y \in f[k - 1] : z \in Holds(y)
      BY <1>1, <3>1
    <3> QED BY <3>2, <3>3, ContentStep
  <2> QED BY <2>1, <2>2
<1>3. \A k \in 0..MaxCursor + 1 : k \in T
  <2> HIDE DEF T
  <2> QED BY <1>1, <1>2, OnBelow
<1>4. PICK k \in 0..MaxCursor + 1 : x \in f[k]
  BY HeldIs DEF f
<1> QED BY <1>3, <1>4

(* What is ready for a record is declared before it.                       *)
LEMMA ReadyDone ==
  ASSUME UnitOK, NEW r \in 1..Len(unit), NEW d \in 1..Len(unit), Ready(r, d), NEW n \in Nat, Done(n, r)
  PROVE  Done(n, d)
<1>1. Len(unit) \in Nat
  BY UnitFacts
<1>2. CASE d < r
  <2>1. \A k \in n..d : k \in n..r
    BY <1>1, <1>2
  <2> QED BY <1>1, <1>2, <2>1 DEF Done
<1>3. CASE r < d /\ Spans(r, d)
  <2>1. \A k \in (r + 1)..d : unit[k].up >= r
    BY <1>3 DEF Spans
  <2>2. ASSUME NEW k \in n..d PROVE unit[k].up # 0
    <3>1. CASE r < k
      <4>1. k \in (r + 1)..d /\ k \in 1..Len(unit)
        BY <1>1, <3>1
      <4>2. unit[k].up >= r /\ unit[k].up \in Nat
        BY <2>1, <4>1, UnitFacts DEF Facts
      <4> QED BY <4>2
    <3>2. CASE k <= r
      <4>1. k \in n..r /\ ~(r < n)
        BY <1>1, <3>2
      <4> QED BY <4>1 DEF Done
    <3> QED BY <1>1, <3>1, <3>2
  <2> QED BY <2>2 DEF Done
<1> QED BY <1>2, <1>3 DEF Ready

LEMMA ContentsFirstHolds == ASSUME ParserInv, NilIsNoNode PROVE ContentsFirst
<1> SUFFICES ASSUME NEW p \in DOMAIN decls, decls[p].kind = "TypeDecl", NEW n \in ByValue(decls[p].Type)
             PROVE  \E k \in Defining(n) : k < p
  BY DEF ContentsFirst
<1>1. PICK src : Sourced(src)
  BY SourcedExists
<1>2. UnitOK /\ ChainsOK /\ Len(unit) \in Nat /\ at \in Nat
  BY UnitFacts DEF ParserInv
<1>3. p \in 1..Len(src) /\ Len(src) \in Nat
  BY <1>1 DEF Sourced
<1> DEFINE r == src[p]
<1>4. r \in 1..Len(unit) /\ Yields(r) /\ Done(at, r) /\ decls[p] = DeclAt(r)
  BY <1>1, <1>3 DEF Sourced, Yielded
<1> HIDE DEF r
<1>5. unit[r].kind = "struct" /\ decls[p].Type = RecordAt(r)
  <2>1. unit[r].kind = "struct"
    BY <1>2, <1>4, DeclKinds
  <2> QED BY <1>2, <1>4, <2>1, DeclKinds DEF ProcessRecordType, RecordAt
<1>6. Provided(r, n)
  <2>1. PICK x \in Held(RecordAt(r)) : \/ x.kind = "Ident" /\ n = x.Name
                                       \/ x.kind = "TagExpr" /\ n = x.Name.Name
    BY <1>5 DEF ByValue
  <2>2. ContentType(r, x)
    BY <1>2, <1>4, <1>5, HeldContent
  <2>3. /\ \A m : Ident(m).kind = "Ident" /\ Ident(m).Name = m
        /\ \A m, tag : TagExpr(tag, m).kind = "TagExpr" /\ TagExpr(tag, m).Name.Name = m
        /\ ArrayType(CInt).kind = "ArrayType"
        /\ \A j : RecordAt(j).kind = "RecordType"
    BY DEF Ident, TagExpr, ArrayType, RecordAt, RecordType
  <2> HIDE DEF TagExpr, RecordAt
  <2> QED BY <2>1, <2>2, <2>3 DEF ContentType
<1>7. PICK d \in 1..Len(unit) : Means(d, n) /\ Ready(r, d) /\ n # Anon
  BY <1>6 DEF Provided
<1>8. d \in Yielded(at) /\ Yields(d)
  <2>1. Yields(d) /\ Done(at, d)
    BY <1>2, <1>4, <1>7, MeansYields, ReadyDone
  <2> QED BY <2>1 DEF Yielded
<1>9. PICK q \in 1..Len(src) : src[q] = d
  BY <1>1, <1>8 DEF Sourced
<1>10. q \in Defining(n)
  <2>1. decls[q] = DeclAt(d) /\ q \in DOMAIN decls
    BY <1>1, <1>9 DEF Sourced
  <2>2. Full(DeclAt(d)) /\ DeclAt(d).Name = Ident(n)
    BY <1>2, <1>7, <1>8, NamedDecl
  <2> QED BY <2>1, <2>2 DEF Defining
<1>11. q < p
  <2>1. d # r
    BY <1>7 DEF Ready
  <2>2. q # p
    BY <1>9, <2>1 DEF r
  <2>3. ASSUME p < q PROVE FALSE
    <3>1. Before(r, d)
      BY <1>1, <1>3, <1>9, <2>3 DEF Sourced, InOrder, r
    <3> QED BY <1>4, <1>7, <3>1 DEF Before, Ready
  <2> QED BY <1>3, <2>2, <2>3
<1> QED BY <1>10, <1>11

-----------------------------------------------------------------------------
(* The exchange of the AST.  What a node holds k levels down, and Wire's   *)
(* recursions, for nodes of which nothing is left at some level.           *)
Below(x, k) == W!Reach(x)[k].last
Short(x, k) == Below(x, k) = {}

LEMMA ReachDef ==
  ASSUME NEW x
  PROVE  /\ W!Reach(x)[0] = [all |-> {x}, last |-> {x}]
         /\ \A k \in Nat : W!Reach(x)[k + 1] = W!Down(W!Reach(x)[k])
<1> DEFINE Body(f, k) == IF k = 0 THEN [all |-> {x}, last |-> {x}] ELSE W!Down(f[k - 1])
           Def(f, n) == \A k \in 0..n : f[k] = Body(f, k)
           T == {n \in Nat : \E f : Def(f, n)}
           First(n) == CHOOSE f : Def(f, n)
           Eq(f, g, n) == \A k \in 0..n : f[k] = g[k]
<1>1. 0 \in T
  <2>1. Def([k \in 0..0 |-> [all |-> {x}, last |-> {x}]], 0)
    OBVIOUS
  <2> QED BY <2>1
<1>2. ASSUME NEW n \in Nat, n \in T PROVE n + 1 \in T
  <2>1. PICK f : Def(f, n)
    BY <1>2
  <2> DEFINE g == [k \in 0..n + 1 |-> IF k = n + 1 THEN W!Down(f[n]) ELSE f[k]]
  <2> HIDE DEF Body
  <2>2. ASSUME NEW k \in 0..n + 1 PROVE g[k] = Body(g, k)
    <3>1. CASE k = n + 1
      <4>1. g[k] = W!Down(f[n]) /\ g[k - 1] = f[n] /\ k - 1 = n /\ k # 0
        BY <3>1
      <4> HIDE DEF g
      <4> QED BY <4>1 DEF Body
    <3>2. CASE k \in 0..n
      <4>1. g[k] = f[k] /\ (k # 0 => g[k - 1] = f[k - 1])
        BY <3>2
      <4>2. f[k] = Body(f, k)
        BY <2>1, <3>2
      <4> HIDE DEF g
      <4> QED BY <4>1, <4>2 DEF Body
    <3> QED BY <3>1, <3>2
  <2>3. Def(g, n + 1)
    <3> HIDE DEF g
    <3> QED BY <2>2
  <2> HIDE DEF g
  <2> QED BY <2>3
<1>3. \A n \in Nat : Def(First(n), n)
  <2>1. Nat \subseteq T
    <3> HIDE DEF T
    <3> QED BY <1>1, <1>2, OnNat
  <2> HIDE DEF Def
  <2> QED BY <2>1
<1>4. ASSUME NEW f, NEW g, NEW n \in Nat, Def(f, n), Def(g, n) PROVE f[n] = g[n]
  <2> HIDE DEF Body
  <2> DEFINE S == {k \in Nat : k <= n => f[k] = g[k]}
  <2>1. 0 \in S
    <3>1. f[0] = Body(f, 0) /\ g[0] = Body(g, 0)
      BY <1>4
    <3> QED BY <3>1 DEF Body
  <2>2. ASSUME NEW k \in Nat, k \in S PROVE k + 1 \in S
    <3> SUFFICES ASSUME k + 1 <= n PROVE f[k + 1] = g[k + 1]
      OBVIOUS
    <3>1. f[k] = g[k] /\ k + 1 \in 0..n /\ k + 1 # 0 /\ (k + 1) - 1 = k
      BY <2>2
    <3>2. f[k + 1] = Body(f, k + 1) /\ g[k + 1] = Body(g, k + 1)
      BY <1>4, <3>1
    <3> QED BY <3>1, <3>2 DEF Body
  <2>3. n \in S
    <3> HIDE DEF S
    <3> QED BY <2>1, <2>2, OnNat
  <2> QED BY <2>3
<1> DEFINE h == [k \in Nat |-> First(k)[k]]
<1>5. ASSUME NEW k \in Nat PROVE h[k] = Body(h, k)
  <2>1. First(k)[k] = Body(First(k), k)
    <3>1. k \in 0..k
      OBVIOUS
    <3> HIDE DEF First, Body
    <3> QED BY <1>3, <3>1
  <2>2. CASE k # 0
    <3>1. k - 1 \in Nat /\ \A i \in 0..k - 1 : i \in 0..k
      BY <2>2
    <3>2. Def(First(k), k - 1) /\ Def(First(k - 1), k - 1)
      <4> HIDE DEF First, Body
      <4> QED BY <1>3, <3>1
    <3>3. First(k)[k - 1] = First(k - 1)[k - 1]
      <4> HIDE DEF First, Def
      <4> QED BY <1>4, <3>1, <3>2
    <3>4. h[k] = First(k)[k] /\ h[k - 1] = First(k - 1)[k - 1]
      <4> HIDE DEF First
      <4> QED BY <3>1
    <3> HIDE DEF h, First
    <3> QED BY <2>1, <2>2, <3>3, <3>4
  <2>3. CASE k = 0
    <3>1. h[k] = First(k)[k]
      <4> HIDE DEF First
      <4> QED OBVIOUS
    <3> HIDE DEF h, First
    <3> QED BY <2>1, <2>3, <3>1
  <2> QED BY <2>2, <2>3
<1>6. h = [k \in Nat |-> Body(h, k)]
  <2>1. h = [k \in Nat |-> h[k]]
    <3> HIDE DEF First
    <3> QED OBVIOUS
  <2> HIDE DEF h, Body
  <2> QED BY <1>5, <2>1
<1>7. W!Reach(x) = [k \in Nat |-> Body(W!Reach(x), k)]
  <2>1. \E f : f = [k \in Nat |-> Body(f, k)]
    <3> HIDE DEF h
    <3> QED BY <1>6
  <2>2. W!Reach(x) = CHOOSE f : f = [k \in Nat |-> Body(f, k)]
    BY DEF W!Reach
  <2> HIDE DEF Body
  <2> QED BY <2>1, <2>2
<1>8. \A k \in Nat : W!Reach(x)[k] = Body(W!Reach(x), k)
  <2> HIDE DEF Body
  <2> QED BY <1>7
<1>9. \A k \in Nat : k + 1 \in Nat /\ k + 1 # 0 /\ (k + 1) - 1 = k
  OBVIOUS
<1> QED BY <1>8, <1>9

LEMMA BelowNext ==
  ASSUME NEW x
  PROVE  /\ Below(x, 0) = {x}
         /\ \A k \in Nat : Below(x, k + 1) = UNION {W!Parts(y) : y \in Below(x, k)}
<1>1. Below(x, 0) = {x}
  <2>1. W!Reach(x)[0] = [all |-> {x}, last |-> {x}]
    BY ReachDef
  <2>2. [all |-> {x}, last |-> {x}].last = {x}
    OBVIOUS
  <2> QED BY <2>1, <2>2 DEF Below
<1>2. ASSUME NEW k \in Nat
      PROVE  Below(x, k + 1) = UNION {W!Parts(y) : y \in Below(x, k)}
  <2>1. W!Reach(x)[k + 1] = W!Down(W!Reach(x)[k])
    BY ReachDef
  <2>2. \A r : W!Down(r).last = UNION {W!Parts(y) : y \in r.last}
    BY DEF W!Down
  <2> QED BY <2>1, <2>2 DEF Below
<1> QED BY <1>1, <1>2

LEMMA BelowParts ==
  ASSUME NEW x, NEW k \in Nat
  PROVE  Below(x, k + 1) = UNION {Below(y, k) : y \in W!Parts(x)}
<1> DEFINE T == {n \in Nat : Below(x, n + 1) = UNION {Below(y, n) : y \in W!Parts(x)}}
<1>1. 0 \in T
  <2>1. Below(x, 0 + 1) = W!Parts(x)
    <3>1. Below(x, 0) = {x}
      BY BelowNext
    <3>2. Below(x, 0 + 1) = UNION {W!Parts(y) : y \in Below(x, 0)}
      BY BelowNext
    <3> QED BY <3>1, <3>2
  <2> QED BY <2>1, BelowNext
<1>2. ASSUME NEW n \in Nat, n \in T PROVE n + 1 \in T
  <2>1. Below(x, (n + 1) + 1) = UNION {W!Parts(z) : z \in Below(x, n + 1)}
    BY BelowNext
  <2>2. Below(x, n + 1) = UNION {Below(y, n) : y \in W!Parts(x)}
    BY <1>2
  <2>3. \A y : Below(y, n + 1) = UNION {W!Parts(z) : z \in Below(y, n)}
    BY BelowNext
  <2>4. Below(x, (n + 1) + 1) = UNION {Below(y, n + 1) : y \in W!Parts(x)}
    BY <2>1, <2>2, <2>3
  <2> QED BY <2>4
<1>3. k \in T
  <2> HIDE DEF T
  <2> QED BY <1>1, <1>2, OnNat
<1> QED BY <1>3

LEMMA ShortStep ==
  ASSUME NEW x, NEW h \in Nat
  PROVE  /\ ~Short(x, 0)
         /\ Short(x, h + 1) <=> \A y \in W!Parts(x) : Short(y, h)
         /\ Short(x, h) => Short(x, h + 1)
<1>1. ~Short(x, 0)
  BY BelowNext DEF Short
<1>2. Short(x, h + 1) <=> \A y \in W!Parts(x) : Short(y, h)
  BY BelowParts DEF Short
<1>3. Short(x, h) => Short(x, h + 1)
  BY BelowNext DEF Short
<1> QED BY <1>1, <1>2, <1>3

LEMMA ShortMore ==
  ASSUME NEW x, NEW h \in Nat, Short(x, h), NEW n \in Nat, h <= n
  PROVE  Short(x, n)
<1> DEFINE T == {k \in Nat : Short(x, h + k)}
<1>1. 0 \in T
  <2>1. h + 0 = h
    OBVIOUS
  <2> QED BY <2>1
<1>2. ASSUME NEW k \in Nat, k \in T PROVE k + 1 \in T
  <2>1. h + k \in Nat /\ h + (k + 1) = (h + k) + 1
    OBVIOUS
  <2>2. Short(x, (h + k) + 1)
    BY <1>2, <2>1, ShortStep
  <2> QED BY <2>1, <2>2
<1>3. n - h \in T
  <2>1. n - h \in Nat
    OBVIOUS
  <2> HIDE DEF T
  <2> QED BY <1>1, <1>2, <2>1, OnNat
<1>4. h + (n - h) = n
  OBVIOUS
<1> QED BY <1>3, <1>4

Depth == 3 * MaxCursor + 4

LEMMA DepthNat == Depth \in Nat
<1>1. MaxCursor \in Nat
  BY ParserAssumption
<1> QED BY <1>1 DEF Depth

(* Everything inside a node is found by W!Inside, and is as short.         *)
LEMMA InsideAll ==
  ASSUME NEW x, Short(x, Depth + 1)
  PROVE  /\ x \in W!Inside(x)
         /\ \A y \in W!Inside(x) : W!Parts(y) \subseteq W!Inside(x) /\ Short(y, Depth + 1)
         /\ \A k \in 0..Depth : Below(x, k) \subseteq W!Inside(x)
         /\ \A y \in W!Inside(x) : \E k \in 0..Depth : y \in Below(x, k)
<1> USE DepthNat
<1> DEFINE T == {n \in Nat : W!Reach(x)[n].all = UNION {Below(x, k) : k \in 0..n}}
<1>1. 0 \in T
  <2>1. W!Reach(x)[0].all = {x} /\ Below(x, 0) = {x}
    <3>1. W!Reach(x)[0] = [all |-> {x}, last |-> {x}]
      BY ReachDef
    <3> QED BY <3>1 DEF Below
  <2>2. 0..0 = {0}
    OBVIOUS
  <2>3. W!Reach(x)[0].all = UNION {Below(x, k) : k \in 0..0}
    BY <2>1, <2>2
  <2> QED BY <2>3
<1>2. ASSUME NEW n \in Nat, n \in T PROVE n + 1 \in T
  <2>1. W!Reach(x)[n + 1].all = W!Reach(x)[n].all \cup Below(x, n + 1)
    <3>1. W!Reach(x)[n + 1] = W!Down(W!Reach(x)[n])
      BY ReachDef
    <3>2. \A r : W!Down(r).all = r.all \cup W!Down(r).last
      BY DEF W!Down
    <3> QED BY <3>1, <3>2 DEF Below
  <2>2. W!Reach(x)[n].all = UNION {Below(x, k) : k \in 0..n}
    BY <1>2
  <2>3. 0..n + 1 = 0..n \cup {n + 1}
    OBVIOUS
  <2>4. W!Reach(x)[n + 1].all = UNION {Below(x, k) : k \in 0..n + 1}
    BY <2>1, <2>2, <2>3
  <2> QED BY <2>4
<1>3. Depth \in T
  <2> HIDE DEF T
  <2> QED BY <1>1, <1>2, OnNat
<1>4. W!Inside(x) = UNION {Below(x, k) : k \in 0..Depth}
  BY <1>3 DEF W!Inside, Depth
<1>5. x \in W!Inside(x)
  <2>1. 0 \in 0..Depth /\ x \in Below(x, 0)
    BY BelowNext
  <2> QED BY <1>4, <2>1
<1>6. ASSUME NEW k \in 0..Depth, NEW y \in Below(x, k) PROVE W!Parts(y) \subseteq W!Inside(x)
  <2>1. k \in Nat /\ (k = Depth \/ k + 1 \in 0..Depth)
    OBVIOUS
  <2>2. W!Parts(y) \subseteq Below(x, k + 1)
    <3> HIDE DEF T
    <3>1. Below(x, k + 1) = UNION {W!Parts(z) : z \in Below(x, k)}
      BY <2>1, BelowNext
    <3> QED BY <3>1
  <2>3. CASE k = Depth
    BY <2>2, <2>3 DEF Short
  <2>4. CASE k + 1 \in 0..Depth
    BY <1>4, <2>2, <2>4
  <2> QED BY <2>1, <2>3, <2>4
<1> DEFINE S == {k \in Nat : \A y \in Below(x, k) : Short(y, Depth + 1)}
<1>7. 0 \in S
  BY BelowNext
<1>8. ASSUME NEW k \in Nat, k \in S PROVE k + 1 \in S
  <2> SUFFICES ASSUME NEW y \in Below(x, k + 1) PROVE Short(y, Depth + 1)
    OBVIOUS
  <2>1. PICK z \in Below(x, k) : y \in W!Parts(z)
    <3>1. Below(x, k + 1) = UNION {W!Parts(z) : z \in Below(x, k)}
      BY BelowNext
    <3> QED BY <3>1
  <2>2. Short(z, Depth + 1)
    BY <1>8
  <2>3. Short(y, Depth)
    BY <2>1, <2>2, ShortStep
  <2> QED BY <2>3, ShortStep
<1>9. \A k \in Nat : \A y \in Below(x, k) : Short(y, Depth + 1)
  <2>1. Nat \subseteq S
    <3> HIDE DEF S
    <3> QED BY <1>7, <1>8, OnNat
  <2> QED BY <2>1
<1>10. \A k \in 0..Depth : k \in Nat
  OBVIOUS
<1> QED BY <1>4, <1>5, <1>6, <1>9, <1>10

-----------------------------------------------------------------------------
(* Every kind of node is read with the fields it is written with, and what *)
(* is decoded as a node has a kind that there is an unmarshaler for.       *)
Kinds == DOMAIN W!Written

LEMMA ReadKinds ==
  /\ DOMAIN W!TypeReads =
       {"LvalueRefType", "RvalueRefType", "PointerType", "BlockPointerType", "ArrayType"}
  /\ DOMAIN W!FieldReads = {"Field", "FieldList"}
  /\ DOMAIN W!NameReads = {"TagExpr", "ScopingExpr"}
  /\ DOMAIN W!EnumReads = {"EnumItem", "EnumType"}
  /\ DOMAIN W!RecordReads = {"RecordType", "FuncType"}
  /\ DOMAIN W!DeclReads = {"FuncDecl", "TypeDecl", "TypedefDecl", "EnumTypeDecl"}
  /\ DOMAIN W!FileReads = {"File"}
  BY DEF W!TypeReads, W!FieldReads, W!NameReads, W!EnumReads, W!RecordReads, W!DeclReads, W!FileReads

LEMMA KindsAre ==
  Kinds = DOMAIN W!TypeReads \cup DOMAIN W!FieldReads \cup DOMAIN W!NameReads \cup DOMAIN W!EnumReads
            \cup DOMAIN W!RecordReads \cup DOMAIN W!DeclReads \cup DOMAIN W!FileReads
<1>1. Kinds = {"File", "EnumTypeDecl", "TypedefDecl", "TypeDecl", "FuncDecl", "EnumType", "EnumItem",
               "RecordType", "FuncType", "FieldList", "Field", "TagExpr", "ScopingExpr",
               "LvalueRefType", "RvalueRefType", "PointerType", "BlockPointerType", "ArrayType"}
  BY DEF Kinds, W!Written
<1> QED BY <1>1, ReadKinds

LEMMA ReadGroups ==
  ASSUME NEW k
  PROVE  /\ k \in DOMAIN W!TypeReads => W!Reads(k) = W!TypeReads[k]
         /\ k \in DOMAIN W!FieldReads => W!Reads(k) = W!FieldReads[k]
         /\ k \in DOMAIN W!NameReads => W!Reads(k) = W!NameReads[k]
         /\ k \in DOMAIN W!EnumReads => W!Reads(k) = W!EnumReads[k]
         /\ k \in DOMAIN W!RecordReads => W!Reads(k) = W!RecordReads[k]
         /\ k \in DOMAIN W!DeclReads => W!Reads(k) = W!DeclReads[k]
         /\ k \in DOMAIN W!FileReads => W!Reads(k) = W!FileReads[k]
  BY ReadKinds DEF W!Reads

ReadsAsWritten(k, reads) ==
  /\ DOMAIN reads = W!Written[k]
  /\ \A f \in DOMAIN reads :
       reads[f] = W!Plain \/ (reads[f] \subseteq W!nodeUnmarshalers /\ f \notin W!Scalars)

LEMMA WrittenAre ==
  LET w == W!Written IN
  /\ w["File"] = {"decls", "includes", "macros"}
  /\ w["EnumType"] = {"Items"} /\ w["EnumItem"] = {"Name", "Value"}
  /\ w["RecordType"] = {"Tag", "Fields", "Methods"} /\ w["FuncType"] = {"Params", "Ret"}
  /\ w["FieldList"] = {"List"} /\ w["Field"] = {"Type", "Doc", "Comment", "Flags", "Names"}
  /\ w["TagExpr"] = {"Name", "Tag"} /\ w["ScopingExpr"] = {"X", "Parent"}
  /\ w["LvalueRefType"] = {"X"} /\ w["RvalueRefType"] = {"X"} /\ w["PointerType"] = {"X"}
  /\ w["BlockPointerType"] = {"X"} /\ w["ArrayType"] = {"Elt", "Len"}
  BY DEF W!Written

LEMMA Accepted ==
  /\ W!Expr \subseteq W!nodeUnmarshalers /\ W!Decl \subseteq W!nodeUnmarshalers
  /\ {"FuncType", "FieldList", "Field", "EnumItem", "FuncDecl", "RecordType", "EnumType"}
       \subseteq W!nodeUnmarshalers
  BY DEF W!Expr, W!Decl, W!nodeUnmarshalers

(* What each kind is read with.                                            *)
LEMMA ReadsAre ==
  /\ W!Reads("LvalueRefType") = [X |-> W!Expr]
  /\ W!Reads("RvalueRefType") = [X |-> W!Expr]
  /\ W!Reads("PointerType") = [X |-> W!Expr]
  /\ W!Reads("BlockPointerType") = [X |-> {"FuncType"}]
  /\ W!Reads("ArrayType") = [Elt |-> W!Expr, Len |-> W!Expr]
  /\ W!Reads("Field") = [Type |-> W!Expr, Doc |-> W!Plain, Comment |-> W!Plain, Flags |-> W!Plain, Names |-> W!Plain]
  /\ W!Reads("FieldList") = [List |-> {"Field"}]
  /\ W!Reads("TagExpr") = [Tag |-> W!Plain, Name |-> W!Expr]
  /\ W!Reads("ScopingExpr") = [Parent |-> W!Expr, X |-> W!Plain]
  /\ W!Reads("EnumItem") = [Name |-> W!Plain, Value |-> W!Expr]
  /\ W!Reads("EnumType") = [Items |-> {"EnumItem"}]
  /\ W!Reads("RecordType") = [Tag |-> W!Plain, Fields |-> {"FieldList"}, Methods |-> {"FuncDecl"}]
  /\ W!Reads("FuncType") = [Params |-> {"FieldList"}, Ret |-> W!Expr]
  /\ W!Reads("File") = [decls |-> W!Decl, includes |-> W!Plain, macros |-> W!Plain]
<1>1. W!Reads("LvalueRefType") = [X |-> W!Expr]
  <2>1. W!TypeReads["LvalueRefType"] = [X |-> W!Expr]
    BY DEF W!TypeReads
  <2> QED BY <2>1, ReadKinds, ReadGroups
<1>2. W!Reads("RvalueRefType") = [X |-> W!Expr]
  <2>1. W!TypeReads["RvalueRefType"] = [X |-> W!Expr]
    BY DEF W!TypeReads
  <2> QED BY <2>1, ReadKinds, ReadGroups
<1>3. W!Reads("PointerType") = [X |-> W!Expr]
  <2>1. W!TypeReads["PointerType"] = [X |-> W!Expr]
    BY DEF W!TypeReads
  <2> QED BY <2>1, ReadKinds, ReadGroups
<1>4. W!Reads("BlockPointerType") = [X |-> {"FuncType"}]
  <2>1. W!TypeReads["BlockPointerType"] = [X |-> {"FuncType"}]
    BY DEF W!TypeReads
  <2> QED BY <2>1, ReadKinds, ReadGroups
<1>5. W!Reads("ArrayType") = [Elt |-> W!Expr, Len |-> W!Expr]
  <2>1. W!TypeReads["ArrayType"] = [Elt |-> W!Expr, Len |-> W!Expr]
    BY DEF W!TypeReads
  <2> QED BY <2>1, ReadKinds, ReadGroups
<1>6. /\ W!Reads("Field") = W!FieldReads["Field"]
      /\ W!FieldReads["Field"] = [Type |-> W!Expr, Doc |-> W!Plain, Comment |-> W!Plain,
                                  Flags |-> W!Plain, Names |-> W!Plain]
  <2>1. W!Reads("Field") = W!FieldReads["Field"]
    BY ReadKinds, ReadGroups
  <2> QED BY <2>1 DEF W!FieldReads
<1>7. W!Reads("FieldList") = [List |-> {"Field"}]
  <2>1. W!FieldReads["FieldList"] = [List |-> {"Field"}]
    BY DEF W!FieldReads
  <2> QED BY <2>1, ReadKinds, ReadGroups
<1>8. W!Reads("TagExpr") = [Tag |-> W!Plain, Name |-> W!Expr]
  <2>1. W!NameReads["TagExpr"] = [Tag |-> W!Plain, Name |-> W!Expr]
    BY DEF W!NameReads
  <2> QED BY <2>1, ReadKinds, ReadGroups
<1>9. W!Reads("ScopingExpr") = [Parent |-> W!Expr, X |-> W!Plain]
  <2>1. W!NameReads["ScopingExpr"] = [Parent |-> W!Expr, X |-> W!Plain]
    BY DEF W!NameReads
  <2> QED BY <2>1, ReadKinds, ReadGroups
<1>10. W!Reads("EnumItem") = [Name |-> W!Plain, Value |-> W!Expr]
  <2>1. W!EnumReads["EnumItem"] = [Name |-> W!Plain, Value |-> W!Expr]
    BY DEF W!EnumReads
  <2> QED BY <2>1, ReadKinds, ReadGroups
<1>11. W!Reads("EnumType") = [Items |-> {"EnumItem"}]
  <2>1. W!EnumReads["EnumType"] = [Items |-> {"EnumItem"}]
    BY DEF W!EnumReads
  <2> QED BY <2>1, ReadKinds, ReadGroups
<1>12. W!Reads("RecordType") = [Tag |-> W!Plain, Fields |-> {"FieldList"}, Methods |-> {"FuncDecl"}]
  <2>1. W!RecordReads["RecordType"] = [Tag |-> W!Plain, Fields |-> {"FieldList"}, Methods |-> {"FuncDecl"}]
    BY DEF W!RecordReads
  <2> QED BY <2>1, ReadKinds, ReadGroups
<1>13. W!Reads("FuncType") = [Params |-> {"FieldList"}, Ret |-> W!Expr]
  <2>1. W!RecordReads["FuncType"] = [Params |-> {"FieldList"}, Ret |-> W!Expr]
    BY DEF W!RecordReads
  <2> QED BY <2>1, ReadKinds, ReadGroups
<1>14. W!Reads("File") = [decls |-> W!Decl, includes |-> W!Plain, macros |-> W!Plain]
  <2>1. W!FileReads["File"] = [decls |-> W!Decl, includes |-> W!Plain, macros |-> W!Plain]
    BY DEF W!FileReads
  <2> QED BY <2>1, ReadKinds, ReadGroups
<1> QED BY <1>1, <1>2, <1>3, <1>4, <1>5, <1>6, <1>7, <1>8, <1>9, <1>10, <1>11, <1>12, <1>13, <1>14

LEMMA TypesAsWritten ==
  ASSUME NEW k \in DOMAIN W!TypeReads \cup DOMAIN W!NameReads \cup DOMAIN W!EnumReads
  PROVE  ReadsAsWritten(k, W!Reads(k))
<1>1. CASE k = "LvalueRefType"
  BY <1>1, ReadsAre, WrittenAre, Accepted DEF ReadsAsWritten, W!Scalars
<1>2. CASE k = "RvalueRefType"
  BY <1>2, ReadsAre, WrittenAre, Accepted DEF ReadsAsWritten, W!Scalars
<1>3. CASE k = "PointerType"
  BY <1>3, ReadsAre, WrittenAre, Accepted DEF ReadsAsWritten, W!Scalars
<1>4. CASE k = "BlockPointerType"
  BY <1>4, ReadsAre, WrittenAre, Accepted DEF ReadsAsWritten, W!Scalars
<1>5. CASE k = "ArrayType"
  BY <1>5, ReadsAre, WrittenAre, Accepted DEF ReadsAsWritten, W!Scalars
<1>6. CASE k = "TagExpr"
  BY <1>6, ReadsAre, WrittenAre, Accepted DEF ReadsAsWritten, W!Scalars
<1>7. CASE k = "ScopingExpr"
  BY <1>7, ReadsAre, WrittenAre, Accepted DEF ReadsAsWritten, W!Scalars
<1>8. CASE k = "EnumItem"
  BY <1>8, ReadsAre, WrittenAre, Accepted DEF ReadsAsWritten, W!Scalars
<1>9. CASE k = "EnumType"
  BY <1>9, ReadsAre, WrittenAre, Accepted DEF ReadsAsWritten, W!Scalars
<1> QED BY <1>1, <1>2, <1>3, <1>4, <1>5, <1>6, <1>7, <1>8, <1>9, ReadKinds

LEMMA RecordsAsWritten ==
  ASSUME NEW k \in DOMAIN W!FieldReads \cup DOMAIN W!RecordReads \cup DOMAIN W!FileReads
  PROVE  ReadsAsWritten(k, W!Reads(k))
<1>1. CASE k = "Field"
  BY <1>1, ReadsAre, WrittenAre, Accepted DEF ReadsAsWritten, W!Scalars
<1>2. CASE k = "FieldList"
  BY <1>2, ReadsAre, WrittenAre, Accepted DEF ReadsAsWritten, W!Scalars
<1>3. CASE k = "RecordType"
  BY <1>3, ReadsAre, WrittenAre, Accepted DEF ReadsAsWritten, W!Scalars
<1>4. CASE k = "FuncType"
  BY <1>4, ReadsAre, WrittenAre, Accepted DEF ReadsAsWritten, W!Scalars
<1>5. CASE k = "File"
  BY <1>5, ReadsAre, WrittenAre, Accepted DEF ReadsAsWritten, W!Scalars
<1> QED BY <1>1, <1>2, <1>3, <1>4, <1>5, ReadKinds

LEMMA DeclsAsWritten ==
  ASSUME NEW k \in DOMAIN W!DeclReads
  PROVE  ReadsAsWritten(k, W!Reads(k))
<1>1. W!Expr \subseteq W!nodeUnmarshalers
  BY DEF W!Expr, W!nodeUnmarshalers
<1>2. ASSUME NEW accepted, accepted \subseteq W!nodeUnmarshalers, k # "FuncDecl"
      PROVE  ReadsAsWritten(k, W!Base(accepted))
  <2>1. DOMAIN W!Base(accepted) = W!Written[k]
    BY <1>2, ReadKinds DEF W!Base, W!Written, W!Object
  <2> QED BY <1>1, <1>2, <2>1 DEF ReadsAsWritten, W!Base, W!Scalars
<1>3. CASE k = "FuncDecl"
  BY <1>1, <1>3, ReadKinds, ReadGroups
  DEF ReadsAsWritten, W!DeclReads, W!Written, W!Scalars, W!nodeUnmarshalers, W!Object
<1>4. CASE k # "FuncDecl"
  <2>1. \/ W!Reads(k) = W!Base({"RecordType"}) \/ W!Reads(k) = W!Base(W!Expr)
        \/ W!Reads(k) = W!Base({"EnumType"})
    BY <1>4, ReadKinds, ReadGroups DEF W!DeclReads
  <2>2. {"RecordType"} \subseteq W!nodeUnmarshalers /\ {"EnumType"} \subseteq W!nodeUnmarshalers
    BY DEF W!nodeUnmarshalers
  <2> QED BY <1>1, <1>2, <1>4, <2>1, <2>2
<1> QED BY <1>3, <1>4

LEMMA KindFacts ==
  ASSUME NEW k \in Kinds
  PROVE  /\ ReadsAsWritten(k, W!Reads(k)) /\ "kind" \notin W!Written[k] /\ k \notin W!Leaf
         /\ k \in W!nodeUnmarshalers \/ k = "File"
<1>1. ReadsAsWritten(k, W!Reads(k))
  BY KindsAre, TypesAsWritten, RecordsAsWritten, DeclsAsWritten
<1>2. "kind" \notin W!Written[k]
  BY KindsAre, ReadKinds DEF W!Written, W!Object
<1>3. k \notin W!Leaf /\ (k \in W!nodeUnmarshalers \/ k = "File")
  BY KindsAre, ReadKinds DEF W!Leaf, W!nodeUnmarshalers, W!Decl
<1> QED BY <1>1, <1>2, <1>3

LEMMA Decoded == W!nodeUnmarshalers \ W!Leaf \subseteq Kinds
  BY KindsAre, ReadKinds DEF W!Leaf, W!nodeUnmarshalers, W!Decl

-----------------------------------------------------------------------------
(* Wire's two recursions have solutions, for the nodes inside a node.      *)
Fcn(v) == v = [x \in DOMAIN v |-> v[x]]

(* What may be a part of a node: nil, a leaf, or a node with the fields of *)
(* its kind, each with what its unmarshaler accepts.                       *)
NodeFits(y, accepted) ==
  y # Nil /\ y # Bad /\ y.kind \in (IF accepted = W!Plain THEN W!Leaf ELSE accepted)
FieldFits(v, f, accepted) ==
  /\ v # Bad
  /\ f \notin W!Scalars /\ f \in W!Lists => Fcn(v) /\ \A i \in DOMAIN v : NodeFits(v[i], accepted)
  /\ f \notin W!Scalars /\ f \notin W!Lists => v = Nil \/ NodeFits(v, accepted)
Composite(x) ==
  /\ x.kind \in Kinds /\ Fcn(x) /\ DOMAIN x = W!Written[x.kind] \cup {"kind"}
  /\ \A f \in W!Written[x.kind] : FieldFits(x[f], f, W!Reads(x.kind)[f])
Fits(x) == x = Nil \/ x.kind \in W!Leaf \/ Composite(x)

(* Nil and an error are values of their own.                               *)
NullsApart ==
  ~Fcn(Nil) /\ ~Fcn(Bad) /\ Nil # Bad /\ Bad \notin {"struct", "enum", FuncName, {}}

Across(r, f, x) == IF r = "marshal" THEN W!MarshalWith(f, x) ELSE W!NodeWith(f, x)

LEMMA PartsOf ==
  ASSUME NEW x, x # Nil, x.kind \notin W!Leaf, NEW f \in DOMAIN x, f \notin W!Scalars
  PROVE  IF f \in W!Lists THEN x[f] # Nil => \A i \in DOMAIN x[f] : x[f][i] \in W!Parts(x)
         ELSE x[f] \in W!Parts(x)
<1>1. CASE f \in W!Lists
  <2>1. x[f] # Nil => \A i \in DOMAIN x[f] : x[f][i] \in W!Elements(x[f])
    BY DEF W!Elements
  <2> QED BY <1>1, <2>1 DEF W!Parts
<1>2. CASE f \notin W!Lists
  BY <1>2 DEF W!Parts
<1> QED BY <1>1, <1>2

LEMMA StructSame ==
  ASSUME NEW x, NEW f, NEW g, x # Nil, x.kind \in Kinds,
         \A y \in W!Parts(x) : f[y] = g[y]
  PROVE  W!Struct(f, x) = W!Struct(g, x)
<1> DEFINE reads == W!Reads(x.kind)
<1>1. x.kind \notin W!Leaf /\ ReadsAsWritten(x.kind, reads)
  BY KindFacts
<1>2. ASSUME NEW c \in DOMAIN reads PROVE W!NodeField(f, x, c, reads[c]) = W!NodeField(g, x, c, reads[c])
  <2> HIDE DEF reads
  <2>1. reads[c] = W!Plain \/ c \notin W!Scalars
    BY <1>1, <1>2 DEF ReadsAsWritten
  <2>2. CASE c \notin DOMAIN x \/ reads[c] = W!Plain
    BY <2>2 DEF W!NodeField
  <2>3. CASE c \in DOMAIN x /\ reads[c] # W!Plain /\ c \in W!Lists
    <3>1. x[c] # Nil => \A i \in DOMAIN x[c] : f[x[c][i]] = g[x[c][i]]
      BY <1>1, <2>1, <2>3, PartsOf
    <3>2. x[c] # Nil =>
            \A i \in DOMAIN x[c] : W!Accept(f, x[c][i], reads[c]) = W!Accept(g, x[c][i], reads[c])
      BY <3>1 DEF W!Accept
    <3>3. W!NodeList(f, x[c], reads[c]) = W!NodeList(g, x[c], reads[c])
      BY <3>2 DEF W!NodeList
    <3> QED BY <2>3, <3>3 DEF W!NodeField
  <2>4. CASE c \in DOMAIN x /\ reads[c] # W!Plain /\ c \notin W!Lists
    <3>1. f[x[c]] = g[x[c]]
      BY <1>1, <2>1, <2>4, PartsOf
    <3>2. W!Accept(f, x[c], reads[c]) = W!Accept(g, x[c], reads[c])
      BY <3>1 DEF W!Accept
    <3> QED BY <2>4, <3>2 DEF W!NodeField
  <2> QED BY <2>2, <2>3, <2>4
<1>3. [c \in DOMAIN reads |-> W!NodeField(f, x, c, reads[c])]
        = [c \in DOMAIN reads |-> W!NodeField(g, x, c, reads[c])]
  <2> HIDE DEF reads
  <2> QED BY <1>2
<1> QED BY <1>3 DEF W!Struct

LEMMA MarshalSame ==
  ASSUME NullsApart, NEW x, NEW f, NEW g, Fits(x), \A y \in W!Parts(x) : f[y] = g[y]
  PROVE  W!MarshalWith(f, x) = W!MarshalWith(g, x)
<1>1. CASE x = Nil \/ x.kind \in W!Leaf
  BY <1>1 DEF W!MarshalWith
<1>2. CASE ~(x = Nil \/ x.kind \in W!Leaf)
  <2> DEFINE At(m, c) == IF c \in W!Scalars THEN x[c]
                         ELSE IF c \in W!Lists THEN W!MarshalList(m, x[c]) ELSE m[x[c]]
  <2>1. Composite(x) /\ DOMAIN x = W!Written[x.kind] \cup {"kind"}
    BY <1>2 DEF Fits, Composite
  <2>2. ASSUME NEW c \in W!Written[x.kind] \cup {"kind"} PROVE At(f, c) = At(g, c)
    <3>1. CASE c \in W!Scalars
      BY <3>1
    <3>2. CASE c \notin W!Scalars /\ c \in W!Lists
      <4>1. c # "kind"
        BY <3>2 DEF W!Scalars
      <4>2. x[c] # Nil
        BY <2>1, <2>2, <3>2, <4>1 DEF Composite, FieldFits, NullsApart
      <4>3. \A i \in DOMAIN x[c] : f[x[c][i]] = g[x[c][i]]
        BY <1>2, <2>1, <3>2, <4>2, PartsOf
      <4>4. W!MarshalList(f, x[c]) = W!MarshalList(g, x[c])
        BY <4>3 DEF W!MarshalList
      <4> QED BY <3>2, <4>4
    <3>3. CASE c \notin W!Scalars /\ c \notin W!Lists
      BY <1>2, <2>1, <3>3, PartsOf
    <3> QED BY <3>1, <3>2, <3>3
  <2>3. \A m : W!MarshalWith(m, x) = [c \in W!Written[x.kind] \cup {"kind"} |-> At(m, c)]
    BY <1>2 DEF W!MarshalWith
  <2> HIDE DEF At
  <2> QED BY <2>2, <2>3
<1> QED BY <1>1, <1>2

LEMMA AcrossSame ==
  ASSUME NullsApart, NEW r, NEW x, NEW f, NEW g, r = "marshal" => Fits(x),
         \A y \in W!Parts(x) : f[y] = g[y]
  PROVE  Across(r, f, x) = Across(r, g, x)
<1>1. CASE r = "marshal"
  BY <1>1, MarshalSame DEF Across
<1>2. CASE r # "marshal"
  <2>1. CASE x = Nil \/ x.kind \notin W!nodeUnmarshalers \/ x.kind \in W!Leaf
    BY <1>2, <2>1 DEF Across, W!NodeWith
  <2>2. CASE x # Nil /\ x.kind \in W!nodeUnmarshalers /\ x.kind \notin W!Leaf
    <3>1. x.kind \in Kinds
      BY <2>2, Decoded
    <3>2. W!Struct(f, x) = W!Struct(g, x)
      BY <2>2, <3>1, StructSame
    <3> QED BY <1>2, <2>2, <3>2 DEF Across, W!NodeWith
  <2> QED BY <2>1, <2>2
<1> QED BY <1>1, <1>2

LEMMA AcrossExists ==
  ASSUME NullsApart, NEW r, NEW D, NEW n \in Nat,
         \A x \in D : W!Parts(x) \subseteq D /\ Short(x, n) /\ (r = "marshal" => Fits(x))
  PROVE  \E f : f = [x \in D |-> Across(r, f, x)]
<1> DEFINE Low(h) == {x \in D : Short(x, h)}
           T == {h \in Nat : \E f : f = [x \in Low(h) |-> Across(r, f, x)]}
<1>1. 0 \in T
  <2>1. Low(0) = {}
    BY ShortStep
  <2> DEFINE z == [x \in {} |-> {}]
  <2>2. z = [x \in Low(0) |-> Across(r, z, x)]
    BY <2>1
  <2> HIDE DEF z
  <2> QED BY <2>2
<1>2. ASSUME NEW h \in Nat, h \in T PROVE h + 1 \in T
  <2>1. PICK f : f = [x \in Low(h) |-> Across(r, f, x)]
    BY <1>2
  <2> DEFINE g == [x \in Low(h + 1) |-> Across(r, f, x)]
  <2>2. ASSUME NEW x \in Low(h + 1) PROVE Across(r, f, x) = Across(r, g, x)
    <3>1. ASSUME NEW y \in W!Parts(x) PROVE f[y] = g[y]
      <4>1. y \in D /\ Short(y, h) /\ Short(y, h + 1)
        BY <2>2, <3>1, ShortStep
      <4>2. y \in Low(h) /\ y \in Low(h + 1)
        BY <4>1
      <4>3. f[y] = Across(r, f, y)
        <5> HIDE DEF Low
        <5> QED BY <2>1, <4>2
      <4>4. g[y] = Across(r, f, y)
        <5> HIDE DEF Low
        <5> QED BY <4>2
      <4> QED BY <4>3, <4>4
    <3> HIDE DEF g
    <3> QED BY <3>1, AcrossSame
  <2>3. g = [x \in Low(h + 1) |-> Across(r, g, x)]
    <3>1. g = [x \in Low(h + 1) |-> Across(r, f, x)]
      OBVIOUS
    <3> HIDE DEF g, Low
    <3> QED BY <2>2, <3>1
  <2> HIDE DEF g, Low
  <2> QED BY <2>3
<1>3. n \in T
  <2> HIDE DEF T
  <2> QED BY <1>1, <1>2, OnNat
<1>4. Low(n) = D
  OBVIOUS
<1>5. \E f : f = [x \in Low(n) |-> Across(r, f, x)]
  <2> HIDE DEF Low
  <2> QED BY <1>3
<1> HIDE DEF Low
<1> QED BY <1>4, <1>5

-----------------------------------------------------------------------------
(* What is written is read back.  Whole: a node and all that is inside it  *)
(* fit, and nothing is deeper than h levels.                               *)
Whole(x, h) == Short(x, h) /\ \A k \in Nat : \A y \in Below(x, k) : Fits(y)

LEMMA WholeStep ==
  ASSUME NEW x, NEW h \in Nat
  PROVE  /\ Whole(x, h + 1) <=> Fits(x) /\ \A y \in W!Parts(x) : Whole(y, h)
         /\ Whole(x, h) => Whole(x, h + 1)
<1>1. ASSUME Whole(x, h + 1) PROVE Fits(x) /\ \A y \in W!Parts(x) : Whole(y, h)
  <2>1. Fits(x)
    BY <1>1, BelowNext DEF Whole
  <2>2. ASSUME NEW y \in W!Parts(x), NEW k \in Nat, NEW z \in Below(y, k) PROVE Fits(z)
    <3>1. z \in Below(x, k + 1) /\ k + 1 \in Nat
      BY <2>2, BelowParts
    <3> QED BY <1>1, <3>1 DEF Whole
  <2> QED BY <1>1, <2>1, <2>2, ShortStep DEF Whole
<1>2. ASSUME Fits(x), \A y \in W!Parts(x) : Whole(y, h) PROVE Whole(x, h + 1)
  <2>1. ASSUME NEW k \in Nat, NEW z \in Below(x, k) PROVE Fits(z)
    <3>1. CASE k = 0
      <4>1. Below(x, 0) = {x}
        BY BelowNext
      <4> QED BY <1>2, <2>1, <3>1, <4>1
    <3>2. CASE k # 0
      <4>1. k - 1 \in Nat /\ (k - 1) + 1 = k
        BY <3>2
      <4>2. PICK y \in W!Parts(x) : z \in Below(y, k - 1)
        <5>1. Below(x, (k - 1) + 1) = UNION {Below(y, k - 1) : y \in W!Parts(x)}
          BY <4>1, BelowParts
        <5> QED BY <2>1, <4>1, <5>1
      <4> QED BY <1>2, <4>1, <4>2 DEF Whole
    <3> QED BY <3>1, <3>2
  <2> QED BY <1>2, <2>1, ShortStep DEF Whole
<1>3. Whole(x, h) => Whole(x, h + 1)
  BY ShortStep DEF Whole
<1> QED BY <1>1, <1>2, <1>3

LEMMA WholeMore ==
  ASSUME NEW x, NEW h \in Nat, Whole(x, h), NEW n \in Nat, h <= n
  PROVE  Whole(x, n)
  BY ShortMore DEF Whole

LEMMA PartsFit ==
  ASSUME NullsApart, NEW x, Composite(x), NEW f \in W!Written[x.kind], f \notin W!Scalars
  PROVE  /\ f \in W!Lists => \A i \in DOMAIN x[f] : NodeFits(x[f][i], W!Reads(x.kind)[f])
                                                    /\ x[f][i] \in W!Parts(x)
         /\ f \notin W!Lists => (x[f] = Nil \/ NodeFits(x[f], W!Reads(x.kind)[f]))
                                /\ x[f] \in W!Parts(x)
<1>1. x # Nil /\ x.kind \notin W!Leaf /\ f \in DOMAIN x
  BY KindFacts DEF Composite, NullsApart
<1>2. FieldFits(x[f], f, W!Reads(x.kind)[f])
  BY DEF Composite
<1>3. f \in W!Lists => x[f] # Nil
  BY <1>2 DEF FieldFits, NullsApart
<1> QED BY <1>1, <1>2, <1>3, PartsOf DEF FieldFits

(* One node, written.                                                      *)
LEMMA MarshalIs ==
  ASSUME NullsApart, NEW m, NEW x, Fits(x)
  PROVE  LET j == W!MarshalWith(m, x)
         IN  /\ x = Nil \/ x.kind \in W!Leaf => j = x
             /\ x # Nil /\ x.kind \notin W!Leaf =>
                  /\ Composite(x) /\ Fcn(j) /\ DOMAIN j = DOMAIN x /\ j.kind = x.kind
                  /\ \A f \in W!Written[x.kind] :
                       j[f] = IF f \in W!Scalars THEN x[f]
                              ELSE IF f \in W!Lists THEN W!MarshalList(m, x[f]) ELSE m[x[f]]
<1>1. CASE x = Nil \/ x.kind \in W!Leaf
  BY <1>1 DEF W!MarshalWith
<1>2. CASE x # Nil /\ x.kind \notin W!Leaf
  <2> DEFINE At(c) == IF c \in W!Scalars THEN x[c]
                      ELSE IF c \in W!Lists THEN W!MarshalList(m, x[c]) ELSE m[x[c]]
             j == [c \in W!Written[x.kind] \cup {"kind"} |-> At(c)]
  <2>1. Composite(x) /\ DOMAIN x = W!Written[x.kind] \cup {"kind"}
    BY <1>2 DEF Fits, Composite
  <2>2. W!MarshalWith(m, x) = j
    BY <1>2 DEF W!MarshalWith
  <2>3. At("kind") = x.kind
    BY DEF W!Scalars
  <2>4. Fcn(j) /\ DOMAIN j = DOMAIN x /\ j.kind = At("kind") /\ \A c \in W!Written[x.kind] : j[c] = At(c)
    <3> HIDE DEF At
    <3> QED BY <2>1 DEF Fcn
  <2> HIDE DEF j
  <2> QED BY <1>2, <2>1, <2>2, <2>3, <2>4
<1> QED BY <1>1, <1>2

LEMMA MarshalParts ==
  ASSUME NullsApart, NEW m, NEW x, Fits(x)
  PROVE  W!Parts(W!MarshalWith(m, x)) = {m[y] : y \in W!Parts(x)}
<1> DEFINE j == W!MarshalWith(m, x)
<1>1. CASE x = Nil \/ x.kind \in W!Leaf
  <2>1. j = x
    BY <1>1, MarshalIs
  <2> QED BY <1>1, <2>1 DEF W!Parts
<1>2. CASE x # Nil /\ x.kind \notin W!Leaf
  <2>1. Composite(x) /\ Fcn(j) /\ DOMAIN j = DOMAIN x /\ j.kind = x.kind
    BY <1>2, MarshalIs
  <2>2. \A f \in W!Written[x.kind] :
          j[f] = IF f \in W!Scalars THEN x[f]
                 ELSE IF f \in W!Lists THEN W!MarshalList(m, x[f]) ELSE m[x[f]]
    BY <1>2, MarshalIs
  <2> HIDE DEF j
  <2>3. j # Nil /\ "kind" \in W!Scalars
    BY <2>1 DEF NullsApart, W!Scalars
  <2> DEFINE A == DOMAIN x \ (W!Scalars \cup W!Lists)
             B == DOMAIN x \cap W!Lists
  <2>4. \A f \in A \cup B : f \in W!Written[x.kind] /\ f \notin W!Scalars
    <3>1. W!Lists \cap W!Scalars = {}
      BY DEF W!Lists, W!Scalars
    <3> QED BY <2>1, <2>3, <3>1 DEF Composite
  <2>5. {j[f] : f \in A} = {m[x[f]] : f \in A}
    BY <2>2, <2>4
  <2>6. ASSUME NEW f \in B PROVE W!Elements(j[f]) = {m[y] : y \in W!Elements(x[f])}
    <3>1. j[f] = W!MarshalList(m, x[f])
      BY <2>2, <2>4
    <3>2. FieldFits(x[f], f, W!Reads(x.kind)[f])
      BY <2>1, <2>4 DEF Composite
    <3>3. x[f] # Nil
      BY <2>4, <3>2 DEF FieldFits, NullsApart
    <3>4. W!Elements(x[f]) = {x[f][i] : i \in DOMAIN x[f]}
      BY <3>3 DEF W!Elements
    <3>5. CASE x[f] = <<>>
      <4>1. j[f] = Nil /\ DOMAIN x[f] = {}
        BY <3>1, <3>5 DEF W!MarshalList
      <4> QED BY <3>4, <4>1 DEF W!Elements
    <3>6. CASE x[f] # <<>>
      <4> DEFINE l == [i \in DOMAIN x[f] |-> m[x[f][i]]]
      <4>1. j[f] = l
        BY <3>1, <3>6 DEF W!MarshalList
      <4>2. Fcn(l) /\ DOMAIN l = DOMAIN x[f] /\ \A i \in DOMAIN x[f] : l[i] = m[x[f][i]]
        BY DEF Fcn
      <4> HIDE DEF l
      <4>3. l # Nil
        BY <4>2 DEF NullsApart
      <4>4. W!Elements(j[f]) = {l[i] : i \in DOMAIN x[f]}
        BY <4>1, <4>2, <4>3 DEF W!Elements
      <4> QED BY <3>4, <4>2, <4>4
    <3> QED BY <3>5, <3>6
  <2>7. W!Parts(x) = {x[f] : f \in A} \cup UNION {W!Elements(x[f]) : f \in B}
    BY <1>2 DEF W!Parts
  <2>8. W!Parts(j) = {j[f] : f \in A} \cup UNION {W!Elements(j[f]) : f \in B}
    BY <1>2, <2>1, <2>3 DEF W!Parts
  <2>9. W!Parts(j) = {m[y] : y \in W!Parts(x)}
    <3> HIDE DEF A, B
    <3>1. ASSUME NEW z \in W!Parts(j) PROVE \E y \in W!Parts(x) : z = m[y]
      <4>1. CASE z \in {j[f] : f \in A}
        BY <2>5, <2>7, <4>1
      <4>2. CASE z \in UNION {W!Elements(j[f]) : f \in B}
        <5>1. PICK f \in B : z \in W!Elements(j[f])
          BY <4>2
        <5>2. PICK y \in W!Elements(x[f]) : z = m[y]
          BY <2>6, <5>1
        <5> QED BY <2>7, <5>2
      <4> QED BY <2>8, <3>1, <4>1, <4>2
    <3>2. ASSUME NEW y \in W!Parts(x) PROVE m[y] \in W!Parts(j)
      <4>1. CASE y \in {x[f] : f \in A}
        BY <2>5, <2>8, <4>1
      <4>2. CASE y \in UNION {W!Elements(x[f]) : f \in B}
        <5>1. PICK f \in B : y \in W!Elements(x[f])
          BY <4>2
        <5>2. m[y] \in W!Elements(j[f])
          BY <2>6, <5>1
        <5> QED BY <2>8, <5>2
      <4> QED BY <2>7, <3>2, <4>1, <4>2
    <3> QED BY <3>1, <3>2
  <2> QED BY <2>9 DEF j
<1> QED BY <1>1, <1>2

(* One node, read back.                                                    *)
LEMMA StructBack ==
  ASSUME NullsApart, NEW m, NEW r, NEW x, x # Nil, Composite(x),
         \A y \in W!Parts(x) : /\ y = Nil \/ y.kind \in W!Leaf => m[y] = y
                               /\ y # Nil => m[y] # Nil
                               /\ y # Nil /\ y.kind \in W!nodeUnmarshalers => r[m[y]] = y
  PROVE  W!Struct(r, W!MarshalWith(m, x)) = x
<1> DEFINE j == W!MarshalWith(m, x)
           reads == W!Reads(x.kind)
<1>1. x.kind \in Kinds /\ Fcn(x) /\ DOMAIN x = W!Written[x.kind] \cup {"kind"}
  BY DEF Composite
<1>2. ReadsAsWritten(x.kind, reads) /\ "kind" \notin W!Written[x.kind] /\ x.kind \notin W!Leaf
  BY <1>1, KindFacts
<1>3. DOMAIN j = DOMAIN x /\ j.kind = x.kind
  BY <1>2, MarshalIs DEF Fits
<1>4. \A f \in W!Written[x.kind] :
        j[f] = IF f \in W!Scalars THEN x[f]
               ELSE IF f \in W!Lists THEN W!MarshalList(m, x[f]) ELSE m[x[f]]
  BY <1>2, MarshalIs DEF Fits
<1> HIDE DEF j
<1>5. DOMAIN reads = W!Written[x.kind]
  BY <1>2 DEF ReadsAsWritten
<1>6. ASSUME NEW f \in W!Written[x.kind]
      PROVE  W!NodeField(r, j, f, reads[f]) = x[f] /\ x[f] # Bad
  <2>1. x[f] # Bad /\ f \in DOMAIN j
    BY <1>1, <1>3 DEF Composite, FieldFits
  <2>2. CASE f \in W!Scalars
    <3>1. reads[f] = W!Plain /\ j[f] = x[f] /\ f \notin W!Lists
      <4>1. W!Scalars \cap W!Lists = {}
        BY DEF W!Scalars, W!Lists
      <4> QED BY <1>2, <1>4, <1>5, <2>2, <4>1 DEF ReadsAsWritten
    <3> QED BY <2>1, <3>1 DEF W!NodeField, W!Copy
  <2>3. CASE f \notin W!Scalars /\ f \in W!Lists
    <3>1. j[f] = W!MarshalList(m, x[f])
      BY <1>4, <2>3
    <3>2. Fcn(x[f])
      BY <2>3 DEF Composite, FieldFits
    <3>3. \A i \in DOMAIN x[f] : NodeFits(x[f][i], reads[f]) /\ x[f][i] \in W!Parts(x)
      BY <2>3, PartsFit
    <3>4. CASE x[f] = <<>>
      <4>1. j[f] = Nil
        BY <3>1, <3>4 DEF W!MarshalList
      <4> QED BY <2>1, <2>3, <3>4, <4>1 DEF W!NodeField, W!Copy, W!NodeList
    <3>5. CASE x[f] # <<>>
      <4> DEFINE l == [i \in DOMAIN x[f] |-> m[x[f][i]]]
      <4>1. j[f] = l
        BY <3>1, <3>5 DEF W!MarshalList
      <4>2. Fcn(l) /\ DOMAIN l = DOMAIN x[f] /\ \A i \in DOMAIN x[f] : l[i] = m[x[f][i]]
        BY DEF Fcn
      <4> HIDE DEF l
      <4>3. l # Nil
        BY <4>2 DEF NullsApart
      <4>4. CASE reads[f] = W!Plain
        <5>1. \A i \in DOMAIN x[f] : l[i] = x[f][i]
          BY <3>3, <4>2, <4>4 DEF NodeFits
        <5>2. l = x[f]
          BY <3>2, <4>2, <5>1 DEF Fcn
        <5> QED BY <2>1, <4>1, <4>3, <4>4, <5>2 DEF W!NodeField, W!Copy
      <4>5. CASE reads[f] # W!Plain
        <5>1. ASSUME NEW i \in DOMAIN x[f] PROVE W!Accept(r, l[i], reads[f]) = x[f][i] /\ x[f][i] # Bad
          <6>1. reads[f] \subseteq W!nodeUnmarshalers
            BY <1>2, <1>5, <4>5 DEF ReadsAsWritten
          <6>2. x[f][i] # Nil /\ x[f][i] # Bad /\ x[f][i].kind \in reads[f]
            BY <3>3, <4>5 DEF NodeFits
          <6>3. r[l[i]] = x[f][i]
            BY <3>3, <4>2, <6>1, <6>2
          <6> QED BY <6>2, <6>3 DEF W!Accept
        <5>2. [i \in DOMAIN l |-> W!Accept(r, l[i], reads[f])] = x[f]
          <6> HIDE DEF reads
          <6> QED BY <3>2, <4>2, <5>1 DEF Fcn
        <5>3. W!NodeList(r, l, reads[f]) = x[f]
          <6> HIDE DEF reads
          <6> QED BY <4>3, <5>1, <5>2 DEF W!NodeList
        <5> QED BY <2>1, <2>3, <4>1, <4>5, <5>3 DEF W!NodeField
      <4> QED BY <4>4, <4>5
    <3> QED BY <3>4, <3>5
  <2>4. CASE f \notin W!Scalars /\ f \notin W!Lists
    <3>1. j[f] = m[x[f]] /\ x[f] \in W!Parts(x) /\ (x[f] = Nil \/ NodeFits(x[f], reads[f]))
      BY <1>4, <2>4, PartsFit
    <3>2. CASE x[f] = Nil
      <4>1. j[f] = Nil
        BY <3>1, <3>2
      <4> QED BY <2>1, <2>4, <3>2, <4>1 DEF W!NodeField, W!Copy
    <3>3. CASE x[f] # Nil /\ reads[f] = W!Plain
      <4>1. j[f] = x[f]
        BY <3>1, <3>3 DEF NodeFits
      <4> QED BY <2>1, <2>4, <3>3, <4>1 DEF W!NodeField, W!Copy
    <3>4. CASE x[f] # Nil /\ reads[f] # W!Plain
      <4>1. reads[f] \subseteq W!nodeUnmarshalers
        BY <1>2, <1>5, <3>4 DEF ReadsAsWritten
      <4>2. x[f] # Bad /\ x[f].kind \in reads[f]
        BY <3>1, <3>4 DEF NodeFits
      <4>3. j[f] # Nil /\ r[j[f]] = x[f]
        BY <3>1, <3>4, <4>1, <4>2
      <4>4. W!Accept(r, j[f], reads[f]) = x[f]
        BY <4>2, <4>3 DEF W!Accept
      <4> QED BY <2>1, <2>4, <3>4, <4>3, <4>4 DEF W!NodeField
    <3> QED BY <3>1, <3>2, <3>3, <3>4
  <2> QED BY <2>2, <2>3, <2>4
<1> DEFINE v == [f \in DOMAIN reads |-> W!NodeField(r, j, f, reads[f])]
<1>7. DOMAIN v = W!Written[x.kind] /\ \A f \in W!Written[x.kind] : v[f] = x[f] /\ v[f] # Bad
  <2> HIDE DEF reads
  <2> QED BY <1>5, <1>6
<1>8. W!Struct(r, j) = IF \E f \in DOMAIN v : v[f] = Bad THEN Bad
                       ELSE [f \in DOMAIN v \cup {"kind"} |-> IF f = "kind" THEN j.kind ELSE v[f]]
  BY <1>3 DEF W!Struct
<1> HIDE DEF v, reads
<1>9. W!Struct(r, j) = [f \in DOMAIN x |-> IF f = "kind" THEN j.kind ELSE v[f]]
  BY <1>1, <1>7, <1>8
<1>10. \A f \in DOMAIN x : (IF f = "kind" THEN j.kind ELSE v[f]) = x[f]
  BY <1>1, <1>2, <1>3, <1>7
<1>11. W!Struct(r, j) = [f \in DOMAIN x |-> x[f]]
  BY <1>9, <1>10
<1> QED BY <1>1, <1>11 DEF Fcn, j

(* The file that gogensig reads is the one that XMarshalASTFile wrote, for *)
(* any AST: whatever nodes it has, as deep inside each other as Depth.     *)
THEOREM RoundTrip ==
  ASSUME NullsApart, NEW n, Whole(n, Depth + 1), n # Nil, n.kind = "File"
  PROVE  W!File(W!Marshal(n)) = n
<1> DEFINE D == W!Inside(n)
           m == CHOOSE f : f = [x \in D |-> W!MarshalWith(f, x)]
           j == m[n]
           J == W!Inside(j)
           r == CHOOSE f : f = [x \in J |-> W!NodeWith(f, x)]
<1>1. W!Marshal(n) = j /\ W!File(j) = W!Struct(r, j)
  BY DEF W!Marshal, W!File
<1>2. /\ n \in D /\ \A y \in D : W!Parts(y) \subseteq D /\ Short(y, Depth + 1)
      /\ \A k \in 0..Depth : Below(n, k) \subseteq D
      /\ \A y \in D : \E k \in 0..Depth : y \in Below(n, k)
  BY InsideAll DEF Whole
<1>3. Depth \in Nat /\ Depth + 1 \in Nat /\ 0..Depth \subseteq Nat
  BY DepthNat
<1>4. \A y \in D : Fits(y)
  BY <1>2, <1>3 DEF Whole
<1>5. m = [x \in D |-> W!MarshalWith(m, x)]
  <2> HIDE DEF D
  <2>1. \E f : f = [x \in D |-> Across("marshal", f, x)]
    BY <1>2, <1>3, <1>4, AcrossExists
  <2>2. \A f, x : Across("marshal", f, x) = W!MarshalWith(f, x)
    BY DEF Across
  <2> QED BY <2>1, <2>2
<1> HIDE DEF D, m
<1>6. \A x \in D : m[x] = W!MarshalWith(m, x)
  BY <1>5
<1>7. \A x \in D : /\ W!Parts(m[x]) = {m[y] : y \in W!Parts(x)}
                   /\ x = Nil \/ x.kind \in W!Leaf => m[x] = x
                   /\ x # Nil => m[x] # Nil
                   /\ x # Nil => m[x].kind = x.kind
  <2> TAKE x \in D
  <2>1. Fits(x) /\ m[x] = W!MarshalWith(m, x)
    BY <1>4, <1>6
  <2>2. W!Parts(m[x]) = {m[y] : y \in W!Parts(x)}
    BY <2>1, MarshalParts
  <2>3. CASE x = Nil \/ x.kind \in W!Leaf
    BY <2>1, <2>2, <2>3, MarshalIs
  <2>4. CASE x # Nil /\ x.kind \notin W!Leaf
    <3>1. Fcn(m[x]) /\ m[x].kind = x.kind
      BY <2>1, <2>4, MarshalIs
    <3> QED BY <2>2, <2>4, <3>1 DEF NullsApart
  <2> QED BY <2>3, <2>4
<1>8. Short(j, Depth + 1)
  <2> DEFINE T == {h \in Nat : \A x \in D : Short(x, h) => Short(m[x], h)}
  <2>1. 0 \in T
    BY ShortStep
  <2>2. ASSUME NEW h \in Nat, h \in T PROVE h + 1 \in T
    <3> SUFFICES ASSUME NEW x \in D, Short(x, h + 1) PROVE Short(m[x], h + 1)
      OBVIOUS
    <3>1. \A y \in W!Parts(x) : y \in D /\ Short(y, h)
      BY <1>2, ShortStep
    <3>2. \A y \in W!Parts(x) : Short(m[y], h)
      BY <2>2, <3>1
    <3>3. \A z \in W!Parts(m[x]) : Short(z, h)
      BY <1>7, <3>2
    <3> QED BY <3>3, ShortStep
  <2>3. Depth + 1 \in T
    <3> HIDE DEF T
    <3> QED BY <1>3, <2>1, <2>2, OnNat
  <2> QED BY <1>2, <2>3
<1>9. /\ j \in J /\ \A y \in J : W!Parts(y) \subseteq J /\ Short(y, Depth + 1)
  BY <1>8, InsideAll
<1>10. r = [x \in J |-> W!NodeWith(r, x)]
  <2> HIDE DEF J, j
  <2>1. \E f : f = [x \in J |-> Across("node", f, x)]
    BY <1>3, <1>9, AcrossExists
  <2>2. \A f, x : Across("node", f, x) = W!NodeWith(f, x)
    BY DEF Across
  <2> QED BY <2>1, <2>2
<1> HIDE DEF r, J
<1>11. \A x \in D : m[x] \in J
  <2> DEFINE T == {k \in Nat : k \in 0..Depth => \A x \in Below(n, k) : m[x] \in J}
  <2>1. 0 \in T
    <3>1. Below(n, 0) = {n}
      BY BelowNext
    <3> QED BY <1>9, <3>1
  <2>2. ASSUME NEW k \in Nat, k \in T PROVE k + 1 \in T
    <3> SUFFICES ASSUME k + 1 \in 0..Depth, NEW x \in Below(n, k + 1) PROVE m[x] \in J
      OBVIOUS
    <3>1. PICK y \in Below(n, k) : x \in W!Parts(y)
      <4>1. Below(n, k + 1) = UNION {W!Parts(y) : y \in Below(n, k)}
        BY BelowNext
      <4> QED BY <4>1
    <3>2. k \in 0..Depth
      BY <1>3
    <3>3. y \in D /\ m[y] \in J
      BY <1>2, <2>2, <3>1, <3>2
    <3>4. m[x] \in W!Parts(m[y])
      BY <1>7, <3>1, <3>3
    <3> QED BY <1>9, <3>3, <3>4
  <2>3. Nat \subseteq T
    <3> HIDE DEF T
    <3> QED BY <2>1, <2>2, OnNat
  <2> QED BY <1>2, <1>3, <2>3
<1>12. ASSUME NEW x \in D, x # Nil, x.kind \notin W!Leaf,
              \A y \in W!Parts(x) : y # Nil /\ y.kind \in W!nodeUnmarshalers => r[m[y]] = y
       PROVE  W!Struct(r, m[x]) = x
  <2>1. Composite(x)
    BY <1>4, <1>12 DEF Fits
  <2>2. \A y \in W!Parts(x) : /\ y = Nil \/ y.kind \in W!Leaf => m[y] = y
                              /\ y # Nil => m[y] # Nil
                              /\ y # Nil /\ y.kind \in W!nodeUnmarshalers => r[m[y]] = y
    BY <1>2, <1>7, <1>12
  <2>3. W!Struct(r, W!MarshalWith(m, x)) = x
    BY <1>12, <2>1, <2>2, StructBack
  <2> QED BY <1>6, <2>3
<1>13. \A x \in D : x # Nil /\ x.kind \in W!nodeUnmarshalers => r[m[x]] = x
  <2> DEFINE T == {h \in Nat : \A x \in D : Short(x, h) /\ x # Nil /\ x.kind \in W!nodeUnmarshalers
                                              => r[m[x]] = x}
  <2>1. 0 \in T
    BY ShortStep
  <2>2. ASSUME NEW h \in Nat, h \in T PROVE h + 1 \in T
    <3> SUFFICES ASSUME NEW x \in D, Short(x, h + 1), x # Nil, x.kind \in W!nodeUnmarshalers
                 PROVE  r[m[x]] = x
      OBVIOUS
    <3>1. r[m[x]] = W!NodeWith(r, m[x]) /\ m[x] # Nil /\ m[x].kind = x.kind
      BY <1>7, <1>10, <1>11
    <3>2. CASE x.kind \in W!Leaf
      BY <1>7, <3>1, <3>2 DEF W!NodeWith
    <3>3. CASE x.kind \notin W!Leaf
      <4>1. \A y \in W!Parts(x) : y \in D /\ Short(y, h)
        BY <1>2, ShortStep
      <4>2. W!Struct(r, m[x]) = x
        BY <1>12, <2>2, <3>3, <4>1
      <4> QED BY <3>1, <3>3, <4>2 DEF W!NodeWith
    <3> QED BY <3>2, <3>3
  <2>3. Depth + 1 \in T
    <3> HIDE DEF T
    <3> QED BY <1>3, <2>1, <2>2, OnNat
  <2> QED BY <1>2, <2>3
<1>14. "File" \notin W!Leaf
  BY DEF W!Leaf
<1>15. W!Struct(r, j) = n
  BY <1>2, <1>12, <1>13, <1>14
<1> QED BY <1>1, <1>15

-----------------------------------------------------------------------------
(* What the walk builds, piece by piece, fits.  Sent: a node, at most h    *)
(* levels deep, of one of these kinds.                                     *)
Sent(x, S, h) == Whole(x, h) /\ x # Nil /\ x # Bad /\ x.kind \in S

LEMMA SentMore ==
  ASSUME NEW x, NEW S, NEW h \in Nat, Sent(x, S, h), NEW n \in Nat, h <= n
  PROVE  Sent(x, S, n)
  BY WholeMore DEF Sent

LEMMA FieldSorts ==
  /\ \A f \in {"Items", "Methods", "Names", "List", "decls", "includes", "macros"} :
       f \in W!Lists /\ f \notin W!Scalars
  /\ \A f \in {"X", "Elt", "Len", "Type", "Doc", "Comment", "Params", "Ret", "Fields", "Name", "Value",
               "Loc", "Parent"} :
       f \notin W!Lists /\ f \notin W!Scalars
  /\ \A f \in {"kind", "Tag", "Flags", "MangledName"} : f \notin W!Lists /\ f \in W!Scalars
  BY DEF W!Lists, W!Scalars

LEMMA NilWhole == ASSUME NEW h \in Nat PROVE Whole(Nil, h + 1)
<1>1. Fits(Nil) /\ W!Parts(Nil) = {}
  BY DEF Fits, W!Parts
<1> QED BY <1>1, WholeStep

LEMMA LeafSent ==
  ASSUME NullsApart, NEW x, Fcn(x), x.kind \in W!Leaf, NEW h \in Nat
  PROVE  Sent(x, {x.kind}, h + 1) /\ x # Nil /\ x # Bad
<1>1. Fits(x) /\ W!Parts(x) = {} /\ x # Nil /\ x # Bad
  BY DEF Fits, W!Parts, NullsApart
<1> QED BY <1>1, WholeStep DEF Sent

LEMMA Built ==
  ASSUME NullsApart, NEW x, NEW h \in Nat, Composite(x),
         \A f \in W!Written[x.kind] :
           f \notin W!Scalars =>
             IF f \in W!Lists THEN \A i \in DOMAIN x[f] : Whole(x[f][i], h) ELSE Whole(x[f], h)
  PROVE  Sent(x, {x.kind}, h + 1)
<1>1. x # Nil /\ x # Bad /\ x.kind \notin W!Leaf /\ DOMAIN x = W!Written[x.kind] \cup {"kind"}
  BY KindFacts DEF Composite, NullsApart
<1>2. "kind" \in W!Scalars
  BY DEF W!Scalars
<1>3. ASSUME NEW y \in W!Parts(x) PROVE Whole(y, h)
  <2>1. CASE y \in {x[f] : f \in DOMAIN x \ (W!Scalars \cup W!Lists)}
    BY <1>1, <1>2, <2>1
  <2>2. CASE y \in UNION {W!Elements(x[f]) : f \in DOMAIN x \cap W!Lists}
    <3>1. PICK f \in DOMAIN x \cap W!Lists : y \in W!Elements(x[f])
      BY <2>2
    <3>2. PICK i \in DOMAIN x[f] : y = x[f][i]
      BY <3>1 DEF W!Elements
    <3>3. f \in W!Written[x.kind] /\ f \notin W!Scalars
      <4>1. W!Lists \cap W!Scalars = {}
        BY DEF W!Lists, W!Scalars
      <4> QED BY <1>1, <1>2, <4>1
    <3> QED BY <3>2, <3>3
  <2> QED BY <1>1, <1>3, <2>1, <2>2 DEF W!Parts
<1>4. Whole(x, h + 1)
  BY <1>3, WholeStep DEF Fits
<1> QED BY <1>1, <1>4 DEF Sent

LEMMA IdentSent ==
  ASSUME NullsApart, NEW n, NEW h \in Nat
  PROVE  Sent(Ident(n), {"Ident"}, h + 1)
<1>1. Fcn(Ident(n)) /\ Ident(n).kind = "Ident"
  BY DEF Ident, Fcn
<1> QED BY <1>1, LeafSent DEF W!Leaf

LEMMA BuiltinSent ==
  ASSUME NullsApart, NEW h \in Nat
  PROVE  Sent(CInt, {"BuiltinType"}, h + 1) /\ Sent(CVoid, {"BuiltinType"}, h + 1)
<1>1. Fcn(CInt) /\ CInt.kind = "BuiltinType" /\ Fcn(CVoid) /\ CVoid.kind = "BuiltinType"
  BY DEF CInt, CVoid, Fcn
<1> QED BY <1>1, LeafSent DEF W!Leaf

LEMMA LitSent ==
  ASSUME NullsApart, NEW v, NEW h \in Nat
  PROVE  Sent([kind |-> "BasicLit", Kind |-> "IntLit", Value |-> v], {"BasicLit"}, h + 1)
<1> DEFINE l == [kind |-> "BasicLit", Kind |-> "IntLit", Value |-> v]
<1>1. Fcn(l) /\ l.kind = "BasicLit"
  BY DEF Fcn
<1> HIDE DEF l
<1>2. Sent(l, {"BasicLit"}, h + 1)
  BY <1>1, LeafSent DEF W!Leaf
<1> QED BY <1>2 DEF l

LEMMA TagSent ==
  ASSUME NullsApart, NEW tag \in {"struct", "enum"}, NEW n, NEW h \in Nat, 1 <= h
  PROVE  Sent(TagExpr(tag, n), {"TagExpr"}, h + 1)
<1> DEFINE x == TagExpr(tag, n)
<1>1. /\ x.kind = "TagExpr" /\ x.Tag = tag /\ x.Name = Ident(n)
      /\ Fcn(x) /\ DOMAIN x = {"kind", "Tag", "Name"}
  BY DEF TagExpr, Fcn
<1> HIDE DEF x
<1>2. Sent(Ident(n), {"Ident"}, h)
  <2>1. Sent(Ident(n), {"Ident"}, 0 + 1)
    BY IdentSent
  <2> QED BY <2>1, SentMore
<1>3. /\ W!Written["TagExpr"] = {"Name", "Tag"} /\ W!Reads("TagExpr") = [Tag |-> W!Plain, Name |-> W!Expr]
      /\ "TagExpr" \in Kinds /\ "Ident" \in W!Expr /\ W!Expr # W!Plain
  BY WrittenAre, ReadsAre, KindsAre, ReadKinds DEF W!Expr, W!Plain
<1>4. Composite(x)
  <2>1. FieldFits(tag, "Tag", W!Plain)
    BY FieldSorts DEF FieldFits, NullsApart
  <2>2. FieldFits(Ident(n), "Name", W!Expr)
    BY <1>2, <1>3, FieldSorts DEF FieldFits, NodeFits, Sent
  <2> QED BY <1>1, <1>3, <2>1, <2>2 DEF Composite
<1>5. Sent(x, {x.kind}, h + 1)
  BY <1>1, <1>2, <1>3, <1>4, Built, FieldSorts DEF Sent
<1> QED BY <1>1, <1>5 DEF x

LEMMA PointerSent ==
  ASSUME NullsApart, NEW h \in Nat, NEW t, Sent(t, W!Expr, h)
  PROVE  Sent(PointerType(t), {"PointerType"}, h + 1)
<1> DEFINE x == PointerType(t)
<1>1. x.kind = "PointerType" /\ x.X = t /\ Fcn(x) /\ DOMAIN x = {"kind", "X"}
  BY DEF PointerType, Fcn
<1> HIDE DEF x
<1>2. /\ W!Written["PointerType"] = {"X"} /\ W!Reads("PointerType") = [X |-> W!Expr]
      /\ "PointerType" \in Kinds /\ W!Expr # W!Plain
  BY WrittenAre, ReadsAre, KindsAre, ReadKinds DEF W!Expr, W!Plain
<1>3. Composite(x)
  <2>1. FieldFits(t, "X", W!Expr)
    BY <1>2, FieldSorts DEF FieldFits, NodeFits, Sent
  <2> QED BY <1>1, <1>2, <2>1 DEF Composite
<1>4. Sent(x, {x.kind}, h + 1)
  BY <1>1, <1>2, <1>3, Built, FieldSorts DEF Sent
<1> QED BY <1>1, <1>4 DEF x

LEMMA ArraySent ==
  ASSUME NullsApart, NEW h \in Nat, 1 <= h, NEW t, Sent(t, W!Expr, h)
  PROVE  Sent(ArrayType(t), {"ArrayType"}, h + 1)
<1> DEFINE x == ArrayType(t)
           l == [kind |-> "BasicLit", Kind |-> "IntLit", Value |-> "2"]
<1>1. x.kind = "ArrayType" /\ x.Elt = t /\ x.Len = l /\ Fcn(x) /\ DOMAIN x = {"kind", "Elt", "Len"}
  BY DEF ArrayType, Fcn
<1>2. Sent(l, {"BasicLit"}, h)
  <2>1. Sent(l, {"BasicLit"}, 0 + 1)
    BY LitSent
  <2> HIDE DEF l
  <2> QED BY <2>1, SentMore
<1> HIDE DEF x, l
<1>3. /\ W!Written["ArrayType"] = {"Elt", "Len"}
      /\ W!Reads("ArrayType") = [Elt |-> W!Expr, Len |-> W!Expr]
      /\ "ArrayType" \in Kinds /\ W!Expr # W!Plain /\ "BasicLit" \in W!Expr
  BY WrittenAre, ReadsAre, KindsAre, ReadKinds DEF W!Expr, W!Plain
<1>4. Composite(x)
  <2>1. FieldFits(t, "Elt", W!Expr) /\ FieldFits(l, "Len", W!Expr)
    BY <1>2, <1>3, FieldSorts DEF FieldFits, NodeFits, Sent
  <2> QED BY <1>1, <1>3, <2>1 DEF Composite
<1>5. Sent(x, {x.kind}, h + 1)
  BY <1>1, <1>2, <1>3, <1>4, Built, FieldSorts DEF Sent
<1> QED BY <1>1, <1>5 DEF x

LEMMA FieldSent ==
  ASSUME NullsApart, NEW h \in Nat, 1 <= h, NEW t, Sent(t, W!Expr, h), NEW n, NEW names,
         names \in {<<>>, <<Ident(n)>>}
  PROVE  Sent(FieldOf(names, t), {"Field"}, h + 1)
<1> DEFINE x == FieldOf(names, t)
<1>1. /\ x.kind = "Field" /\ x.Type = t /\ x.Doc = Nil /\ x.Comment = Nil /\ x.Flags = {} /\ x.Names = names
      /\ Fcn(x) /\ DOMAIN x = {"kind", "Type", "Doc", "Comment", "Flags", "Names"}
  BY DEF FieldOf, Fcn
<1> HIDE DEF x
<1>2. /\ W!Written["Field"] = {"Type", "Doc", "Comment", "Flags", "Names"}
      /\ W!Reads("Field") = [Type |-> W!Expr, Doc |-> W!Plain, Comment |-> W!Plain, Flags |-> W!Plain,
                             Names |-> W!Plain]
      /\ "Field" \in Kinds /\ W!Expr # W!Plain /\ "Ident" \in W!Leaf
  BY WrittenAre, ReadsAre, KindsAre, ReadKinds DEF W!Expr, W!Plain, W!Leaf
<1>3. Sent(Ident(n), {"Ident"}, h) /\ Whole(Nil, h)
  <2>1. Sent(Ident(n), {"Ident"}, 0 + 1) /\ Whole(Nil, 0 + 1)
    BY IdentSent, NilWhole
  <2> QED BY <2>1, SentMore, WholeMore
<1>4. Fcn(names) /\ \A i \in DOMAIN names : names[i] = Ident(n)
  <2>1. CASE names = <<>>
    BY <2>1 DEF Fcn
  <2>2. CASE names = <<Ident(n)>>
    <3>1. \A y : Fcn(<<y>>) /\ \A i \in DOMAIN <<y>> : <<y>>[i] = y
      BY DEF Fcn
    <3> QED BY <2>2, <3>1, Zenon
  <2> QED BY <2>1, <2>2
<1>5. Composite(x)
  <2>1. FieldFits(t, "Type", W!Expr)
    BY <1>2, FieldSorts DEF FieldFits, NodeFits, Sent
  <2>2. FieldFits(Nil, "Doc", W!Plain) /\ FieldFits(Nil, "Comment", W!Plain)
    BY FieldSorts DEF FieldFits, NullsApart
  <2>5. FieldFits(x.Flags, "Flags", W!Plain)
    BY <1>1, FieldSorts DEF FieldFits, NullsApart
  <2>3. FieldFits(names, "Names", W!Plain)
    BY <1>2, <1>3, <1>4, FieldSorts DEF FieldFits, NodeFits, Sent, NullsApart
  <2>4. ASSUME NEW f \in W!Written["Field"] PROVE FieldFits(x[f], f, W!Reads("Field")[f])
    <3>1. CASE f = "Type"
      BY <1>1, <1>2, <2>1, <3>1
    <3>2. CASE f = "Doc"
      BY <1>1, <1>2, <2>2, <3>2
    <3>4. CASE f = "Comment"
      BY <1>1, <1>2, <2>2, <3>4
    <3>5. CASE f = "Flags"
      BY <1>2, <2>5, <3>5
    <3>3. CASE f = "Names"
      BY <1>1, <1>2, <2>3, <3>3
    <3> QED BY <1>2, <3>1, <3>2, <3>3, <3>4, <3>5
  <2> QED BY <1>1, <1>2, <2>4 DEF Composite
<1>6. Sent(x, {x.kind}, h + 1)
  BY <1>1, <1>2, <1>3, <1>4, <1>5, Built, FieldSorts DEF Sent
<1> QED BY <1>1, <1>6 DEF x

(* A sequence of nodes of some kinds. *)
EachSent(R, S, h) == \A x \in R : Sent(x, S, h)
AllSent(s, S, h) == \E R : s \in Seq(R) /\ EachSent(R, S, h)

LEMMA AllSentFacts ==
  ASSUME NEW s, NEW S, NEW h, AllSent(s, S, h)
  PROVE  Fcn(s) /\ \A i \in DOMAIN s : Sent(s[i], S, h)
  BY DEF AllSent, EachSent, Fcn

LEMMA NoneSent == ASSUME NEW S, NEW h PROVE AllSent(<<>>, S, h)
<1>1. <<>> \in Seq({}) /\ EachSent({}, S, h)
  BY DEF EachSent
<1> QED BY <1>1 DEF AllSent

LEMMA OneSent == ASSUME NEW x, NEW S, NEW h, Sent(x, S, h) PROVE AllSent(<<x>>, S, h)
<1>1. <<x>> \in Seq({x}) /\ EachSent({x}, S, h)
  BY DEF EachSent
<1> QED BY <1>1 DEF AllSent

LEMMA BothSent ==
  ASSUME NEW s, NEW t, NEW S, NEW h, AllSent(s, S, h), AllSent(t, S, h)
  PROVE  AllSent(s \o t, S, h)
<1>1. PICK Q : s \in Seq(Q) /\ EachSent(Q, S, h)
  BY DEF AllSent
<1>2. PICK R : t \in Seq(R) /\ EachSent(R, S, h)
  BY DEF AllSent
<1>3. s \in Seq(Q \cup R) /\ t \in Seq(Q \cup R)
  BY <1>1, <1>2, Widen
<1>4. s \o t \in Seq(Q \cup R)
  BY <1>3, ConcatFacts
<1>5. EachSent(Q \cup R, S, h)
  BY <1>1, <1>2 DEF EachSent
<1> QED BY <1>4, <1>5 DEF AllSent

LEMMA FieldListSent ==
  ASSUME NullsApart, NEW h \in Nat, NEW s, AllSent(s, {"Field"}, h)
  PROVE  Sent(FieldList(s), {"FieldList"}, h + 1)
<1> DEFINE x == FieldList(s)
<1>1. x.kind = "FieldList" /\ x.List = s /\ Fcn(x) /\ DOMAIN x = {"kind", "List"}
  BY DEF FieldList, Fcn
<1> HIDE DEF x
<1>2. /\ W!Written["FieldList"] = {"List"} /\ W!Reads("FieldList") = [List |-> {"Field"}]
      /\ "FieldList" \in Kinds /\ {"Field"} # W!Plain
  BY WrittenAre, ReadsAre, KindsAre, ReadKinds DEF W!Plain
<1>3. Fcn(s) /\ \A i \in DOMAIN s : Sent(s[i], {"Field"}, h)
  BY AllSentFacts
<1>4. Composite(x)
  <2>1. FieldFits(s, "List", {"Field"})
    BY <1>2, <1>3, FieldSorts DEF FieldFits, NodeFits, Sent, NullsApart
  <2> QED BY <1>1, <1>2, <2>1 DEF Composite
<1>5. Sent(x, {x.kind}, h + 1)
  BY <1>1, <1>2, <1>3, <1>4, Built, FieldSorts DEF Sent
<1> QED BY <1>1, <1>5 DEF x

LEMMA FuncTypeSent ==
  ASSUME NullsApart, NEW h \in Nat, NEW s, AllSent(s, {"Field"}, h)
  PROVE  Sent(FuncType(s), {"FuncType"}, h + 2)
<1> DEFINE x == FuncType(s)
           l == FieldList(s)
<1>1. x.kind = "FuncType" /\ x.Params = l /\ x.Ret = CVoid /\ Fcn(x) /\ DOMAIN x = {"kind", "Params", "Ret"}
  BY DEF FuncType, Fcn
<1>2. Sent(l, {"FieldList"}, h + 1) /\ Sent(CVoid, {"BuiltinType"}, h + 1) /\ h + 1 \in Nat
  BY FieldListSent, BuiltinSent
<1> HIDE DEF x, l
<1>3. /\ W!Written["FuncType"] = {"Params", "Ret"}
      /\ W!Reads("FuncType") = [Params |-> {"FieldList"}, Ret |-> W!Expr]
      /\ "FuncType" \in Kinds /\ W!Expr # W!Plain /\ {"FieldList"} # W!Plain /\ "BuiltinType" \in W!Expr
  BY WrittenAre, ReadsAre, KindsAre, ReadKinds DEF W!Expr, W!Plain
<1>4. Composite(x)
  <2>1. FieldFits(l, "Params", {"FieldList"}) /\ FieldFits(CVoid, "Ret", W!Expr)
    BY <1>2, <1>3, FieldSorts DEF FieldFits, NodeFits, Sent
  <2> QED BY <1>1, <1>3, <2>1 DEF Composite
<1>5. Sent(x, {x.kind}, (h + 1) + 1)
  BY <1>1, <1>2, <1>3, <1>4, Built, FieldSorts DEF Sent
<1>6. (h + 1) + 1 = h + 2
  OBVIOUS
<1> QED BY <1>1, <1>5, <1>6 DEF x

LEMMA AllSentMore ==
  ASSUME NEW s, NEW S, NEW h \in Nat, AllSent(s, S, h), NEW n \in Nat, h <= n
  PROVE  AllSent(s, S, n)
<1>1. PICK R : s \in Seq(R) /\ EachSent(R, S, h)
  BY DEF AllSent
<1>2. EachSent(R, S, n)
  BY <1>1, SentMore DEF EachSent
<1> QED BY <1>1, <1>2 DEF AllSent

LEMMA SentAs ==
  ASSUME NEW x, NEW S, NEW T, NEW h, Sent(x, S, h), S \subseteq T PROVE Sent(x, T, h)
  BY DEF Sent

LEMMA ExprKinds ==
  {"Ident", "BuiltinType", "TagExpr", "PointerType", "ArrayType", "RecordType", "FuncType", "BasicLit"}
    \subseteq W!Expr
  BY DEF W!Expr

(* A record, with fields or only declared; C's have no methods.            *)
Record(l) == [kind |-> "RecordType", Tag |-> "struct", Methods |-> <<>>, Fields |-> l]

LEMMA RecordSent ==
  ASSUME NullsApart, NEW h \in Nat, 1 <= h, NEW l, l = Nil \/ Sent(l, {"FieldList"}, h)
  PROVE  Sent(Record(l), {"RecordType"}, h + 1)
<1> DEFINE x == Record(l)
<1>1. /\ x.kind = "RecordType" /\ x.Tag = "struct" /\ x.Methods = <<>> /\ x.Fields = l
      /\ Fcn(x) /\ DOMAIN x = {"kind", "Tag", "Methods", "Fields"}
  BY DEF Record, Fcn
<1> HIDE DEF x
<1>2. /\ W!Written["RecordType"] = {"Tag", "Fields", "Methods"}
      /\ W!Reads("RecordType") = [Tag |-> W!Plain, Fields |-> {"FieldList"}, Methods |-> {"FuncDecl"}]
      /\ "RecordType" \in Kinds /\ {"FieldList"} # W!Plain
  BY WrittenAre, ReadsAre, KindsAre, ReadKinds DEF W!Plain
<1>3. Whole(l, h) /\ l # Bad
  <2>1. Whole(Nil, 0 + 1)
    BY NilWhole
  <2> QED BY <2>1, WholeMore DEF Sent, NullsApart
<1>4. Fcn(<<>>) /\ DOMAIN <<>> = {}
  BY DEF Fcn
<1>5. Composite(x)
  <2>1. FieldFits("struct", "Tag", W!Plain)
    BY FieldSorts DEF FieldFits, NullsApart
  <2>2. FieldFits(l, "Fields", {"FieldList"})
    BY <1>2, <1>3, FieldSorts DEF FieldFits, NodeFits, Sent
  <2>3. FieldFits(<<>>, "Methods", {"FuncDecl"})
    BY <1>4, FieldSorts DEF FieldFits, NullsApart
  <2>4. ASSUME NEW f \in W!Written["RecordType"] PROVE FieldFits(x[f], f, W!Reads("RecordType")[f])
    <3>1. CASE f = "Tag"
      BY <1>1, <1>2, <2>1, <3>1
    <3>2. CASE f = "Fields"
      <4>1. x[f] = l /\ W!Reads("RecordType")[f] = {"FieldList"}
        BY <1>1, <1>2, <3>2
      <4> QED BY <2>2, <3>2, <4>1
    <3>3. CASE f = "Methods"
      BY <1>1, <1>2, <2>3, <3>3
    <3> QED BY <1>2, <3>1, <3>2, <3>3
  <2> QED BY <1>1, <1>2, <2>4 DEF Composite
<1>6. Sent(x, {x.kind}, h + 1)
  BY <1>1, <1>2, <1>3, <1>4, <1>5, Built, FieldSorts DEF Sent
<1> QED BY <1>1, <1>6 DEF x

LEMMA ItemSent ==
  ASSUME NullsApart, NEW v
  PROVE  Sent([kind |-> "EnumItem", Name |-> Ident("item"),
               Value |-> [kind |-> "BasicLit", Kind |-> "IntLit", Value |-> v]], {"EnumItem"}, 2)
<1> DEFINE l == [kind |-> "BasicLit", Kind |-> "IntLit", Value |-> v]
           x == [kind |-> "EnumItem", Name |-> Ident("item"), Value |-> l]
<1>1. Sent(l, {"BasicLit"}, 0 + 1) /\ Sent(Ident("item"), {"Ident"}, 0 + 1)
  <2>1. Sent(l, {"BasicLit"}, 0 + 1)
    BY LitSent
  <2> QED BY <2>1, IdentSent
<1> HIDE DEF l
<1>2. x.kind = "EnumItem" /\ x.Name = Ident("item") /\ x.Value = l /\ Fcn(x) /\ DOMAIN x = {"kind", "Name", "Value"}
  BY DEF Fcn
<1> HIDE DEF x
<1>3. /\ W!Written["EnumItem"] = {"Name", "Value"}
      /\ W!Reads("EnumItem") = [Name |-> W!Plain, Value |-> W!Expr]
      /\ "EnumItem" \in Kinds /\ W!Expr # W!Plain /\ "BasicLit" \in W!Expr /\ "Ident" \in W!Leaf
  BY WrittenAre, ReadsAre, KindsAre, ReadKinds DEF W!Expr, W!Plain, W!Leaf
<1>4. Composite(x)
  <2>1. FieldFits(Ident("item"), "Name", W!Plain) /\ FieldFits(l, "Value", W!Expr)
    BY <1>1, <1>3, FieldSorts DEF FieldFits, NodeFits, Sent
  <2> QED BY <1>2, <1>3, <2>1 DEF Composite
<1>5. Sent(x, {x.kind}, (0 + 1) + 1)
  BY <1>1, <1>2, <1>3, <1>4, Built, FieldSorts DEF Sent
<1>6. (0 + 1) + 1 = 2
  OBVIOUS
<1> QED BY <1>2, <1>5, <1>6 DEF x, l

LEMMA EnumSent == ASSUME NullsApart, NEW i PROVE Sent(ProcessEnumType(i), {"EnumType"}, 3)
<1> DEFINE e == [kind |-> "EnumItem", Name |-> Ident("item"),
                 Value |-> [kind |-> "BasicLit", Kind |-> "IntLit", Value |-> "0"]]
           x == ProcessEnumType(i)
<1>1. Sent(e, {"EnumItem"}, 2)
  BY ItemSent
<1>2. x = [kind |-> "EnumType", Items |-> <<e>>]
  BY DEF ProcessEnumType
<1> HIDE DEF e, x
<1>3. x.kind = "EnumType" /\ x.Items = <<e>> /\ Fcn(x) /\ DOMAIN x = {"kind", "Items"}
  BY <1>2 DEF Fcn
<1>4. /\ W!Written["EnumType"] = {"Items"} /\ W!Reads("EnumType") = [Items |-> {"EnumItem"}]
      /\ "EnumType" \in Kinds /\ {"EnumItem"} # W!Plain
  BY WrittenAre, ReadsAre, KindsAre, ReadKinds DEF W!Plain
<1>5. Fcn(<<e>>) /\ \A k \in DOMAIN <<e>> : <<e>>[k] = e
  BY DEF Fcn
<1>6. Composite(x)
  <2>1. FieldFits(<<e>>, "Items", {"EnumItem"})
    BY <1>1, <1>4, <1>5, FieldSorts DEF FieldFits, NodeFits, Sent, NullsApart
  <2> QED BY <1>3, <1>4, <2>1 DEF Composite
<1>7. Sent(x, {x.kind}, 2 + 1)
  <2>1. \A k \in DOMAIN x.Items : Whole(x.Items[k], 2)
    BY <1>1, <1>3, <1>5 DEF Sent
  <2> QED BY <1>3, <1>4, <1>6, <2>1, Built, FieldSorts
<1>8. 2 + 1 = 3
  OBVIOUS
<1> QED BY <1>3, <1>7, <1>8 DEF x

LEMMA NamedSent ==
  ASSUME NullsApart, NEW i, NEW h \in Nat, 2 <= h PROVE Sent(NamedType(i), W!Expr, h)
<1>0. h - 1 \in Nat /\ (h - 1) + 1 = h /\ 1 <= h - 1
  OBVIOUS
<1>1. CASE i = 0
  <2>1. NamedType(i) = CInt /\ Sent(CInt, {"BuiltinType"}, (h - 1) + 1)
    BY <1>0, <1>1, BuiltinSent DEF NamedType
  <2> QED BY <1>0, <2>1, ExprKinds, SentAs
<1>2. CASE i # 0 /\ IsTag(unit[i])
  <2>1. NamedType(i) = TagExpr(unit[i].kind, unit[i].name)
    BY <1>2 DEF NamedType, TagExpr
  <2>2. unit[i].kind \in {"struct", "enum"}
    BY <1>2 DEF IsTag
  <2>3. Sent(TagExpr(unit[i].kind, unit[i].name), {"TagExpr"}, (h - 1) + 1)
    BY <1>0, <2>2, TagSent
  <2> QED BY <1>0, <2>1, <2>3, ExprKinds, SentAs
<1>3. CASE i # 0 /\ ~IsTag(unit[i])
  <2>1. NamedType(i) = Ident(unit[i].name)
    BY <1>3 DEF NamedType
  <2>2. Sent(Ident(unit[i].name), {"Ident"}, (h - 1) + 1)
    BY <1>0, IdentSent
  <2> QED BY <1>0, <2>1, <2>2, ExprKinds, SentAs
<1> QED BY <1>1, <1>2, <1>3

LEMMA ProcessSent ==
  ASSUME NullsApart, NEW i
  PROVE  /\ \A shape \in {"value", "ptr", "array"} : Sent(ProcessType(i, shape), W!Expr, 3)
         /\ Sent(ProcessType(i, "fn"), {"FuncType"}, 6)
<1> DEFINE t == NamedType(i)
           x == PointerType(t)
<1>1. Sent(t, W!Expr, 2) /\ Sent(t, W!Expr, 3)
  BY NamedSent
<1>2. ProcessType(i, "value") = t /\ ProcessType(i, "ptr") = x /\ ProcessType(i, "array") = ArrayType(t)
      /\ ProcessType(i, "fn") = FuncType(<<FieldOf(<<>>, x)>>)
  BY DEF ProcessType
<1>3. Sent(x, {"PointerType"}, 2 + 1) /\ Sent(ArrayType(t), {"ArrayType"}, 2 + 1)
  <2> HIDE DEF t
  <2>1. Sent(PointerType(t), {"PointerType"}, 2 + 1)
    BY <1>1, PointerSent
  <2>2. Sent(ArrayType(t), {"ArrayType"}, 2 + 1)
    BY <1>1, ArraySent
  <2> QED BY <2>1, <2>2
<1> HIDE DEF t, x
<1>4. Sent(x, W!Expr, 3) /\ Sent(ArrayType(t), W!Expr, 3)
  <2>1. 2 + 1 = 3
    OBVIOUS
  <2> QED BY <1>3, <2>1, ExprKinds, SentAs
<1>5. AllSent(<<FieldOf(<<>>, x)>>, {"Field"}, 3 + 1)
  <2>1. Sent(FieldOf(<<>>, x), {"Field"}, 3 + 1)
    BY <1>4, FieldSent
  <2> QED BY <2>1, OneSent
<1>6. Sent(FuncType(<<FieldOf(<<>>, x)>>), {"FuncType"}, (3 + 1) + 2)
  BY <1>5, FuncTypeSent
<1>7. (3 + 1) + 2 = 6
  OBVIOUS
<1> QED BY <1>1, <1>2, <1>4, <1>6, <1>7

LEMMA OwnSent ==
  ASSUME NullsApart, UnitOK, NEW i \in 1..Len(unit), unit[i].kind = "struct"
  PROVE  AllSent(OwnFields(i), {"Field"}, 4)
<1>1. unit[i].shape \in {"value", "ptr", "none", "array"}
  BY UnitFacts DEF Facts, Formed
<1>2. CASE unit[i].shape = "none"
  BY <1>2, NoneSent DEF OwnFields
<1>3. CASE unit[i].shape # "none"
  <2> DEFINE t == ProcessType(unit[i].to, unit[i].shape)
  <2>1. Sent(t, W!Expr, 3)
    BY <1>1, <1>3, ProcessSent
  <2>2. OwnFields(i) = <<FieldOf(<<Ident("x")>>, t)>>
    BY <1>3 DEF OwnFields
  <2> HIDE DEF t
  <2>3. Sent(FieldOf(<<Ident("x")>>, t), {"Field"}, 3 + 1)
    BY <2>1, FieldSent
  <2>4. 3 + 1 = 4
    OBVIOUS
  <2> QED BY <2>2, <2>3, <2>4, OneSent
<1> QED BY <1>2, <1>3

(* How deep the fields of record i are: three nodes for each record inside.*)
Tall(i) == 3 * (Len(unit) - i) + 4

LEMMA FieldsSent ==
  ASSUME NullsApart, UnitOK, NEW i \in 1..Len(unit), unit[i].kind = "struct",
         \A k \in (i + 1)..Len(unit) : Sent(NestedField(k), {"Field"}, Tall(k) + 3)
  PROVE  Sent(RecordAt(i), {"RecordType"}, Tall(i) + 2)
<1> DEFINE s == OwnFields(i) \o NestedFields[FirstChild(i)]
           l == IF unit[i].def THEN FieldList(s) ELSE Nil
<1>1. Len(unit) \in Nat /\ Tall(i) \in Nat /\ 4 <= Tall(i) /\ Tall(i) + 1 \in Nat
  BY UnitFacts DEF Tall
<1>2. AllSent(OwnFields(i), {"Field"}, Tall(i))
  BY <1>1, OwnSent, AllSentMore
<1>3. AllSent(NestedFields[FirstChild(i)], {"Field"}, Tall(i))
  <2>1. NestedFields[FirstChild(i)] \in Seq(NestedFieldSet(Inside(i)))
    BY NestedSeq
  <2>2. ASSUME NEW k \in Inside(i) PROVE Sent(NestedField(k), {"Field"}, Tall(i))
    <3>1. k \in (i + 1)..Len(unit)
      BY <2>2 DEF Inside
    <3>2. Tall(k) + 3 \in Nat /\ Tall(k) + 3 <= Tall(i)
      BY <1>1, <3>1 DEF Tall
    <3>3. Sent(NestedField(k), {"Field"}, Tall(k) + 3)
      BY <3>1
    <3> HIDE DEF NestedField
    <3> QED BY <1>1, <3>2, <3>3, SentMore
  <2>3. EachSent(NestedFieldSet(Inside(i)), {"Field"}, Tall(i))
    BY <2>2 DEF EachSent, NestedFieldSet
  <2> QED BY <2>1, <2>3 DEF AllSent
<1>4. AllSent(s, {"Field"}, Tall(i))
  BY <1>2, <1>3, BothSent
<1>5. RecordAt(i) = Record(l)
  BY DEF RecordAt, RecordType, Record
<1> HIDE DEF s
<1>6. l = Nil \/ Sent(l, {"FieldList"}, Tall(i) + 1)
  BY <1>1, <1>4, FieldListSent
<1> HIDE DEF l
<1>7. Sent(Record(l), {"RecordType"}, (Tall(i) + 1) + 1)
  BY <1>1, <1>6, RecordSent
<1>8. (Tall(i) + 1) + 1 = Tall(i) + 2
  BY <1>1
<1> QED BY <1>5, <1>7, <1>8

LEMMA NestedSent ==
  ASSUME NullsApart, UnitOK
  PROVE  \A i \in 1..Len(unit) : Sent(NestedField(i), {"Field"}, Tall(i) + 3)
<1> DEFINE T == {i \in 0..Len(unit) : i # 0 => Sent(NestedField(i), {"Field"}, Tall(i) + 3)}
<1>1. Len(unit) \in Nat
  BY UnitFacts
<1>2. ASSUME NEW i \in 0..Len(unit), \A k \in (i + 1)..Len(unit) : k \in T PROVE i \in T
  <2> SUFFICES ASSUME i # 0 PROVE Sent(NestedField(i), {"Field"}, Tall(i) + 3)
    OBVIOUS
  <2> DEFINE t == NestedType(NestedFields, i)
  <2>1. i \in 1..Len(unit) /\ Tall(i) \in Nat /\ 4 <= Tall(i) /\ Tall(i) + 2 \in Nat
    BY <1>1 DEF Tall
  <2>2. Sent(t, W!Expr, Tall(i) + 2)
    <3>1. CASE ~IsAnonymous(unit[i])
      <4> DEFINE shape == IF unit[i].def THEN "value" ELSE "ptr"
      <4>1. t = ProcessType(i, shape) /\ shape \in {"value", "ptr", "array"}
        BY <3>1 DEF NestedType
      <4> HIDE DEF shape
      <4>2. Sent(ProcessType(i, shape), W!Expr, 3)
        BY <4>1, ProcessSent
      <4> QED BY <2>1, <4>1, <4>2, SentMore
    <3>2. CASE IsAnonymous(unit[i]) /\ unit[i].kind = "enum"
      <4>1. t = CInt /\ Sent(CInt, {"BuiltinType"}, 0 + 1)
        BY <3>2, BuiltinSent DEF NestedType
      <4>2. Sent(t, W!Expr, 0 + 1)
        BY <4>1, ExprKinds, SentAs
      <4> HIDE DEF t
      <4> QED BY <2>1, <4>2, SentMore
    <3>3. CASE IsAnonymous(unit[i]) /\ unit[i].kind # "enum"
      <4>1. unit[i].kind = "struct" /\ t = RecordAt(i)
        BY <3>3 DEF IsAnonymous, IsTag, NestedType, RecordAt
      <4>2. \A k \in (i + 1)..Len(unit) : Sent(NestedField(k), {"Field"}, Tall(k) + 3)
        BY <1>2, <2>1
      <4>3. Sent(RecordAt(i), {"RecordType"}, Tall(i) + 2)
        BY <2>1, <4>1, <4>2, FieldsSent
      <4> HIDE DEF t
      <4> QED BY <4>1, <4>3, ExprKinds, SentAs
    <3> QED BY <3>1, <3>2, <3>3
  <2>3. NestedField(i) = FieldOf(<<Ident("y")>>, t)
    BY DEF NestedField
  <2> HIDE DEF t
  <2>4. Sent(FieldOf(<<Ident("y")>>, t), {"Field"}, (Tall(i) + 2) + 1)
    BY <2>1, <2>2, FieldSent
  <2>5. (Tall(i) + 2) + 1 = Tall(i) + 3
    BY <2>1
  <2> QED BY <2>3, <2>4, <2>5
<1>3. \A i \in 0..Len(unit) : i \in T
  <2> HIDE DEF T
  <2> QED BY <1>1, <1>2, OnAbove
<1> QED BY <1>1, <1>3

LEMMA RecordAtSent ==
  ASSUME NullsApart, UnitOK, NEW i \in 1..Len(unit), unit[i].kind = "struct"
  PROVE  Sent(ProcessRecordType(i), {"RecordType"}, Tall(i) + 2)
<1>1. \A k \in (i + 1)..Len(unit) : k \in 1..Len(unit)
  BY UnitFacts
<1>2. ProcessRecordType(i) = RecordAt(i)
  BY DEF ProcessRecordType, RecordAt
<1> QED BY <1>1, <1>2, NestedSent, FieldsSent

-----------------------------------------------------------------------------
(* Declarations, and the file they are in.                                 *)
LEMMA DeclFields ==
  /\ \A k \in {"EnumTypeDecl", "TypedefDecl", "TypeDecl"} :
       W!Written[k] = {"Loc", "Doc", "Parent", "Name", "Type"}
  /\ W!Written["FuncDecl"] = {"Loc", "Doc", "Parent", "Name", "MangledName", "Type", "Flags"}
  /\ {"EnumTypeDecl", "TypedefDecl", "TypeDecl", "FuncDecl"} \subseteq Kinds
  /\ W!Decl = {"EnumTypeDecl", "TypedefDecl", "TypeDecl", "FuncDecl"} /\ W!Decl # W!Plain
  BY KindsAre, ReadKinds DEF W!Written, W!Object, W!Decl, W!Plain

LEMMA DeclsRead ==
  /\ W!Reads("TypeDecl") = W!Base({"RecordType"}) /\ W!Reads("TypedefDecl") = W!Base(W!Expr)
  /\ W!Reads("EnumTypeDecl") = W!Base({"EnumType"})
  /\ W!Reads("FuncDecl") =
       [Loc |-> W!Plain, Doc |-> W!Plain, Name |-> W!Plain, Parent |-> W!Expr, Type |-> {"FuncType"},
        MangledName |-> W!Plain, Flags |-> W!Plain]
<1>1. \A k \in {"TypeDecl", "TypedefDecl", "EnumTypeDecl", "FuncDecl"} : W!Reads(k) = W!DeclReads[k]
  BY ReadKinds, ReadGroups
<1> QED BY <1>1 DEF W!DeclReads

LocationOf(i) == [kind |-> "Location", File |-> unit[i].path]

LEMMA ObjectSent ==
  ASSUME NullsApart, NEW i, NEW n, NEW name \in {Nil, Ident(n)}, NEW h \in Nat, 1 <= h
  PROVE  /\ FieldFits(LocationOf(i), "Loc", W!Plain) /\ Whole(LocationOf(i), h)
         /\ FieldFits(Nil, "Doc", W!Plain) /\ Whole(Nil, h)
         /\ FieldFits(name, "Name", W!Plain) /\ Whole(name, h)
         /\ FieldFits(Parent(i), "Parent", W!Expr) /\ Whole(Parent(i), h)
<1>1. "Ident" \in W!Leaf /\ "Location" \in W!Leaf /\ "Ident" \in W!Expr /\ W!Expr # W!Plain
  BY DEF W!Leaf, W!Expr, W!Plain
<1>2. Sent(LocationOf(i), {"Location"}, h)
  <2>1. Fcn(LocationOf(i)) /\ LocationOf(i).kind = "Location"
    BY DEF LocationOf, Fcn
  <2>2. Sent(LocationOf(i), {"Location"}, 0 + 1)
    BY <1>1, <2>1, LeafSent
  <2> QED BY <2>2, SentMore
<1>3. ASSUME NEW m PROVE Sent(Ident(m), {"Ident"}, h)
  <2>1. Sent(Ident(m), {"Ident"}, 0 + 1)
    BY IdentSent
  <2> QED BY <2>1, SentMore
<1>4. Whole(Nil, h) /\ Nil # Bad
  <2>1. Whole(Nil, 0 + 1)
    BY NilWhole
  <2> QED BY <2>1, WholeMore DEF NullsApart
<1>5. FieldFits(LocationOf(i), "Loc", W!Plain) /\ Whole(LocationOf(i), h)
  BY <1>1, <1>2, FieldSorts DEF FieldFits, NodeFits, Sent
<1>6. FieldFits(Nil, "Doc", W!Plain)
  BY <1>4, FieldSorts DEF FieldFits
<1>7. FieldFits(name, "Name", W!Plain) /\ Whole(name, h)
  <2>1. CASE name = Nil
    BY <1>4, <2>1, FieldSorts DEF FieldFits
  <2>2. CASE name = Ident(n)
    <3>1. Sent(name, {"Ident"}, h)
      BY <1>3, <2>2
    <3> QED BY <1>1, <3>1, FieldSorts DEF FieldFits, NodeFits, Sent
  <2> QED BY <2>1, <2>2
<1>8. FieldFits(Parent(i), "Parent", W!Expr) /\ Whole(Parent(i), h)
  <2>1. CASE Parent(i) = Nil
    BY <1>4, <2>1, FieldSorts DEF FieldFits
  <2>2. CASE Parent(i) # Nil
    <3>1. Sent(Parent(i), {"Ident"}, h)
      <4>1. Parent(i) = Ident(unit[unit[i].up].name)
        BY <2>2 DEF Parent
      <4> QED BY <1>3, <4>1
    <3> QED BY <1>1, <3>1, FieldSorts DEF FieldFits, NodeFits, Sent
  <2> QED BY <2>1, <2>2
<1> QED BY <1>4, <1>5, <1>6, <1>7, <1>8

Takes(kind) ==
  CASE kind = "EnumTypeDecl" -> {"EnumType"}
    [] kind = "TypeDecl"     -> {"RecordType"}
    [] kind = "TypedefDecl"  -> W!Expr

LEMMA DeclSent ==
  ASSUME NullsApart, NEW kind \in {"EnumTypeDecl", "TypedefDecl", "TypeDecl"}, NEW i,
         NEW n, NEW name \in {Nil, Ident(n)}, NEW h \in Nat, 1 <= h, NEW type, Sent(type, Takes(kind), h)
  PROVE  Sent(DeclOf(kind, i, name, type), {kind}, h + 1)
<1> DEFINE x == DeclOf(kind, i, name, type)
<1>1. /\ x.kind = kind /\ x.Loc = LocationOf(i) /\ x.Doc = Nil /\ x.Parent = Parent(i) /\ x.Name = name
      /\ x.Type = type /\ Fcn(x) /\ DOMAIN x = {"kind", "Loc", "Doc", "Parent", "Name", "Type"}
  BY DEF DeclOf, LocationOf, Fcn
<1> HIDE DEF x
<1>2. kind \in Kinds /\ W!Written[kind] = {"Loc", "Doc", "Parent", "Name", "Type"}
  BY DeclFields
<1>3. /\ W!Reads(kind)["Loc"] = W!Plain /\ W!Reads(kind)["Doc"] = W!Plain /\ W!Reads(kind)["Name"] = W!Plain
      /\ W!Reads(kind)["Parent"] = W!Expr /\ W!Reads(kind)["Type"] = Takes(kind) /\ Takes(kind) # W!Plain
  <2>1. W!Reads(kind) = W!Base(Takes(kind)) /\ Takes(kind) # W!Plain
    BY DeclsRead DEF Takes, W!Expr, W!Plain
  <2> QED BY <2>1 DEF W!Base
<1>4. /\ FieldFits(LocationOf(i), "Loc", W!Plain) /\ Whole(LocationOf(i), h)
      /\ FieldFits(Nil, "Doc", W!Plain) /\ Whole(Nil, h)
      /\ FieldFits(name, "Name", W!Plain) /\ Whole(name, h)
      /\ FieldFits(Parent(i), "Parent", W!Expr) /\ Whole(Parent(i), h)
  BY ObjectSent
<1>5. FieldFits(type, "Type", Takes(kind))
  BY <1>3, FieldSorts DEF FieldFits, NodeFits, Sent
<1>6. Composite(x)
  <2>1. ASSUME NEW f \in W!Written[kind] PROVE FieldFits(x[f], f, W!Reads(kind)[f])
    BY <1>1, <1>2, <1>3, <1>4, <1>5
  <2> QED BY <1>1, <1>2, <2>1 DEF Composite
<1>7. Sent(x, {x.kind}, h + 1)
  <2>1. \A f \in W!Written[x.kind] : f \notin W!Lists /\ Whole(x[f], h)
    BY <1>1, <1>2, <1>4, FieldSorts DEF Sent
  <2> QED BY <1>6, <2>1, Built
<1> QED BY <1>1, <1>7 DEF x

FuncDecl(i, type) ==
  [kind |-> "FuncDecl", Loc |-> LocationOf(i), Doc |-> Nil, Parent |-> Parent(i),
   Name |-> Ident(unit[i].name), Type |-> type, MangledName |-> unit[i].name, Flags |-> {}]

LEMMA FuncSent ==
  ASSUME NullsApart, NEW i, unit[i].name = FuncName, NEW h \in Nat, 1 <= h, NEW type, Sent(type, {"FuncType"}, h)
  PROVE  Sent(FuncDecl(i, type), {"FuncDecl"}, h + 1)
<1> DEFINE x == FuncDecl(i, type)
           name == Ident(unit[i].name)
<1>1. /\ x.kind = "FuncDecl" /\ x.Loc = LocationOf(i) /\ x.Doc = Nil /\ x.Parent = Parent(i) /\ x.Name = name
      /\ x.Type = type /\ x.MangledName = FuncName /\ x.Flags = {} /\ Fcn(x)
      /\ DOMAIN x = {"kind", "Loc", "Doc", "Parent", "Name", "Type", "MangledName", "Flags"}
  BY DEF FuncDecl, Fcn
<1>2. name \in {Nil, Ident(unit[i].name)}
  OBVIOUS
<1>3. /\ FieldFits(LocationOf(i), "Loc", W!Plain) /\ Whole(LocationOf(i), h)
      /\ FieldFits(Nil, "Doc", W!Plain) /\ Whole(Nil, h)
      /\ FieldFits(name, "Name", W!Plain) /\ Whole(name, h)
      /\ FieldFits(Parent(i), "Parent", W!Expr) /\ Whole(Parent(i), h)
  BY <1>2, ObjectSent
<1> HIDE DEF x, name
<1>4. /\ "FuncDecl" \in Kinds
      /\ W!Written["FuncDecl"] = {"Loc", "Doc", "Parent", "Name", "MangledName", "Type", "Flags"}
  BY DeclFields
<1> DEFINE reads == W!Reads("FuncDecl")
<1>5. /\ reads["Loc"] = W!Plain /\ reads["Doc"] = W!Plain /\ reads["Name"] = W!Plain
      /\ reads["MangledName"] = W!Plain /\ reads["Flags"] = W!Plain
      /\ reads["Parent"] = W!Expr /\ reads["Type"] = {"FuncType"} /\ {"FuncType"} # W!Plain
  BY DeclsRead DEF W!Plain
<1> HIDE DEF reads
<1>6. FieldFits(type, "Type", {"FuncType"}) /\ FieldFits(FuncName, "MangledName", W!Plain)
      /\ FieldFits(x.Flags, "Flags", W!Plain)
  BY <1>1, <1>5, FieldSorts DEF FieldFits, NodeFits, Sent, NullsApart
<1>7. Composite(x)
  <2>1. ASSUME NEW f \in W!Written["FuncDecl"] PROVE FieldFits(x[f], f, reads[f])
    <3>1. CASE f = "Flags"
      BY <1>5, <1>6, <3>1
    <3>2. CASE f # "Flags"
      BY <1>1, <1>3, <1>4, <1>5, <1>6, <3>2
    <3> QED BY <3>1, <3>2
  <2> QED BY <1>1, <1>4, <2>1 DEF Composite, reads
<1>8. Sent(x, {x.kind}, h + 1)
  <2>1. \A f \in W!Written[x.kind] : f \notin W!Scalars => f \notin W!Lists /\ Whole(x[f], h)
    BY <1>1, <1>3, <1>4, FieldSorts DEF Sent
  <2> QED BY <1>7, <2>1, Built
<1> QED BY <1>1, <1>8 DEF x

LEMMA NameIs == ASSUME NEW i PROVE NameOf(i) \in {Nil, Ident(unit[i].name)}
  BY DEF NameOf

LEMMA DeclAtSent ==
  ASSUME NullsApart, UnitOK, Len(unit) <= MaxCursor, NEW i \in 1..Len(unit), Yields(i)
  PROVE  Sent(DeclAt(i), W!Decl, Depth)
<1>1. /\ Len(unit) \in Nat /\ Formed(unit[i]) /\ unit[i] \in CursorType /\ Depth \in Nat /\ MaxCursor \in Nat
      /\ W!Decl = {"EnumTypeDecl", "TypedefDecl", "TypeDecl", "FuncDecl"}
  BY UnitFacts, DepthNat, DeclFields, ParserAssumption DEF Facts
<1>2. 7 <= Depth /\ 4 <= Depth /\ Tall(i) + 2 \in Nat /\ 1 <= Tall(i) + 2
      /\ (Tall(i) + 2) + 1 \in Nat /\ (Tall(i) + 2) + 1 <= Depth
  BY <1>1 DEF Depth, Tall
<1>3. CASE unit[i].kind = "enum"
  <2> DEFINE x == DeclOf("EnumTypeDecl", i, NameOf(i), ProcessEnumType(i))
  <2>1. DeclAt(i) = x
    BY <1>3 DEF DeclAt, ProcessEnumDecl
  <2>2. Sent(ProcessEnumType(i), Takes("EnumTypeDecl"), 3)
    BY EnumSent DEF Takes
  <2>3. Sent(x, {"EnumTypeDecl"}, 3 + 1)
    <3> DEFINE t == ProcessEnumType(i)
               name == NameOf(i)
    <3>1. name \in {Nil, Ident(unit[i].name)}
      BY NameIs
    <3> HIDE DEF t, name
    <3>2. Sent(DeclOf("EnumTypeDecl", i, name, t), {"EnumTypeDecl"}, 3 + 1)
      BY <2>2, <3>1, DeclSent DEF t
    <3> QED BY <3>2 DEF t, name
  <2>4. Sent(x, W!Decl, 3 + 1)
    BY <1>1, <2>3, SentAs
  <2> HIDE DEF x
  <2> QED BY <1>1, <1>2, <2>1, <2>4, SentMore
<1>4. CASE unit[i].kind = "struct"
  <2> DEFINE x == DeclOf("TypeDecl", i, NameOf(i), ProcessRecordType(i))
  <2>1. DeclAt(i) = x
    BY <1>4 DEF DeclAt, TypeDecl
  <2>2. Sent(ProcessRecordType(i), Takes("TypeDecl"), Tall(i) + 2)
    BY <1>4, RecordAtSent DEF Takes
  <2>3. Sent(x, {"TypeDecl"}, (Tall(i) + 2) + 1)
    BY <1>2, <2>2, NameIs, DeclSent
  <2>4. Sent(x, W!Decl, (Tall(i) + 2) + 1)
    BY <1>1, <2>3, SentAs
  <2> HIDE DEF x
  <2> QED BY <1>1, <1>2, <2>1, <2>4, SentMore
<1>5. CASE unit[i].kind = "typedef"
  <2> DEFINE t == ProcessType(unit[i].to, unit[i].shape)
             x == DeclOf("TypedefDecl", i, Ident(unit[i].name), t)
  <2>1. DeclAt(i) = x
    <3>1. ProcessTypeDefDecl(i) = <<x>>
      BY <1>5 DEF Yields, ProcessTypeDefDecl
    <3> HIDE DEF x
    <3> QED BY <1>5, <3>1 DEF DeclAt
  <2>2. Sent(t, Takes("TypedefDecl"), 6)
    <3>1. unit[i].shape \in {"value", "ptr", "fn"} /\ Takes("TypedefDecl") = W!Expr
      BY <1>1, <1>5 DEF Formed, Takes
    <3>2. CASE unit[i].shape = "fn"
      <4>1. Sent(t, {"FuncType"}, 6)
        BY <3>2, ProcessSent
      <4> QED BY <3>1, <4>1, ExprKinds, SentAs
    <3>3. CASE unit[i].shape # "fn"
      <4>1. Sent(t, W!Expr, 3)
        BY <3>1, <3>3, ProcessSent
      <4> HIDE DEF t
      <4> QED BY <3>1, <4>1, SentMore
    <3> QED BY <3>2, <3>3
  <2>3. Sent(x, {"TypedefDecl"}, 6 + 1)
    <3>1. Ident(unit[i].name) \in {Nil, Ident(unit[i].name)}
      OBVIOUS
    <3> HIDE DEF t
    <3> QED BY <2>2, <3>1, DeclSent
  <2>4. Sent(x, W!Decl, 6 + 1)
    BY <1>1, <2>3, SentAs
  <2> HIDE DEF x
  <2> QED BY <1>1, <1>2, <2>1, <2>4, SentMore
<1>6. CASE unit[i].kind = "func"
  <2> DEFINE t == FuncTypeOf(i)
             x == FuncDecl(i, t)
  <2>1. Sent(t, {"FuncType"}, 6)
    <3>1. CASE unit[i].shape # "named"
      <4> DEFINE p == ProcessType(unit[i].to, unit[i].shape)
                 f == FieldOf(<<Ident("p")>>, p)
      <4>1. unit[i].shape = "ptr"
        BY <1>1, <1>6, <3>1 DEF Formed
      <4>2. Sent(p, W!Expr, 3)
        BY <4>1, ProcessSent
      <4>3. t = FuncType(<<f>>)
        BY <3>1 DEF FuncTypeOf
      <4> HIDE DEF t, p
      <4>4. Sent(f, {"Field"}, 3 + 1)
        BY <4>2, FieldSent
      <4> HIDE DEF f
      <4>5. AllSent(<<f>>, {"Field"}, 3 + 1)
        BY <4>4, OneSent
      <4>6. Sent(FuncType(<<f>>), {"FuncType"}, (3 + 1) + 2)
        BY <4>5, FuncTypeSent
      <4>7. (3 + 1) + 2 = 6
        OBVIOUS
      <4> QED BY <4>3, <4>6, <4>7
    <3>2. CASE unit[i].shape = "named"
      <4>1. FunctionType(unit[i].to) /\ unit[i].to \in 1..Len(unit)
        BY <3>2, UnitFacts DEF Facts, Uses, FunctionType, IsTypedef
      <4>2. Resolved[unit[i].to] = unit[i].to
        BY <4>1, ResolvedFacts DEF FunctionType
      <4>3. t = ProcessType(unit[unit[i].to].to, "fn")
        BY <3>2, <4>1, <4>2 DEF FuncTypeOf, getActualType, FunctionType
      <4> QED BY <4>3, ProcessSent
    <3> QED BY <3>1, <3>2
  <2>2. DeclAt(i) = x
    <3>1. t.kind = "FuncType"
      BY <2>1 DEF Sent
    <3>2. ProcessFuncDecl(i) = <<x>>
      BY <3>1 DEF ProcessFuncDecl, FuncDecl, LocationOf
    <3> HIDE DEF x
    <3> QED BY <1>6, <3>2 DEF DeclAt
  <2>3. unit[i].name = FuncName
    BY <1>1, <1>6 DEF Formed
  <2> HIDE DEF t
  <2>4. Sent(x, {"FuncDecl"}, 6 + 1)
    BY <2>1, <2>3, FuncSent
  <2>5. Sent(x, W!Decl, 6 + 1)
    BY <1>1, <2>4, SentAs
  <2> HIDE DEF x
  <2> QED BY <1>1, <1>2, <2>2, <2>5, SentMore
<1> QED BY <1>3, <1>4, <1>5, <1>6 DEF Yields

(* What the walk keeps of the preprocessor's cursors, and how much there   *)
(* is of a unit.                                                           *)
Macros == {[kind |-> "Macro", Name |-> n] : n \in AnyName}
Includes == {[kind |-> "Include", Path |-> n] : n \in AnyName}
SentInv == Len(unit) <= MaxCursor /\ file.macros \in Seq(Macros) /\ file.includes \in Seq(Includes)

LEMMA PreSent ==
  ASSUME NullsApart
  PROVE  EachSent(Macros, {"Macro"}, 0 + 1) /\ EachSent(Includes, {"Include"}, 0 + 1)
<1>1. ASSUME NEW x \in Macros PROVE Sent(x, {"Macro"}, 0 + 1)
  <2>1. Fcn(x) /\ x.kind = "Macro" /\ "Macro" \in W!Leaf
    BY DEF Macros, Fcn, W!Leaf
  <2> QED BY <2>1, LeafSent
<1>2. ASSUME NEW x \in Includes PROVE Sent(x, {"Include"}, 0 + 1)
  <2>1. Fcn(x) /\ x.kind = "Include" /\ "Include" \in W!Leaf
    BY DEF Includes, Fcn, W!Leaf
  <2> QED BY <2>1, LeafSent
<1> QED BY <1>1, <1>2 DEF EachSent

LEMMA FileSent ==
  ASSUME NullsApart, ParserInv, SentInv PROVE Sent(file, {"File"}, Depth + 1)
<1>1. UnitOK /\ FileOK /\ Len(unit) <= MaxCursor /\ Depth \in Nat /\ 1 <= Depth
  <2>1. MaxCursor \in Nat
    BY ParserAssumption
  <2> QED BY <2>1, DepthNat DEF ParserInv, SentInv, Depth
<1>2. /\ file.kind = "File" /\ Fcn(file) /\ DOMAIN file = {"kind", "decls", "includes", "macros"}
  <2>1. \A a, b, c : LET x == [kind |-> "File", decls |-> a, includes |-> b, macros |-> c] IN
          x.kind = "File" /\ Fcn(x) /\ DOMAIN x = {"kind", "decls", "includes", "macros"}
    BY DEF Fcn
  <2> QED BY <1>1, <2>1, Zenon DEF FileOK
<1>3. /\ W!Written["File"] = {"decls", "includes", "macros"}
      /\ W!Reads("File") = [decls |-> W!Decl, includes |-> W!Plain, macros |-> W!Plain]
      /\ "File" \in Kinds /\ W!Decl # W!Plain
      /\ "Macro" \in W!Leaf /\ "Include" \in W!Leaf
  BY WrittenAre, ReadsAre, KindsAre, ReadKinds DEF W!Decl, W!Plain, W!Leaf
<1>4. Fcn(file.decls) /\ \A p \in DOMAIN file.decls : Sent(file.decls[p], W!Decl, Depth)
  <2>1. PICK src : Lists(src, Yielded(at)) /\ file.decls = Made(src)
    BY DEF ParserInv, DeclsOK, decls
  <2>2. Fcn(file.decls) /\ DOMAIN file.decls = 1..Len(src)
    BY <2>1 DEF Made, Fcn
  <2>3. ASSUME NEW p \in 1..Len(src) PROVE Sent(file.decls[p], W!Decl, Depth)
    <3>1. src[p] \in 1..Len(unit) /\ Yields(src[p]) /\ file.decls[p] = DeclAt(src[p])
      BY <2>1 DEF Lists, Yielded, Made
    <3> QED BY <1>1, <3>1, DeclAtSent
  <2> QED BY <2>2, <2>3
<1>5. Fcn(file.macros) /\ \A p \in DOMAIN file.macros : Sent(file.macros[p], {"Macro"}, Depth)
  <2>1. AllSent(file.macros, {"Macro"}, 0 + 1)
    BY PreSent DEF SentInv, AllSent
  <2>2. AllSent(file.macros, {"Macro"}, Depth)
    BY <1>1, <2>1, AllSentMore
  <2> QED BY <2>2, AllSentFacts
<1>6. Fcn(file.includes) /\ \A p \in DOMAIN file.includes : Sent(file.includes[p], {"Include"}, Depth)
  <2>1. AllSent(file.includes, {"Include"}, 0 + 1)
    BY PreSent DEF SentInv, AllSent
  <2>2. AllSent(file.includes, {"Include"}, Depth)
    BY <1>1, <2>1, AllSentMore
  <2> QED BY <2>2, AllSentFacts
<1>7. Composite(file)
  <2>1. FieldFits(file.decls, "decls", W!Decl)
    BY <1>3, <1>4, FieldSorts DEF FieldFits, NodeFits, Sent, NullsApart
  <2>2. FieldFits(file.includes, "includes", W!Plain)
    BY <1>3, <1>6, FieldSorts DEF FieldFits, NodeFits, Sent, NullsApart
  <2>3. FieldFits(file.macros, "macros", W!Plain)
    BY <1>3, <1>5, FieldSorts DEF FieldFits, NodeFits, Sent, NullsApart
  <2>4. ASSUME NEW f \in W!Written["File"] PROVE FieldFits(file[f], f, W!Reads("File")[f])
    <3>1. CASE f = "decls"
      BY <1>3, <2>1, <3>1
    <3>2. CASE f = "includes"
      BY <1>3, <2>2, <3>2
    <3>3. CASE f = "macros"
      BY <1>3, <2>3, <3>3
    <3> QED BY <1>3, <3>1, <3>2, <3>3
  <2> QED BY <1>2, <1>3, <2>4 DEF Composite
<1>8. Sent(file, {file.kind}, Depth + 1)
  <2>1. \A f \in W!Written[file.kind] : f \in W!Lists /\ \A p \in DOMAIN file[f] : Whole(file[f][p], Depth)
    BY <1>2, <1>3, <1>4, <1>5, <1>6, FieldSorts DEF Sent
  <2> QED BY <1>1, <1>7, <2>1, Built
<1> QED BY <1>2, <1>8

LEMMA SentInit == ParseInit => SentInv
<1>1. MaxCursor \in Nat
  BY ParserAssumption
<1> SUFFICES ASSUME ParseInit PROVE SentInv
  OBVIOUS
<1>2. unit = <<>> /\ Len(unit) = 0 /\ file.macros = <<>> /\ file.includes = <<>>
  BY DEF ParseInit
<1>3. Len(unit) <= MaxCursor
  BY <1>1, <1>2
<1> QED BY <1>2, <1>3, EmptySeq, Zenon DEF SentInv

LEMMA SentStep == ASSUME ParserInv, SentInv, [ParseNext]_parseVars PROVE SentInv'
<1>0. UnitOK /\ Len(unit) \in Nat /\ MaxCursor \in Nat
  BY UnitFacts, ParserAssumption DEF ParserInv
<1> USE DEF Macros, Includes
<1>1. CASE Declare
  <2>1. file' = file /\ Len(unit) < MaxCursor /\ \E c \in Candidates : Legal(c) /\ unit' = Append(unit, c)
    BY <1>1 DEF Declare
  <2>2. Len(unit') = Len(unit) + 1
    BY <1>0, <2>1, Declared
  <2> QED BY <1>0, <2>1, <2>2 DEF SentInv
<1>2. CASE EndSource \/ PassOver \/ EndVisit \/ Send \/ UNCHANGED parseVars
  BY <1>2 DEF EndSource, PassOver, EndVisit, Send, Move, parseVars, SentInv
<1>3. ASSUME NEW ds, AddDecls(ds), unit' = unit PROVE SentInv'
  <2>1. file'.macros = file.macros /\ file'.includes = file.includes
    BY <1>3 DEF AddDecls, ParserInv, FileOK
  <2> QED BY <1>3, <2>1 DEF SentInv
<1>4. CASE VisitEnum \/ VisitStruct \/ VisitTypedef \/ VisitFunc
  BY <1>3, <1>4 DEF VisitEnum, VisitStruct, VisitTypedef, VisitFunc, VisitTop, Move
<1>5. CASE VisitMacro \/ VisitInclude
  <2>1. unit' = unit /\ unit[at].name \in AnyName
    BY <1>5, AtHere, UnitFacts DEF VisitMacro, VisitInclude, VisitTop, Facts, CursorType
  <2>2. CASE VisitMacro
    <3> DEFINE m == [kind |-> "Macro", Name |-> unit[at].name]
    <3>1. file' = [file EXCEPT !.macros = Append(file.macros, m)]
      BY <2>2 DEF VisitMacro
    <3>2. m \in Macros
      BY <2>1
    <3> HIDE DEF m, Macros
    <3>3. file'.macros = Append(file.macros, m) /\ file'.includes = file.includes
      BY <3>1 DEF ParserInv, FileOK
    <3>4. file'.macros \in Seq(Macros)
      BY <3>2, <3>3 DEF SentInv
    <3> QED BY <2>1, <3>3, <3>4 DEF SentInv, Macros
  <2>3. CASE VisitInclude
    <3> DEFINE m == [kind |-> "Include", Path |-> unit[at].name]
    <3>1. file' = file \/ file' = [file EXCEPT !.includes = Append(file.includes, m)]
      BY <2>3 DEF VisitInclude
    <3>2. m \in Includes
      BY <2>1
    <3> HIDE DEF m, Includes
    <3>3. file'.macros = file.macros
          /\ (file'.includes = file.includes \/ file'.includes = Append(file.includes, m))
      BY <3>1 DEF ParserInv, FileOK
    <3>4. file'.includes \in Seq(Includes)
      <4>1. file.includes \in Seq(Includes)
        BY DEF SentInv
      <4>2. Append(file.includes, m) \in Seq(Includes)
        BY <3>2, <4>1
      <4> QED BY <3>3, <4>1, <4>2, Zenon
    <3> QED BY <2>1, <3>3, <3>4 DEF SentInv, Includes
  <2> QED BY <1>5, <2>2, <2>3
<1> QED BY <1>1, <1>2, <1>4, <1>5 DEF ParseNext, Terminated

GotFile == phase = "done" => received = file

LEMMA GotStep ==
  ASSUME NullsApart, ParserInv, SentInv, GotFile, [ParseNext]_parseVars PROVE GotFile'
<1>1. CASE Send
  <2>1. Sent(file, {"File"}, Depth + 1)
    BY FileSent
  <2>2. W!File(W!Marshal(file)) = file
    BY <2>1, RoundTrip DEF Sent
  <2> QED BY <1>1, <2>2 DEF Send, GotFile
<1>2. CASE Terminated \/ UNCHANGED parseVars
  BY <1>2 DEF Terminated, parseVars, GotFile
<1>3. CASE Declare \/ EndSource \/ EndVisit
  BY <1>3 DEF Declare, EndSource, EndVisit, GotFile
<1>4. CASE PassOver \/ VisitEnum \/ VisitStruct \/ VisitTypedef \/ VisitFunc \/ VisitMacro \/ VisitInclude
  BY <1>4
  DEF PassOver, VisitEnum, VisitStruct, VisitTypedef, VisitFunc, VisitMacro, VisitInclude, VisitTop, Move, GotFile
<1> QED BY <1>1, <1>2, <1>3, <1>4 DEF ParseNext

-----------------------------------------------------------------------------
(* Each name of a unit is defined by exactly one declaration.              *)
THEOREM DefinedOnceAlways == ASSUME ~AnonNesting, NilIsNoNode PROVE ParseSpec => []DefinedOnce
<1>1. ParserInv => DefinedOnce
  BY DefinedOnceHolds
<1> QED BY ParserInvAlways, <1>1, PTL

(* No enum of a unit is lost, and none is declared twice.                  *)
THEOREM EnumsKeptAlways == ASSUME ~AnonNesting PROVE ParseSpec => []EnumsKept
<1>1. ParserInv => EnumsKept
  BY EnumsKeptHolds
<1> QED BY ParserInvAlways, <1>1, PTL

(* What a record contains is declared before it.                           *)
THEOREM ContentsFirstAlways == ASSUME ~AnonNesting, NilIsNoNode PROVE ParseSpec => []ContentsFirst
<1>1. ParserInv => ContentsFirst
  BY ContentsFirstHolds
<1> QED BY ParserInvAlways, <1>1, PTL

(* The walk ends without a panic, and gogensig has the AST that the walk   *)
(* made, whatever the unit: what XMarshalASTFile writes of it is what      *)
(* unmarshal.File reads back.                                              *)
THEOREM ReceivedAlways == ASSUME ~AnonNesting, NullsApart PROVE ParseSpec => []Received
<1>1. ParserInv /\ SentInv /\ [ParseNext]_parseVars => SentInv'
  BY SentStep
<1>2. ParseSpec => []SentInv
  BY <1>1, SentInit, ParserInvAlways, PTL DEF ParseSpec
<1>3. ParseInit => GotFile
  BY DEF ParseInit, GotFile
<1>4. ParserInv /\ SentInv /\ GotFile /\ [ParseNext]_parseVars => GotFile'
  BY GotStep
<1>5. ParseSpec => []GotFile
  BY <1>2, <1>3, <1>4, ParserInvAlways, PTL DEF ParseSpec
<1>6. ParserInv /\ GotFile => Received
  BY DEF ParserInv, GotFile, Received
<1> QED BY <1>5, <1>6, ParserInvAlways, PTL

=============================================================================
