------------------------------ MODULE Pipeline -----------------------------
(***************************************************************************)
(* Invocations of llcppg, one after the other, in one working directory,   *)
(* and what each leaves there: the symbol table, llcppg.pub and the Go     *)
(* files.  Any step may fail and any write may be cut short; check() turns *)
(* every error into a panic.  Between invocations the user changes the     *)
(* project (llcppg.cfg, headers, library) or edits the symbol table.       *)
(***************************************************************************)
EXTENDS FiniteSets

CONSTANTS
  Projects,  \* records [goFiles, public]: Go files and whether types are published
  ParentMod  \* TRUE: the working directory is inside a Go module

GoFile == UNION {pr.goFiles : pr \in Projects}

ASSUME PipelineAssumption ==
  /\ \A pr \in Projects : pr.public \in BOOLEAN /\ IsFiniteSet(pr.goFiles)
  /\ ParentMod \in BOOLEAN

None == <<"none">>
Broken == <<"broken">> \* cut short
Table(pr, edited) == <<"symg", pr, edited>>
Tables == {Table(pr, e) : pr \in Projects, e \in BOOLEAN}
Binding(pr, t) == <<"gengo", pr, t>>

VARIABLES
  project, \* the project as it is now
  cmd,     \* flags of the invocation: [symbGen, codeGen, mod]
  pc,      \* next step of the invocation; "ok" or "panic" when it has ended
  table,   \* llcppg.symb.json
  gomod,   \* there is a go.mod in the output directory
  pub,     \* llcppg.pub
  code,    \* the Go files of the output directory
  read,    \* the symbol table in memory
  todo,    \* Go files still to be written
  failed   \* Go files that could not be written (errors.List)

vars == <<project, cmd, pc, table, gomod, pub, code, read, todo, failed>>
disk == <<table, gomod, pub, code>>

Symb == cmd.symbGen \/ ~cmd.codeGen
Code == ~cmd.symbGen

Init ==
  /\ project \in Projects /\ pc = "ok"
  /\ cmd = [symbGen |-> TRUE, codeGen |-> FALSE, mod |-> FALSE]
  /\ table = None /\ gomod = FALSE /\ pub = None
  /\ code = [f \in GoFile |-> None]
  /\ read = None /\ todo = {} /\ failed = {}

-----------------------------------------------------------------------------
(* The user.                                                               *)
Ended == pc \in {"ok", "panic"}

ChangeProject ==
  /\ Ended /\ pc' = "idle" /\ project' \in Projects \ {project}
  /\ UNCHANGED <<cmd, disk, read, todo, failed>>

EditTable ==
  /\ Ended /\ table \in Tables
  /\ table' = Table(table[2], TRUE) /\ pc' = "idle"
  /\ UNCHANGED <<project, cmd, gomod, pub, code, read, todo, failed>>

(* main and do: codeGen narrows the mode first, symbGen overrides it.      *)
Start(symbGen, codeGen, mod) ==
  /\ Ended \/ pc = "idle"
  /\ cmd' = [symbGen |-> symbGen, codeGen |-> codeGen, mod |-> mod]
  /\ pc' = IF Symb' THEN "symg" ELSE "parse"
  /\ read' = None /\ todo' = {} /\ failed' = {}
  /\ UNCHANGED <<project, disk>>

-----------------------------------------------------------------------------
Step(from, to) == pc = from /\ pc' = to
Working == ~Ended /\ pc # "idle"

(* An error in any step, before it writes anything.                        *)
Fail ==
  /\ Working /\ pc' = "panic"
  /\ UNCHANGED <<project, cmd, disk, read, todo, failed>>

(* buildSymbolTable writes the table when all of symg.Do is done.          *)
WriteTable ==
  /\ Step("symg", IF Code THEN "parse" ELSE "ok")
  /\ table' = Table(project, FALSE)
  /\ UNCHANGED <<project, cmd, gomod, pub, code, read, todo, failed>>
BreakTable ==
  /\ Step("symg", "panic")
  /\ table' = Broken
  /\ UNCHANGED <<project, cmd, gomod, pub, code, read, todo, failed>>

Parse ==
  /\ Step("parse", "modinit")
  /\ UNCHANGED <<project, cmd, disk, read, todo, failed>>

(* ModInit: go mod init refuses a directory with a go.mod, and go get one  *)
(* that is in no module.                                                   *)
ModInit ==
  /\ Step("modinit", IF cmd.mod /\ gomod THEN "panic" ELSE "get")
  /\ gomod' = (gomod \/ cmd.mod)
  /\ UNCHANGED <<project, cmd, table, pub, code, read, todo, failed>>
GoGet ==
  /\ Step("get", IF gomod \/ ParentMod THEN "read" ELSE "panic")
  /\ UNCHANGED <<project, cmd, disk, read, todo, failed>>

(* GetSymTableFromFile.  Fault: a file without a table reads as an empty   *)
(* one.                                                                    *)
ReadAnything ==
  /\ Step("read", "convert")
  /\ read' = table
  /\ UNCHANGED <<project, cmd, disk, todo, failed>>
ReadTable ==
  /\ Step("read", IF table \in Tables THEN "convert" ELSE "panic")
  /\ read' = IF table \in Tables THEN table ELSE read
  /\ UNCHANGED <<project, cmd, disk, todo, failed>>

(* The files of the converted package but gogen's own, which has no name.  *)
Files == project.goFiles
Convert ==
  /\ Step("convert", "pub") /\ todo' = Files
  /\ UNCHANGED <<project, cmd, disk, read, failed>>

(* WritePubFile writes no empty file.  Fault: nothing is written over a    *)
(* file that is there.                                                     *)
PubOnce(p) == IF p = None /\ project.public THEN Binding(project, read) ELSE p
PubAfter(p) == IF project.public THEN Binding(project, read) ELSE p
WritePub ==
  /\ Step("pub", "write")
  /\ pub' = PubAfter(pub)
  /\ UNCHANGED <<project, cmd, table, gomod, code, read, todo, failed>>
BreakPub ==
  /\ Step("pub", "panic") /\ project.public
  /\ pub' = Broken
  /\ UNCHANGED <<project, cmd, table, gomod, code, read, todo, failed>>

(* writePkg: ForEachFile has no order; after an error it goes on.  Faults: *)
(* it stops at the first error; the errors are lost.                       *)
WriteFile(f) ==
  /\ pc = "write" /\ f \in todo
  /\ todo' = todo \ {f}
  /\ code' = [code EXCEPT ![f] = Binding(project, read)]
  /\ UNCHANGED <<project, cmd, pc, table, gomod, pub, read, failed>>
StopAtError(f) == {}
GoOn(f) == todo \ {f}
BreakFile(f) ==
  /\ pc = "write" /\ f \in todo
  /\ todo' = GoOn(f) /\ failed' = failed \cup {f}
  /\ code' \in {code, [code EXCEPT ![f] = Broken]}
  /\ UNCHANGED <<project, cmd, pc, table, gomod, pub, read>>
ErrorsLost == "fmt"
AfterFiles == IF failed = {} THEN "fmt" ELSE "panic"
FilesWritten ==
  /\ todo = {} /\ Step("write", AfterFiles)
  /\ UNCHANGED <<project, cmd, disk, read, todo, failed>>

(* go fmt and go mod tidy.                                                 *)
FmtTidy ==
  /\ Step("fmt", "ok")
  /\ UNCHANGED <<project, cmd, disk, read, todo, failed>>

Next ==
  \/ ChangeProject \/ EditTable
  \/ \E symbGen, codeGen, mod \in BOOLEAN : Start(symbGen, codeGen, mod)
  \/ Fail
  \/ WriteTable \/ BreakTable
  \/ Parse \/ ModInit \/ GoGet \/ ReadTable \/ Convert
  \/ WritePub \/ BreakPub
  \/ \E f \in GoFile : WriteFile(f) \/ BreakFile(f)
  \/ FilesWritten \/ FmtTidy

Spec == Init /\ [][Next]_vars
=============================================================================
