--------------------------- MODULE PipelineSafety --------------------------
(***************************************************************************)
(* What must hold of Pipeline: the properties its runs check.              *)
(***************************************************************************)
EXTENDS Pipeline

(* What a generated file may be made from, as far as types go.             *)
Bindings == {Binding(pr, t) : pr \in Projects, t \in Tables \cup {None, Broken}}

TypeOK ==
  /\ project \in Projects
  /\ cmd \in [symbGen : BOOLEAN, codeGen : BOOLEAN, mod : BOOLEAN]
  /\ pc \in {"ok", "panic", "idle", "symg", "parse", "modinit", "get", "read",
             "convert", "pub", "write", "fmt"}
  /\ table \in Tables \cup {None, Broken} /\ read \in Tables \cup {None, Broken}
  /\ gomod \in BOOLEAN
  /\ pub \in Bindings \cup {None, Broken}
  /\ code \in [GoFile -> Bindings \cup {None, Broken}]
  /\ todo \subseteq GoFile /\ failed \subseteq GoFile

(* When an invocation that generates code ends without a panic, every Go   *)
(* file of the package and llcppg.pub are made from the project as it is   *)
(* and from the llcppg.symb.json that lies next to them, whatever earlier  *)
(* invocations failed at, edited or left behind.                           *)
BindingsCurrent ==
  pc = "ok" /\ Code =>
    /\ \A f \in project.goFiles : code[f] = Binding(project, table)
    /\ project.public => pub = Binding(project, table)

(* Nothing is ever generated without a symbol table, or from one that an   *)
(* interrupted invocation cut short.                                       *)
Sound(b) == \A pr \in Projects : b \notin {Binding(pr, None), Binding(pr, Broken)}
TableSound == Sound(pub) /\ \A f \in GoFile : Sound(code[f])

(* A Go file that cannot be written does not keep the others from it.      *)
OthersWritten ==
  pc = "write" /\ todo = {} =>
    \A f \in project.goFiles \ failed : code[f] = Binding(project, read)
=============================================================================
