------------------------------ MODULE GoWrite ------------------------------
(***************************************************************************)
(* The positions gowrite gives the nodes of a generated Go file before     *)
(* go/format prints it (internal/gowrite).  The nodes have none of their   *)
(* own; the printer puts two of them on different lines when their         *)
(* positions are, in a line table with one line per position.  The walk    *)
(* is one anchor per step; a comment takes the lines its text has.         *)
(***************************************************************************)
EXTENDS Integers, Sequences

CONSTANTS
  Files, \* Go files: the fields doc (of the file) and decls
  Base   \* fset.Base(): the first position of the file

(* A declaration: its kind, the line counts of its doc comments (0 for a   *)
(* nil comment), whether a function has a type and a body, and for its     *)
(* interface types, or those of the function types it declares, whether    *)
(* they are empty ones without positions.                                  *)
GoDecl == [kind : {"func", "gen"}, doc : Seq(Nat), type : BOOLEAN, body : BOOLEAN,
         ifaces : Seq(BOOLEAN)]
ASSUME GoWriteAssumption ==
  /\ Base \in Nat \ {0}
  /\ \A f \in Files : f.doc \in Seq(Nat) /\ f.decls \in Seq(GoDecl)

VARIABLES
  file,
  phase,   \* "walk", "written" or "panic"
  decls,   \* declarations the walk has not come to
  pending, \* lines of the nodes of the current one that have no position yet
  next,    \* the next position
  anchors, \* positions given, in the order of the walk: [pos, lines]
  lines    \* line table of the synthetic file

writeVars == <<file, phase, decls, pending, next, anchors, lines>>

-----------------------------------------------------------------------------
(* anchorEmptyIfaceInFunc and needsEmptyIface: the three tokens of an      *)
(* interface{} share one position, other interfaces get none.              *)
Ifaces(d) == [i \in DOMAIN d.ifaces |-> IF d.ifaces[i] THEN 1 ELSE 0]

(* The anchors of a declaration, in the order of anchorDecls.              *)
Anchors(d) ==
  d.doc \o
    IF d.kind = "gen" THEN <<1>> \o Ifaces(d)
    ELSE (IF d.type THEN <<1>> \o Ifaces(d) ELSE <<>>)
         \o (IF d.body THEN <<1, 1>> ELSE <<>>)

(* The package clause comes before the file's comments.                    *)
WriteInit ==
  /\ file \in Files /\ phase = "walk"
  /\ decls = file.decls /\ pending = <<1>> \o file.doc
  /\ next = Base /\ anchors = <<>> /\ lines = <<>>

NextDecl ==
  /\ phase = "walk" /\ pending = <<>> /\ decls # <<>>
  /\ pending' = Anchors(Head(decls)) /\ decls' = Tail(decls)
  /\ UNCHANGED <<file, phase, next, anchors, lines>>

(* A nil comment, or an interface with methods or positions.               *)
Skip ==
  /\ phase = "walk" /\ pending # <<>> /\ Head(pending) = 0
  /\ pending' = Tail(pending)
  /\ UNCHANGED <<file, phase, decls, next, anchors, lines>>

(* newPos, and skipLines after a comment.  Fault: a comment takes one line *)
(* however many it has.                                                    *)
AnchorOneLine ==
  /\ phase = "walk" /\ pending # <<>> /\ Head(pending) # 0
  /\ anchors' = Append(anchors, [pos |-> next, lines |-> Head(pending)])
  /\ next' = next + 1 /\ pending' = Tail(pending)
  /\ UNCHANGED <<file, phase, decls, lines>>
Anchor ==
  /\ phase = "walk" /\ pending # <<>> /\ Head(pending) # 0
  /\ anchors' = Append(anchors, [pos |-> next, lines |-> Head(pending)])
  /\ next' = next + Head(pending) /\ pending' = Tail(pending)
  /\ UNCHANGED <<file, phase, decls, lines>>

(* token.File.SetLines (external): the first line begins at offset 0, and  *)
(* lines ascend below the size of the file.                                *)
SetLinesOk(table, size) ==
  /\ Len(table) > 0 => table[1] = 0 /\ table[Len(table)] < size
  /\ \A i \in 1..Len(table) - 1 : table[i] < table[i + 1]

(* The file's size is known when all positions are given.  Fault: it ends  *)
(* with the last position instead of after its lines.                      *)
RegisterShort ==
  /\ phase = "walk" /\ pending = <<>> /\ decls = <<>>
  /\ lines' = [i \in 1..anchors[Len(anchors)].pos - Base |-> i - 1]
  /\ phase' = "written"
  /\ UNCHANGED <<file, decls, pending, next, anchors>>
Register ==
  /\ phase = "walk" /\ pending = <<>> /\ decls = <<>>
  /\ lines' = [i \in 1..next - Base |-> i - 1]
  /\ phase' = IF SetLinesOk(lines', next - Base) THEN "written" ELSE "panic"
  /\ UNCHANGED <<file, decls, pending, next, anchors>>

WriteDone == phase \in {"written", "panic"} /\ UNCHANGED writeVars

WriteNext == NextDecl \/ Skip \/ Anchor \/ Register \/ WriteDone

WriteSpec == WriteInit /\ [][WriteNext]_writeVars
-----------------------------------------------------------------------------
(* A comment ends on the line before the anchor that follows it, so that a *)
(* directive below a block comment starts a line and stays next to its     *)
(* function: lines of the source neither collapse nor drift apart.         *)
LinesKept ==
  \A i \in 1..Len(anchors) - 1 : anchors[i + 1].pos = anchors[i].pos + anchors[i].lines

(* Every line of every anchor is a line of the registered file, whose      *)
(* table SetLines accepts: the panic of anchorDecls is not reached.        *)
InTable ==
  /\ phase # "panic"
  /\ phase = "written" =>
       \A i \in DOMAIN anchors :
         /\ Base <= anchors[i].pos
         /\ anchors[i].pos + anchors[i].lines <= Base + Len(lines)
=============================================================================
