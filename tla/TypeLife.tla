------------------------------ MODULE TypeLife -----------------------------
(***************************************************************************)
(* What the converter promises about the types of the generated package,   *)
(* with no scope, no symbol table and no deferred list: a C type gets a Go *)
(* name of its own, keeps it, is defined once, and a package that is       *)
(* written has no type left without a definition.                          *)
(***************************************************************************)
EXTENDS Integers

CONSTANTS CDecl   \* the C declarations that become Go types

VARIABLES
  name,     \* a function from the declared types to their Go names
  defined,  \* the declared types that have an underlying type
  status    \* "open" while converting, then "written" or "abandoned"

vars == <<name, defined, status>>

Injective(f) == \A a, b \in DOMAIN f : f[a] = f[b] => a = b

Init ==
  /\ DOMAIN name = {} /\ defined = {} /\ status = "open"

(* New types may appear and declared ones may be defined; nothing is taken *)
(* back and nothing is renamed.                                            *)
Grow ==
  /\ status = "open" /\ status' \in {"open", "abandoned"}
  /\ DOMAIN name \subseteq DOMAIN name' /\ DOMAIN name' \subseteq CDecl
  /\ \A n \in DOMAIN name : name'[n] = name[n]
  /\ Injective(name')
  /\ defined \subseteq defined' /\ defined' \subseteq DOMAIN name'

Write ==
  /\ status = "open" /\ defined = DOMAIN name
  /\ status' = "written"
  /\ UNCHANGED <<name, defined>>

Next == Grow \/ Write

Spec == Init /\ [][Next]_vars
=============================================================================
