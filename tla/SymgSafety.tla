----------------------------- MODULE SymgSafety ----------------------------
(***************************************************************************)
(* What must hold of Symg: the properties its runs check.                  *)
(***************************************************************************)
EXTENDS Symg

Named(s) == symbolMap[s] \notin {Unnamed, Ignored}

(* Two symbols never get one Go name ("-" is no name), whatever the order  *)
(* of their declarations and whichever of them are customised: AddSuffix   *)
(* counts the users of each name.                                          *)
NamesDistinct ==
  \A s, t \in DOMAIN symbolMap :
     (Named(s) /\ Named(t) /\ symbolMap[s] = symbolMap[t]) => s = t

(* "Custom symbols are processed before regular symbols to ensure          *)
(* user-defined mappings take precedence": a customised symbol gets the    *)
(* name asked for, without a suffix, unless another customised symbol asks *)
(* for the same; an ignored one is "-" and nothing else.                   *)
CustomGiven ==
  \A i \in 1..at - 1 :
     LET d == queue[i]
         contested == \E j \in DOMAIN queue :
            j # i /\ Custom(queue[j].sym) /\ ~Ignore(queue[j].sym) /\ Wanted(queue[j]) = Wanted(d)
     IN  Custom(d.sym) =>
           IF Ignore(d.sym) THEN symbolMap[d.sym] = Ignored
           ELSE contested \/ symbolMap[d.sym] = Numbered(Wanted(d), 1)

(* The suffix of a name is the number of symbols that want the name and    *)
(* come before: the customised ones first, then in source order.  The Go   *)
(* API of a library so depends on its headers and llcppg.cfg alone, never  *)
(* on the libraries present.                                               *)
Earlier(j, i) ==
  \/ Custom(found[j].sym) /\ ~Custom(found[i].sym)
  \/ (Custom(found[j].sym) <=> Custom(found[i].sym)) /\ j < i
NamedByRank ==
  phase \notin {"visit", "name"} =>
    \A i \in DOMAIN found :
       ~Ignore(found[i].sym) =>
         LET earlier == {j \in DOMAIN found : /\ ~Ignore(found[j].sym) /\ Earlier(j, i)
                                              /\ Wanted(found[j]) = Wanted(found[i])}
         IN  symbolMap[found[i].sym] = Numbered(Wanted(found[i]), 1 + Cardinality(earlier))

(* "Returns a list of symbols that can be externally linked": every entry  *)
(* is listed in a library the linker finds, -l names being looked up in    *)
(* the directories in order.  A library that cannot be found or listed     *)
(* does not end the run when another one has symbols.                      *)
LinkerTakes(i, lib) ==
  /\ <<Paths[i], lib>> \in disk
  /\ \A j \in DOMAIN Paths : j < i => <<Paths[j], lib>> \notin disk
TableLinks ==
  /\ ~headerOnly => \A s \in DOMAIN table : \E i \in DOMAIN Paths, k \in DOMAIN LibNames :
       LinkerTakes(i, LibNames[k]) /\ s \in NmList[<<Paths[i], LibNames[k]>>]
  /\ phase = "failed" => symbols = {}
=============================================================================
