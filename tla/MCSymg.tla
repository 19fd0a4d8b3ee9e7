------------------------------- MODULE MCSymg ------------------------------
(***************************************************************************)
(* Instance of Symg: the functions of a small library that compete for    *)
(* the names Open, Close, Foo.Close and Foo.Init.                         *)
(***************************************************************************)
EXTENDS SymgSafety, TLC

MCSuffixCount(g, k) == IF k = 1 THEN g ELSE g \o "__" \o ToString(k - 1)

MCCName == {"Foo", "lib_open", "open", "close", "foo_close", "foo_end", "log", "dbg", "int"}
MCGoOf == [c \in MCCName |->
             CASE c \in {"lib_open", "open"} -> "Open"
               [] c \in {"close", "foo_close"} -> "Close"
               [] c = "foo_end" -> "End" [] c = "log" -> "Log" [] c = "dbg" -> "Dbg"
               [] c = "int" -> "Int" [] c = "Foo" -> "Foo"]

Arg(how, type, f) == [how |-> how, type |-> type, file |-> f]
NoArg == Arg("none", "int", "third.h")
FooPtr == Arg("ptr", "Foo", "a.h")
Cur(s, c, kind, f, scope, class, a, variadic) ==
  [sym |-> s, name |-> c, kind |-> kind, file |-> f, scope |-> scope, class |-> class,
   arg |-> a, variadic |-> variadic]
CFunc(c, f, a) == Cur(c, c, "func", f, "top", "", a, FALSE)

MCCursor ==
  { CFunc("lib_open", "a.h", NoArg), CFunc("open", "b.h", NoArg),
    CFunc("close", "a.h", FooPtr), CFunc("close", "b.h", Arg("deep", "Foo", "a.h")),
    CFunc("foo_close", "b.h", Arg("value", "Foo", "a.h")), CFunc("foo_end", "a.h", FooPtr),
    CFunc("log", "a.h", FooPtr), CFunc("dbg", "b.h", NoArg),
    Cur("Foo1", "Foo", "ctor", "a.h", "class", "Foo", NoArg, FALSE),
    Cur("Foo2", "Foo", "ctor", "b.h", "class", "Foo", FooPtr, FALSE),
    Cur("FooD", "Foo", "dtor", "a.h", "class", "Foo", NoArg, FALSE),
    Cur("close", "close", "private", "a.h", "class", "Foo", NoArg, FALSE),
    Cur("log", "log", "static", "a.h", "top", "", FooPtr, FALSE),
    Cur("dbg", "dbg", "func", "third.h", "top", "", FooPtr, FALSE) }
MCSymMap == ("open" :> [form |-> "func", name |-> "Open"])
         @@ ("foo_end" :> [form |-> "method", name |-> "Close"])
         @@ ("log" :> [form |-> "ignore", name |-> "-"])
         @@ ("dbg" :> [form |-> "ignore", name |-> "-"])

MCPaths == <<"L", "sys">>
MCLibNames == <<"foo", "m">>
MCNmList == (<<"L", "foo">> :> {"lib_open", "close", "foo_end", "open", "extra"})
          @@ (<<"sys", "foo">> :> {"lib_open", "dbg"}) @@ (<<"L", "m">> :> {"log", "close"})
          @@ (<<"sys", "m">> :> {})
=============================================================================
