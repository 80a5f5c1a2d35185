------------------------- MODULE MCRepositoryContext -------------------------
(***************************************************************************)
(* Instances of RepositoryContext for TLC: a package of two modules, a     *)
(* module and a package file above it, and a test, in the states that      *)
(* edits lead to.                                                          *)
(***************************************************************************)
EXTENDS RepositoryContext

MCOrder == <<"__init__.py", "app.py", "pkg/a.py", "pkg/b.py", "tests/t.py">>
MCModuleOf == [f \in ToSet(MCOrder) |->
  CASE f = "__init__.py" -> <<>> [] f = "app.py" -> <<"app">> [] f = "pkg/a.py" -> <<"pkg", "a">>
    [] f = "pkg/b.py" -> <<"pkg", "b">> [] OTHER -> <<"tests", "t">>]

I(dots, module, name) == [level |-> dots, module |-> module, name |-> name]
F(lines, defs, imports) == [lines |-> lines, symbols |-> defs, imports |-> imports, parses |-> TRUE, decodes |-> TRUE]

App  == F(<<2, 1, 3>>, {<<2, 3>>}, {I(0, <<"pkg">>, "a")})
A    == F(<<1, 1, 1, 1, 2>>, {<<5, 5>>}, {I(1, <<>>, "b")})
ANew == F(<<2>>, {}, {I(0, <<"b">>, "none")})
B    == F(<<3, 2>>, {}, {})
Test == F(<<1, 1>>, {}, {I(0, <<"app">>, "run"), I(0, <<"json">>, "none")})
Empty == F(<<>>, {}, {})
Latin1 == [Empty EXCEPT !.parses = FALSE, !.decodes = FALSE]
Root == F(<<1>>, {}, {I(1, <<"app">>, "run"), I(1, <<>>, "app")})
Broken == [B EXCEPT !.parses = FALSE, !.lines = <<1, 1, 1, 1, 1, 1>>]

V(root, app, a, b, test) ==
  [f \in ToSet(MCOrder) |->
     CASE f = "__init__.py" -> root [] f = "app.py" -> app [] f = "pkg/a.py" -> a
       [] f = "pkg/b.py" -> b [] OTHER -> test]
W(app, a, b, test) == V(Absent, app, a, b, test)

MCWorkspaces == { W(App, A, B, Test), V(Root, App, ANew, B, Test), W(App, A, Broken, Test),
                  W(App, Unreadable, Absent, Test), W(App, A, Empty, Test),
                  W(App, A, Latin1, Test) }

MCEvidence ==
  { [tests |-> <<"tests/t.py">>, frames |-> <<>>],
    [tests |-> <<"tests/t.py">>, frames |-> <<[path |-> "app.py", line |-> 3]>>],
    [tests |-> <<>>, frames |-> <<[path |-> "pkg/b.py", line |-> 1], [path |-> "pkg/b.py", line |-> 2]>>],
    [tests |-> <<>>, frames |-> <<>>] }
=============================================================================
