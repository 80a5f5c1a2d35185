--------------------------- MODULE MCPatchApproval ---------------------------
(***************************************************************************)
(* Instances of PatchApproval for TLC: a module whose text repeats itself, *)
(* one with other line ends, a test, and a file that is not there.         *)
(***************************************************************************)
EXTENDS PatchApproval

MCPath == {"m.py", "n.py", "tests/t.py", "out.txt"}
MCSafe == MCPath
MCPython == {"m.py", "n.py", "tests/t.py"}
MCTests == {"tests/t.py"}
MCOrder == <<"m.py", "n.py", "out.txt", "tests/t.py">>

M == <<"a", "lf", "a", "lf">>
N == <<"b", "crlf", "lf">>
MCBase == [f \in Path |-> CASE f = "m.py" -> M [] f = "n.py" -> N
                            [] f = "out.txt" -> Unreadable [] OTHER -> <<"a">>]

MCTexts == {M, <<"a">>, <<"b", "lf", "a", "lf", "a">>, <<"lf", "a", "a", "lf", "b">>}
FewTexts == {M, <<"b", "lf", "a", "lf">>}

E(path, old, new, line) == [path |-> path, old |-> old, new |-> new, line |-> line]
MCEditLists ==
  { <<E("m.py", <<"a">>, <<"b">>, line)>> : line \in {0, 1, 2, 3} }
  \cup
  { <<E("m.py", <<"a", "lf", "a">>, <<"b">>, 0)>>,
    <<E("m.py", <<"a">>, <<"b">>, 1), E("m.py", <<"a">>, <<"b">>, 0)>>,
    <<E("m.py", <<"a">>, <<"b">>, 1), E("m.py", <<"c">>, <<"b">>, 0)>>,
    <<E("m.py", <<"a">>, <<"b">>, 1), E("n.py", <<"b">>, <<"a">>, 0)>>,
    <<E("n.py", <<"b">>, <<"a">>, 0)>>,
    <<E("m.py", <<"a", "lf", "a">>, <<"b", "crlf", "b">>, 0)>>,
    <<E("n.py", <<"lf", "lf">>, <<"lf">>, 0)>>,
    <<E("m.py", <<>>, <<"b">>, 0)>>,
    <<E("out.txt", <<"a">>, <<"b">>, 0)>>,
    <<E("tests/t.py", <<"a">>, <<"b">>, 0)>>,
    <<E("m.py", <<"a", "lf", "a">>, <<"a", "lf", "lf", "b">>, 0)>> }

Changed(path, from, to) ==
  [header |-> path, path |-> path, kind |-> "change", from |-> from, to |-> to, lines |-> 2]
Patch(blocks) == [blocks |-> blocks, blank |-> FALSE, cut |-> FALSE]
MB == <<"b", "lf", "a", "lf">>
MCRawPatches ==
  { Patch(<<Changed("m.py", M, MB)>>),
    Patch(<<[Changed("m.py", M, MB) EXCEPT !.header = NoPath]>>),
    Patch(<<[Changed("m.py", M, MB) EXCEPT !.header = "n.py"]>>),
    Patch(<<[Changed("tests/t.py", <<"a">>, <<"b">>) EXCEPT !.header = "m.py"]>>),
    Patch(<<Changed("tests/t.py", <<"a">>, <<"b">>)>>),
    Patch(<<Changed("m.py", MB, M)>>),
    Patch(<<Changed("n.py", N, <<"a", "crlf", "lf">>)>>),
    [Patch(<<Changed("m.py", M, MB)>>) EXCEPT !.blank = TRUE],
    Patch(<<Changed("m.py", M, MB), Changed("m.py", MB, <<"b", "lf", "b", "lf">>)>>) }
=============================================================================
