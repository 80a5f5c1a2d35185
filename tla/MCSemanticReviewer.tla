------------------------- MODULE MCSemanticReviewer -------------------------
(* Two files, three lists of context, risks that are right or wrong in one way *)
(* each, and answers with up to two of them.                               *)
EXTENDS SemanticReviewer

MCLines == [f \in {"a.py", "empty.py"} |-> IF f = "a.py" THEN 2 ELSE 0]

At(p, l) == [path |-> p, line |-> {l}]
FileOnly(p) == [path |-> p, line |-> {}]

Risk(i, s, c, e, x) ==
  [id |-> <<"risk", i>>, severity |-> s, category |-> c, evidence |-> e, examples |-> x, text |-> "ok"]

MCRisks ==
  {Risk("r1", "blocking", "ordering", <<At("a.py", 2)>>, <<"ok">>),
   Risk("r1", "blocking", "ordering", <<At("a.py", 3)>>, <<"ok">>),
   Risk("r1", "blocking", "ordering", <<FileOnly("a.py")>>, <<>>),
   Risk("r2", "warning", "representation", <<At("empty.py", 1), At("gone.py", 1)>>, <<"ok", "long">>),
   Risk("r2", "warning", "representation", <<>>, <<"ok">>),
   Risk("r2", "warning", "unheard_of", <<FileOnly("gone.py")>>, <<"ok">>),
   [Risk("r1", "warning", "ordering", <<>>, <<>>) EXCEPT !.id = Delimiter.id]}

Contract == [id |-> "c1", text |-> "ok", evidence |-> <<At("a.py", 1)>>, confidence |-> "ok"]

Answer(v, r) ==
  [form |-> "object", verdict |-> v, summary |-> "ok", contracts |-> <<Contract>>, risks |-> r,
   feedback |-> "ok"]

MCAnswers ==
  {Answer(v, r) : v \in Verdicts \cup {"perhaps"},
                  r \in {<<>>} \cup {<<x>> : x \in MCRisks} \cup {<<x, y>> : x, y \in MCRisks}}
    \cup {[Answer("accept", <<>>) EXCEPT !.form = "fenced"],
          [Answer("accept", <<>>) EXCEPT !.summary = "missing"],
          [Answer("accept", <<>>) EXCEPT !.contracts = <<[Contract EXCEPT !.confidence = "bad"]>>],
          [Answer("accept", <<>>) EXCEPT !.feedback = "long"]}

FewAnswers ==
  {Answer("accept", <<>>), Answer("perhaps", <<>>),
   [Answer("accept", <<>>) EXCEPT !.form = "fenced"],
   Answer("revise", <<Risk("r1", "blocking", "ordering", <<At("a.py", 2)>>, <<"ok">>)>>)}

-----------------------------------------------------------------------------
(* Sources: every guard over all operators and the bounds around zero, two *)
(* comparisons joined in every way, every substitution over three          *)
(* characters, alone and with a collapse step, and the other operations.   *)

Plain == [parses |-> TRUE, ops |-> {}, calls |-> {}, functions |-> {}]

Call(a, k, q, x, r, o) ==
  [attr |-> a, class |-> k, quantifier |-> q, excluded |-> x, repl |-> r, old |-> o]

Sub(q, x, c) == Call(IF q = "?" THEN "subn" ELSE "sub", "negated", q, x, <<c>>, <<>>)

CollapseCalls ==
  {Call(a, "collapse", "+", {}, <<"-">>, <<>>) : a \in {"sub", "split"}}
    \cup {Call("replace", "other", "none", {}, <<"-">>, <<"-", "-">>)}

Comparison(params) ==
  [param : params, op : {"<", "<=", ">", ">="}, bound : -1..1, swapped : BOOLEAN]

Branch(c, j, r) == [comparisons |-> c, join |-> j, raises |-> r]

Function(p, b) == [public |-> TRUE, declares |-> TRUE, params |-> p, branches |-> b]

SingleGuards ==
  {Function({"n"}, {Branch({c}, j, r)}) :
     c \in Comparison({"n"}), j \in {"or", "not"}, r \in SUBSET {"then", "else", "deeper"}}

JoinedGuards ==
  {Function({"m", "n"}, {Branch({c, d}, j, {"then"})}) :
     c \in {x \in Comparison({"n"}) : x.bound = 0}, d \in {x \in Comparison({"m"}) : x.bound = 1},
     j \in {"and", "or", "not"}}

TwoGuards ==
  {Function({"m", "n"}, {Branch({c}, "or", {"then"}), Branch({d}, "or", {"then"})}) :
     c \in Comparison({"n"}), d \in {x \in Comparison({"m"}) : x.bound = 1}}

FunctionSources ==
  {[Plain EXCEPT !.functions = {f}] : f \in SingleGuards \cup JoinedGuards \cup TwoGuards}

Substitutions ==
  {[Plain EXCEPT !.calls = {Sub(q, x, c)} \cup more] :
     q \in {"+", "*", "?", "none"}, x \in SUBSET Chars \ {Chars}, c \in Chars,
     more \in {{}} \cup {{k} : k \in CollapseCalls}}

Slug == [Plain EXCEPT !.calls = {Sub("+", {"a", "-"}, "-")}]
Broken == [Slug EXCEPT !.parses = FALSE]
Unguarded == [Plain EXCEPT !.functions = {Function({"n"}, {})}, !.ops = {"round"}]

MCSources == FunctionSources \cup Substitutions \cup {Broken, Unguarded}
MCValues == -3..1
MCChars == {"a", " ", "-"}

Item(changed, size, source) == [changed |-> changed, size |-> size, source |-> source]

MCItems == {<<Item(TRUE, 1, Plain), Item(TRUE, 1, Broken)>>,
            <<Item(TRUE, 2, Slug), Item(FALSE, 9, Unguarded)>>,
            <<Item(TRUE, 9, Unguarded), Item(TRUE, 2, Slug)>>}

OneItem == {<<Item(TRUE, 1, Plain)>>}
=============================================================================
