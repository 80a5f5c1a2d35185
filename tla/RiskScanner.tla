----------------------------- MODULE RiskScanner -----------------------------
(***************************************************************************)
(* review/risk_scanner.py: structural cues of the changed sources. The     *)
(* syntax tree of a source is abstracted to the facts the scanner asks     *)
(* for: which string operations occur, which regular expressions are       *)
(* substituted, which numbers are rounded, and the functions with their    *)
(* docstring claim and their if statements.                                *)
(***************************************************************************)
EXTENDS Integers, Sequences

CONSTANTS Chars,          \* characters of texts and of character classes
          MaxText,        \* length of the texts of the reference definition
          Values          \* integers a parameter may have

NonPositive == {v \in Values : v <= 0}

(* A function is [public, declares, params, branches]; declares says that  *)
(* its docstring promises positive inputs. A branch is an if statement:    *)
(* the comparisons [param, op, bound, swapped] found anywhere in its       *)
(* condition ("param op bound", or with its sides swapped), how they are   *)
(* joined ("and", "or", or "not" for a negated disjunction), and where it  *)
(* raises: directly under "then" or "else", or "deeper".                   *)

(* Mutant: "param < 0" passes for a guard. *)
RecognizedBelowZero(c) ==
  c.bound >= 0 /\ c.op \in IF c.swapped THEN {">=", ">"} ELSE {"<=", "<"}

(* One comparison of _has_non_positive_guard(). *)
Recognized(c) ==
  \/ c.op = (IF c.swapped THEN ">=" ELSE "<=") /\ c.bound >= 0
  \/ c.op = (IF c.swapped THEN ">" ELSE "<") /\ c.bound > 0

(* Any comparison in the condition counts, and any raise below the branch. *)
Guards(b, p) == b.raises # {} /\ \E c \in b.comparisons : c.param = p /\ Recognized(c)

(* _has_unenforced_positive_precondition *)
Unenforced(f) ==
  /\ f.public /\ f.declares
  /\ \E p \in f.params : ~\E b \in f.branches : Guards(b, p)

(* A call is [attr, class, quantifier, excluded, repl, old]: class is      *)
(* "negated" for [^excluded] with that quantifier, "collapse" for a        *)
(* repeated character, or "other". repl is the replacement, a sequence of  *)
(* characters.                                                             *)
Substitutes(call) == call.attr \in {"sub", "subn"} /\ call.class = "negated" /\ Len(call.repl) = 1

(* Mutant: the character class is not looked at. *)
InsertsAnyDelimiter(call) == Substitutes(call)

Inserts(call) == Substitutes(call) /\ call.repl[1] \in call.excluded

(* str.replace(old, new) with a shorter new of the same characters. *)
Collapses(call) ==
  \/ call.attr \in {"sub", "subn", "split"} /\ call.class = "collapse"
  \/ /\ call.attr = "replace"
     /\ call.old # <<>> /\ call.repl # <<>> /\ Len(call.old) > Len(call.repl)
     /\ \A i \in DOMAIN call.repl : \E j \in DOMAIN call.old : call.repl[i] = call.old[j]

(* _has_repeat_delimiter_risk *)
RepeatRisk(s) == (\E c \in s.calls : Inserts(c)) /\ ~\E c \in s.calls : Collapses(c)

(* The cues of scan(), with their categories. *)
Delimiter == [id |-> <<"cue", "delimiter_composition">>, category |-> "representation"]
TieBreaking == [id |-> <<"cue", "numeric_tie_breaking">>, category |-> "numeric_precision"]
Precondition == [id |-> <<"cue", "declared_positive_precondition">>, category |-> "boundary"]

(* scan() for one source; one that does not parse has no cue. *)
CuesOf(s) ==
  {c \in {Delimiter, TieBreaking, Precondition} :
     /\ s.parses
     /\ CASE c = Delimiter -> \/ {"split", "compose"} \subseteq s.ops /\ "strip" \notin s.ops
                             \/ RepeatRisk(s)
          [] c = TieBreaking -> s.ops \cap {"round", "quantize"} # {}
          [] c = Precondition -> \E f \in s.functions : Unenforced(f)}

Scan(sources) == UNION {CuesOf(s) : s \in sources}

-----------------------------------------------------------------------------
(* What the program text does, independently of the scanner                *)

(* The value of a comparison, ... *)
Holds(c, v) ==
  LET l == IF c.swapped THEN c.bound ELSE v
      r == IF c.swapped THEN v ELSE c.bound
  IN  CASE c.op = "<" -> l < r [] c.op = "<=" -> l <= r
        [] c.op = ">" -> l > r [] c.op = ">=" -> l >= r

(* ... that of the condition for the arguments args, and whether the       *)
(* branch, once reached, rejects them.                                     *)
Satisfied(b, args) ==
  CASE b.join = "and" -> \A c \in b.comparisons : Holds(c, args[c.param])
    [] b.join = "or"  -> \E c \in b.comparisons : Holds(c, args[c.param])
    [] b.join = "not" -> \A c \in b.comparisons : ~Holds(c, args[c.param])

Rejects(b, args) == (IF Satisfied(b, args) THEN "then" ELSE "else") \in b.raises

(* re.sub("[^excluded]" with the quantifier, repl, text); "*" and "?" also *)
(* match the empty text before every character they do not match, and at   *)
(* the end.                                                                *)
EmptyMatch(call) == IF call.quantifier \in {"*", "?"} THEN call.repl ELSE <<>>

Substituted(text, call) ==
  LET sub[n \in 0..Len(text)] ==
        IF n = 0 THEN <<>>
        ELSE IF text[n] \in call.excluded THEN Append(sub[n - 1] \o EmptyMatch(call), text[n])
        ELSE IF call.quantifier \in {"+", "*"} /\ n > 1 /\ text[n - 1] \notin call.excluded
        THEN sub[n - 1]
        ELSE sub[n - 1] \o call.repl
  IN  sub[Len(text)] \o EmptyMatch(call)

Texts == UNION {[1..n -> Chars] : n \in 0..MaxText}

Doubled(text, c) == \E i \in 1..(Len(text) - 1) : text[i] = c /\ text[i + 1] = c

(* Some text comes out with a run of the inserted delimiter. *)
MayRepeat(call) ==
  /\ Substitutes(call)
  /\ \E text \in Texts : Doubled(Substituted(text, call), call.repl[1])

-----------------------------------------------------------------------------
(* Properties                                                              *)

(* The cue about declared positive inputs disappears exactly if, for every *)
(* declared parameter, a branch that raises somewhere compares it in a way *)
(* that holds of every non-positive value: wrong bounds and flipped sides  *)
(* do not pass for guards. docs/design.md:92 says more: "only when every   *)
(* declared parameter visibly rejects non-positive values". That is so if  *)
(* branches join comparisons by "or" and raise directly under them, and    *)
(* not in general (README).                                                *)
GuardCueExact(s) ==
  s.parses =>
    LET declaring == {f \in s.functions : f.public /\ f.declares}
        raising(f) == {b \in f.branches : b.raises # {}}
    IN  /\ Precondition \notin CuesOf(s) <=>
             \A f \in declaring : \A p \in f.params :
               \E b \in raising(f) : \E c \in b.comparisons :
                 c.param = p /\ \A v \in NonPositive : Holds(c, v)
        /\ Precondition \notin CuesOf(s) =>
             \A f \in declaring :
               (\A b \in raising(f) : b.join = "or" /\ "then" \in b.raises) =>
                 \A args \in [f.params -> Values] :
                   (\E p \in f.params : args[p] <= 0) => \E b \in raising(f) : Rejects(b, args)

(* In a source with substitutions only, the delimiter cue is raised exactly *)
(* if one of them can leave a run of the delimiter it inserts. Missed are  *)
(* only those without "+" whose class replaces the delimiter, too.         *)
RepeatCueExact(s) ==
  s.parses /\ s.ops = {} /\ (\A c \in s.calls : ~Collapses(c)) =>
    (Delimiter \in CuesOf(s) <=>
       \E c \in s.calls : MayRepeat(c) /\ (c.quantifier = "+" \/ c.repl[1] \in c.excluded))
=============================================================================
