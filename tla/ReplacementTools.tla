-------------------------- MODULE ReplacementTools --------------------------
(***************************************************************************)
(* tools/replacement_tools.py: JSON replacements, searched in texts and    *)
(* planned one after another before any file is written. A text is a       *)
(* sequence of characters; "lf" ends a line, and so does "crlf", which     *)
(* read_text() turns into "lf" and write_text() does not turn back.        *)
(***************************************************************************)
EXTENDS EditPolicy, Sequences

CONSTANT Unreadable     \* a file that is missing or not UTF-8

IsSequence(s) == s \in Seq({s[i] : i \in DOMAIN s})

Read(text) == [i \in DOMAIN text |-> IF text[i] = "crlf" THEN "lf" ELSE text[i]]

(* len(text.splitlines()) *)
LineCount(text) ==
  Cardinality({i \in DOMAIN text : text[i] \in {"lf", "crlf"}})
    + IF text = <<>> \/ text[Len(text)] \in {"lf", "crlf"} THEN 0 ELSE 1

-----------------------------------------------------------------------------
(* An edit is [path, old, new, line]; line 0 stands for no start_line.     *)

(* parse_replacements() *)
WellFormedEdit(e) == e.old # <<>> /\ e.old # e.new /\ e.line \in Nat

OccursAt(text, old, i) ==
  /\ i + Len(old) - 1 <= Len(text)
  /\ \A k \in 1..Len(old) : text[i + k - 1] = old[k]

(* _find_occurrences: from the left, without overlaps. *)
FindOccurrences(text, old) ==
  LET from[i \in 1..(Len(text) + Len(old) + 1)] ==
        IF i > Len(text) THEN {}
        ELSE IF OccursAt(text, old, i) THEN {i} \cup from[i + Len(old)]
        ELSE from[i + 1]
  IN  from[1]

LineOf(text, i) == 1 + Cardinality({k \in 1..(i - 1) : text[k] = "lf"})

Distance(a, b) == IF a > b THEN a - b ELSE b - a

(* Mutant: the first of several nearest matches is taken. *)
NearestOrFirst(text, matches, line) ==
  {i \in matches : \A j \in matches :
     \/ Distance(LineOf(text, i), line) < Distance(LineOf(text, j), line)
     \/ Distance(LineOf(text, i), line) = Distance(LineOf(text, j), line) /\ i <= j}

(* _nearest_match_by_line: all matches at the least distance. *)
Nearest(text, matches, line) ==
  {i \in matches : \A j \in matches :
     Distance(LineOf(text, i), line) <= Distance(LineOf(text, j), line)}

(* Where an edit applies: one place, or none if it is lost or ambiguous. *)
Places(text, e) ==
  LET matches == FindOccurrences(text, e.old)
  IN  IF Cardinality(matches) <= 1 THEN matches
      ELSE IF e.line = 0 THEN {}
      ELSE IF Cardinality(Nearest(text, matches, e.line)) = 1
      THEN Nearest(text, matches, e.line) ELSE {}

Substitute(text, e, i) ==
  SubSeq(text, 1, i - 1) \o e.new \o SubSeq(text, i + Len(e.old), Len(text))

(* Lines an edit counts for. *)
EditLines(e) ==
  IF LineCount(e.old) > LineCount(e.new) THEN LineCount(e.old) ELSE LineCount(e.new)

ChangedLines(edits) ==
  LET sum[n \in 0..Len(edits)] == IF n = 0 THEN 0 ELSE sum[n - 1] + EditLines(edits[n])
  IN  sum[Len(edits)]

EditPaths(edits) == {edits[n].path : n \in DOMAIN edits}

(* The planned content of every file after the first n edits, each         *)
(* searched in what the ones before it planned, or the error.              *)
Plan(files, edits) ==
  LET step(plan, e) ==
        IF plan.error # "none" THEN plan
        ELSE IF plan.files[e.path] = Unreadable THEN [plan EXCEPT !.error = "read"]
        ELSE LET text == Read(plan.files[e.path])
             IN  IF FindOccurrences(text, e.old) = {} THEN [plan EXCEPT !.error = "lost"]
                 ELSE IF Places(text, e) = {} THEN [plan EXCEPT !.error = "ambiguous"]
                 ELSE [plan EXCEPT !.files[e.path] =
                         Substitute(text, e, CHOOSE i \in Places(text, e) : TRUE)]
      after[n \in 0..Len(edits)] ==
        IF n = 0 THEN [files |-> files, error |-> "none"] ELSE step(after[n - 1], edits[n])
  IN  after[Len(edits)]

(* Mutant: the policy is not consulted. *)
PlannedUnlimited(files, edits) == Plan(files, edits)

(* apply_replacements() up to the first write. *)
Planned(files, edits) ==
  IF PathsAllowed(EditPaths(edits)) /\ LinesAllowed(ChangedLines(edits))
  THEN Plan(files, edits) ELSE [files |-> files, error |-> "policy"]

-----------------------------------------------------------------------------
(* What a replacement should do                                            *)

(* No proper prefix of the text is also its end. *)
NoOverlap(old) == \A n \in 1..(Len(old) - 1) : SubSeq(old, 1, n) # SubSeq(old, Len(old) - n + 1, Len(old))

(* docs/design.md:184: "old text must match exactly once unless            *)
(* `start_line` disambiguates it". A place is chosen exactly if, among all *)
(* places where the old text occurs, it is the only one, or the only one   *)
(* nearest to the line given.                                              *)
PlaceIsExact(text, e) ==
  NoOverlap(e.old) =>
    \A i \in 1..Len(text) :
      i \in Places(text, e) <=>
        /\ OccursAt(text, e.old, i)
        /\ \A j \in 1..Len(text) \ {i} : OccursAt(text, e.old, j) =>
             e.line # 0 /\ Distance(LineOf(text, i), e.line) < Distance(LineOf(text, j), e.line)
=============================================================================
