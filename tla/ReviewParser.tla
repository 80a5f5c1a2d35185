---------------------------- MODULE ReviewParser ----------------------------
(***************************************************************************)
(* review/parser.py, validate_review_evidence() of review/context.py,      *)
(* review/policy.py on risks with ids, and review/feedback.py. A reviewer's*)
(* answer is a record of what these functions look at: its form, verdict,  *)
(* contracts and risks. A wording is "ok", "missing" or "long" (over      *)
(* max_text_chars).                                                        *)
(***************************************************************************)
EXTENDS Naturals, Sequences, FiniteSets

CONSTANTS Lines,          \* line count of each file of the workspace
          MaxRisks, MaxContracts, MaxEvidence, MaxExamples

ASSUME ParserAssumption ==
  /\ \A f \in DOMAIN Lines : Lines[f] \in Nat
  /\ MaxRisks \in Nat \ {0} /\ MaxContracts \in Nat \ {0}
  /\ MaxEvidence \in Nat \ {0} /\ MaxExamples \in Nat \ {0}

Verdicts == {"accept", "revise", "abstain"}
Severities == {"blocking", "warning"}
Categories == {"boundary", "representation", "numeric_precision", "ordering",
               "state_transition", "error_handling", "compatibility", "other"}

-----------------------------------------------------------------------------
(* ReviewParser                                                            *)

AtMost(s, n) == SubSeq(s, 1, IF Len(s) < n THEN Len(s) ELSE n)

Distinct(s) == \A i, j \in DOMAIN s : s[i] = s[j] => i = j

Ids(entries) == [i \in DOMAIN entries |-> entries[i].id]

(* Entries beyond the tenth piece of evidence or the fifth counterexample  *)
(* are dropped before they are looked at.                                  *)
Normalized(risk) ==
  [id |-> risk.id, severity |-> risk.severity, text |-> risk.text,
   category |-> IF risk.category \in Categories THEN risk.category ELSE "other",
   evidence |-> AtMost(risk.evidence, MaxEvidence),
   examples |-> AtMost(risk.examples, MaxExamples)]

(* The line of a piece of evidence is a set: empty, or the one number given. *)
PositiveLines(evidence) == \A i \in DOMAIN evidence : \A l \in evidence[i].line : l >= 1

(* A confidence is "ok", also if there is none, or "bad". *)
WellFormedContract(contract) ==
  /\ contract.text = "ok"
  /\ PositiveLines(AtMost(contract.evidence, MaxEvidence))
  /\ contract.confidence = "ok"

WellFormed(risk) ==
  /\ risk.text = "ok"
  /\ risk.severity \in Severities
  /\ PositiveLines(risk.evidence)
  /\ \A i \in DOMAIN risk.examples : risk.examples[i] = "ok"
  /\ risk.severity = "blocking" => risk.evidence # <<>> /\ risk.examples # <<>>

ParsedRisks(answer) == [i \in DOMAIN answer.risks |-> Normalized(answer.risks[i])]

(* parse(): what is wrong with an answer, "none" if it is an outcome. *)
ParseError(answer) ==
  CASE answer.form # "object" -> "form"
    [] answer.form = "object" /\ answer.verdict \notin Verdicts -> "verdict"
    [] OTHER ->
         IF answer.summary # "ok" THEN "summary"
         ELSE IF \/ Len(answer.contracts) > MaxContracts
                 \/ ~Distinct(Ids(answer.contracts))
                 \/ \E i \in DOMAIN answer.contracts : ~WellFormedContract(answer.contracts[i])
         THEN "contracts"
         ELSE IF \/ Len(answer.risks) > MaxRisks
                 \/ ~Distinct(Ids(answer.risks))
                 \/ \E i \in DOMAIN answer.risks : ~WellFormed(ParsedRisks(answer)[i])
         THEN "risks"
         ELSE IF answer.feedback = "long" THEN "repair_feedback" ELSE "none"

Parsed(answer) == [verdict |-> answer.verdict, risks |-> ParsedRisks(answer)]

(* validate_review_evidence(): paths outside the workspace and missing     *)
(* files are not in Lines; an empty file still has a line 1.               *)
Exists(e) ==
  /\ e.path \in DOMAIN Lines
  /\ \A l \in e.line : l <= Lines[e.path] \/ l = 1

EvidenceHolds(outcome) ==
  \A i \in DOMAIN outcome.risks : \A j \in DOMAIN outcome.risks[i].evidence :
    Exists(outcome.risks[i].evidence[j])

(* What SemanticReviewer reports about an answer. *)
AnswerError(answer) ==
  IF ParseError(answer) # "none" THEN ParseError(answer)
  ELSE IF ~EvidenceHolds(Parsed(answer)) THEN "evidence" ELSE "none"

-----------------------------------------------------------------------------
(* ReviewPolicy.decide() and build_review_feedback(), with ids. A cue is   *)
(* a record [id, category]. Ids are pairs: <<"cue", name>> for what the   *)
(* code writes "cue:<name>", <<"risk", name>> for another text. A reviewer *)
(* may give either.                                                        *)

Blockers(outcome) ==
  {outcome.risks[i].id : i \in {k \in DOMAIN outcome.risks : outcome.risks[k].severity = "blocking"}}

(* Mutant: a warning is promoted without evidence. *)
PromotedUnproved(outcome, cues) ==
  {outcome.risks[i].id : i \in
     {k \in DOMAIN outcome.risks :
        /\ outcome.risks[k].severity = "warning"
        /\ outcome.risks[k].category \in {c.category : c \in cues}}}

Promoted(outcome, cues) ==
  {outcome.risks[i].id : i \in
     {k \in DOMAIN outcome.risks :
        /\ outcome.risks[k].severity = "warning"
        /\ outcome.risks[k].category \in {c.category : c \in cues}
        /\ outcome.risks[k].evidence # <<>>
        /\ outcome.risks[k].examples # <<>>}}

(* Mutant: cues promote warnings, but are no reason by themselves. *)
DecisiveRisksOnly(outcome, cues) ==
  IF Blockers(outcome) # {} THEN Blockers(outcome) ELSE Promoted(outcome, cues)

(* The ids a decision rests on: blockers, else promoted warnings, else the *)
(* cues themselves.                                                        *)
DecisiveIds(outcome, cues) ==
  IF Blockers(outcome) # {} THEN Blockers(outcome)
  ELSE IF Promoted(outcome, cues) # {} THEN Promoted(outcome, cues)
  ELSE {c.id : c \in cues}

DecideById(outcome, cues, used, max) ==
  IF DecisiveIds(outcome, cues) # {}
  THEN IF used < max THEN "revise" ELSE "needs_review"
  ELSE IF outcome.verdict # "accept" THEN "needs_review"
  ELSE IF outcome.risks # <<>> THEN "accept_with_warnings" ELSE "accept"

(* The feedback of a revision: the ids it is recorded with, ... *)
SelectedRisks(outcome, ids) ==
  {i \in DOMAIN outcome.risks :
     outcome.risks[i].id \in ids \/ (ids = {} /\ outcome.risks[i].severity = "blocking")}

SelectedCues(cues, ids) == {c \in cues : c.id \in ids}

FeedbackIds(outcome, cues, ids) ==
  {outcome.risks[i].id : i \in SelectedRisks(outcome, ids)}
    \cup {c.id : c \in SelectedCues(cues, ids)}

(* ... and, for any length of the texts, what is left of it when it is cut *)
(* at max_feedback_chars: the risks told in full are the first ones, and   *)
(* cues come after all of them, in the order in which they were found.     *)
FeedbackTexts(outcome, cues, ids) ==
  {[risks |-> {i \in SelectedRisks(outcome, ids) : i <= n}, cues |-> {}] : n \in 0..Len(outcome.risks)}
    \cup {[risks |-> SelectedRisks(outcome, ids), cues |-> c] : c \in SUBSET SelectedCues(cues, ids)}
=============================================================================
