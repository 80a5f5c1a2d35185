---------------------------- MODULE ReviewPolicy ----------------------------
(***************************************************************************)
(* review/policy.py: the workflow action that follows a semantic review.   *)
(* A reviewer's outcome is abstracted to its verdict and to the kinds of   *)
(* risk it lists; an outcome that could not be obtained has verdict        *)
(* "none". A risk is "blocking", a "promoted" warning (it has evidence and *)
(* counterexamples and its category matches a structural cue), or another  *)
(* "warning".                                                              *)
(***************************************************************************)
EXTENDS Naturals

RiskKind == {"blocking", "promoted", "warning"}

Outcome ==
  [verdict : {"accept", "revise", "abstain"}, risks : SUBSET RiskKind]
    \cup [verdict : {"none"}, risks : {{}}]

(* A reviewer call together with the deterministic cues of the scanner; a  *)
(* warning is promoted only by the category of a cue that was found.       *)
Review ==
  {r \in [outcome : Outcome, cued : BOOLEAN] : "promoted" \in r.outcome.risks => r.cued}

Actions == {"accept", "accept_with_warnings", "revise", "needs_review"}

Actionable(review) ==
  \/ review.outcome.risks \cap {"blocking", "promoted"} # {}
  \/ review.cued

Decide(review, used, max) ==
  IF review.outcome.verdict = "none" THEN "needs_review"
  ELSE IF Actionable(review) THEN (IF used < max THEN "revise" ELSE "needs_review")
  ELSE IF review.outcome.verdict # "accept" THEN "needs_review"
  ELSE IF review.outcome.risks # {} THEN "accept_with_warnings"
  ELSE "accept"

(* acceptance_status of a candidate that is neither accepted nor revised. *)
RefusalStatus(review) ==
  CASE review.outcome.verdict = "none" -> "review_error"
    [] review.outcome.verdict = "abstain" -> "abstained"
    [] OTHER -> "rejected"
=============================================================================
