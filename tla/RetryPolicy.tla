---------------------------- MODULE RetryPolicy ----------------------------
(***************************************************************************)
(* repair/retry_policy.py and context/policy.py: which edit backend the    *)
(* next attempt uses, and what happens to the workspace and the prompt     *)
(* context after an attempt whose tests failed. The policy object is the   *)
(* record [mode, patchFails, replacementFails].                            *)
(***************************************************************************)
EXTENDS Naturals

Modes == {"patch", "replacement"}

Policy == [mode : Modes, patchFails : Nat, replacementFails : Nat]

(* How far a backend got with a proposal. "lost" is a replacement whose    *)
(* old text was not found; "touched" is applied_to_workspace.              *)
ApplyResult ==
  {r \in [mode : Modes, stage : {"parse", "check", "apply", "diff", "ok"},
          lost : BOOLEAN, touched : BOOLEAN] :
     /\ r.touched <=> r.stage \in {"diff", "ok"}
     /\ r.lost => r.mode = "replacement" /\ r.stage = "apply"
     /\ r.stage = "parse" => r.mode = "replacement"
     /\ r.stage = "check" => r.mode = "patch"}

InitialPolicy(mode) == [mode |-> mode, patchFails |-> 0, replacementFails |-> 0]

ContinuesAfterModelError(p) == p.mode = "replacement"

AfterPatchCheckFailure(p) ==
  [p EXCEPT !.patchFails = @ + 1,
            !.mode = IF p.patchFails + 1 >= 2 THEN "replacement" ELSE @]

(* The replacement counter survives the switch to patch mode. *)
AfterReplacementApplyFailure(p, lost) ==
  LET fails == p.replacementFails + 1
  IN  IF lost \/ fails >= 2
      THEN [mode |-> "patch", patchFails |-> 0, replacementFails |-> fails]
      ELSE [p EXCEPT !.replacementFails = fails]

AfterApply(p, r) ==
  CASE r.mode = "patch" /\ r.stage = "check" -> AfterPatchCheckFailure(p)
    [] r.mode = "patch" /\ r.touched -> [p EXCEPT !.patchFails = 0]
    [] r.mode = "replacement" /\ r.stage = "apply" -> AfterReplacementApplyFailure(p, r.lost)
    [] r.mode = "replacement" /\ r.touched -> [p EXCEPT !.replacementFails = 0]
    [] OTHER -> p

(* Mutant: only regressions are rolled back. *)
RollsBackRegressions(failure) == failure = "regression"

(* The rollback and expand_context flags of after_test_failure. *)
RollsBack(failure) == failure \in {"regression", "no_progress", "timeout"}

ExpandsContext(failure) == failure \in {"regression", "no_progress"}

(* Mutant: the level is not capped. *)
ExpandUncapped(level, max) == level + 1

Expand(level, max) == IF level < max THEN level + 1 ELSE max
=============================================================================
