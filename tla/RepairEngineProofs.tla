------------------------- MODULE RepairEngineProofs -------------------------
(***************************************************************************)
(* Theorems about RepairEngine for every value of its constants: the type  *)
(* invariant, the candidate and where it lives, what a reader of a result, *)
(* of a prompt or of the temporary directory may rely on, and that every   *)
(* run is one RepairContract allows.                                       *)
(***************************************************************************)
EXTENDS RepairEngineContract, TLAPS

(* An iteration under way is within the budget. *)
WithinBudget ==
  pc \in {"apply_failed", "verify", "retry", "candidate"} => iter < MaxIterations

Typed == TypeOK /\ WithinBudget

(* The answers of a step are those the next step relies on.                *)
RunsAreUsed ==
  /\ pc \in {"prepare", "baseline"} => acceptance = "not_run"
  /\ pc = "candidate" => Passes(wt) /\ after.printed = {}
  /\ pc = "retry" => after.exit # "ok"
  /\ pc = "review" => Passes(head) /\ after.printed = {}

(* While the loop goes on with a candidate, the output in the prompt lists *)
(* no failure. This is what makes CandidateSurvives inductive: compared    *)
(* with it, no failing run can look like partial progress.                 *)
CandidateIsBaseline ==
  pc \in {"loop", "apply_failed", "verify", "retry"}
      /\ (visible \/ acceptance # "not_run")
    => Passes(head) /\ current.printed = {}

(* The transaction stays open until the result has been made, and a result *)
(* with a candidate hands over the diff of the content kept.               *)
DeliversHead ==
  /\ pc \in {"baseline", "loop", "apply_failed", "verify", "retry", "candidate", "review"}
       => open
  /\ pc = "report" /\ acceptance # "not_run" => open
  /\ pc \in {"close", "done"} /\ visible /\ acceptance # "not_run"
       => report.candidate = FinalDiff

(* The inductive invariant of isolated runs. *)
CandidateInv == RunsAreUsed /\ CandidateIsBaseline /\ CandidateSurvives /\ DeliversHead

IInv == Typed /\ (Isolated => CandidateInv)

-----------------------------------------------------------------------------
(* What the operators of the engine's modules return                       *)

(* A reading of the pytest output lists test nodes only. *)
LEMMA RunsTyped ==
  ASSUME NEW c \in Content
  PROVE  Runs(c) \subseteq Run
<1>1. Printed(c) \in SUBSET Node
  BY EvidenceAssumption DEF Printed
<1> QED
  BY <1>1 DEF Runs, Completed, Run, Exits

(* A run that ends with exit code 0 is one on a passing content, and it    *)
(* prints no FAILED line.                                                  *)
LEMMA OkRuns ==
  ASSUME NEW c \in Content, NEW run \in Runs(c), run.exit = "ok"
  PROVE  Passes(c) /\ run.printed = {}
<1>1. run = Completed(c)
  BY DEF Runs
<1> QED
  BY <1>1 DEF Completed, Printed

(* after_apply() keeps the policy object well formed. *)
LEMMA AfterApplyTyped ==
  ASSUME NEW p \in Policy, NEW r \in ApplyResult
  PROVE  AfterApply(p, r) \in Policy
<1>1. AfterPatchCheckFailure(p) \in Policy
  <2>1. p.patchFails + 1 \in Nat /\ p.mode \in Modes /\ "replacement" \in Modes
    BY DEF Policy, Modes
  <2>2. CASE p.patchFails + 1 >= 2
    BY <2>1, <2>2 DEF AfterPatchCheckFailure, Policy
  <2>3. CASE ~(p.patchFails + 1 >= 2)
    BY <2>1, <2>3 DEF AfterPatchCheckFailure, Policy
  <2> QED
    BY <2>2, <2>3
<1>2. AfterReplacementApplyFailure(p, r.lost) \in Policy
  BY DEF AfterReplacementApplyFailure, Policy, Modes
<1>3. [p EXCEPT !.patchFails = 0] \in Policy /\ [p EXCEPT !.replacementFails = 0] \in Policy
  BY DEF Policy
<1> QED
  BY <1>1, <1>2, <1>3 DEF AfterApply

LEMMA InitialPolicyTyped ==
  ASSUME NEW mode \in Modes
  PROVE  InitialPolicy(mode) \in Policy
BY DEF InitialPolicy, Policy

(* The expansion level never leaves its range. *)
LEMMA ExpandTyped ==
  ASSUME NEW max \in Nat, NEW l \in 0..max
  PROVE  Expand(l, max) \in 0..max
BY DEF Expand

(* An attempt that fixed nothing that was listed, and did not pass, is     *)
(* rolled back.                                                            *)
LEMMA NothingListedRollsBack ==
  ASSUME NEW run, run.exit # "ok"
  PROVE  RollsBack(FailureType(run, {}))
BY DEF RollsBack, FailureType, FailureDelta

-----------------------------------------------------------------------------
(* Type correctness                                                        *)

LEMMA InitTyped == Init => Typed
<1> SUFFICES ASSUME Init PROVE Typed
  OBVIOUS
<1> USE EngineAssumption
<1>1. policy \in Policy
  BY InitialPolicyTyped DEF Init
<1>2. edit \in ApplyResult
  BY DEF Init, NoEdit, ApplyResult
<1>3. after \in Run
  BY DEF Init, NoRun, Run, Exits
<1>4. report \in [patch : Content \cup {NoPatch}, candidate : Content \cup {NoPatch}]
  BY DEF Init
<1>5. current \in [on : Content, printed : SUBSET Node]
  BY DEF Init
<1>6. level \in 0..MaxLevel /\ iter \in 0..MaxIterations
  BY DEF Init
<1>7. TypeOK
  BY <1>1, <1>2, <1>3, <1>4, <1>5, <1>6 DEF Init, TypeOK, FlagsOK, ValuesOK, Acceptances
<1>8. WithinBudget
  BY DEF Init, WithinBudget
<1> QED
  BY <1>7, <1>8 DEF Typed

(* The parts of Typed that each action has to keep are small enough for    *)
(* one obligation per action, except where an answer of the environment    *)
(* has to be typed first.                                                  *)
LEMMA NextTyped ==
  ASSUME Typed, [Next]_vars
  PROVE  Typed'
<1> USE EngineAssumption DEF Typed, TypeOK, FlagsOK, ValuesOK, WithinBudget, Acceptances,
        vars, workspaceVars, policyVars, attemptVars, promptVars, outcomeVars, resultVars
<1>1. CASE PrepareFails
  BY <1>1 DEF PrepareFails
<1>2. CASE Prepare
  BY <1>2 DEF Prepare
<1>3. CASE PrepareExpires
  <2>1. FlagsOK'
    BY <1>3 DEF PrepareExpires
  <2>2. ValuesOK' /\ WithinBudget'
    BY <1>3 DEF PrepareExpires
  <2> QED
    BY <2>1, <2>2
<1>4. CASE ModelFails
  <2>1. FlagsOK'
    BY <1>4 DEF ModelFails
  <2>2. iter' \in 0..MaxIterations /\ pc' \in {"loop", "report"}
    BY <1>4 DEF ModelFails
  <2>3. ValuesOK' /\ WithinBudget'
    BY <1>4, <2>2 DEF ModelFails
  <2> QED
    BY <2>1, <2>3
<1>5. CASE IterationLimit
  <2>1. FlagsOK'
    BY <1>5 DEF IterationLimit
  <2>2. ValuesOK' /\ WithinBudget'
    BY <1>5 DEF IterationLimit
  <2> QED
    BY <2>1, <2>2
<1>6. CASE ExportFails
  BY <1>6 DEF ExportFails
<1>7. CASE Close
  <2>1. FlagsOK'
    BY <1>7 DEF Close
  <2>2. ValuesOK' /\ WithinBudget'
    BY <1>7 DEF Close
  <2> QED
    BY <2>1, <2>2
<1>8. CASE CloseFails
  <2>1. FlagsOK'
    BY <1>8 DEF CloseFails
  <2>2. ValuesOK' /\ WithinBudget'
    BY <1>8 DEF CloseFails
  <2> QED
    BY <2>1, <2>2
<1>9. CASE RunBaseline
  <2>1. PICK run \in Runs(wt) :
          /\ current' = [on |-> wt, printed |-> run.printed]
          /\ err' = (run.exit = "infrastructure")
          /\ success' = (run.exit = "ok") /\ visible' = (run.exit = "ok")
          /\ pc' = IF run.exit \in {"ok", "infrastructure"} THEN "report" ELSE "loop"
    BY <1>9 DEF RunBaseline
  <2>2. run.printed \in SUBSET Node
    BY RunsTyped DEF Run
  <2> QED
    BY <1>9, <2>1, <2>2 DEF RunBaseline
<1>10. CASE Attempt
  <2>1. PICK result \in ApplyResult :
          /\ wt' \in Leaves(result)
          /\ edit' = result
          /\ applied' = (applied \/ result.touched)
          /\ pc' = IF result.stage = "ok" THEN "verify" ELSE "apply_failed"
    BY <1>10 DEF Attempt
  <2>2. wt' \in Content
    BY <2>1 DEF Leaves
  <2>3. applied' \in BOOLEAN
    BY <2>1
  <2> QED
    BY <1>10, <2>1, <2>2, <2>3 DEF Attempt
<1>11. CASE HandleApplyFailure
  <2>1. policy' \in Policy
    BY <1>11, AfterApplyTyped DEF HandleApplyFailure
  <2> QED
    BY <1>11, <2>1 DEF HandleApplyFailure, Rollback
<1>12. CASE Verify
  <2>1. policy' \in Policy
    BY <1>12, AfterApplyTyped DEF Verify
  <2>2. after' \in Run
    BY <1>12, RunsTyped DEF Verify
  <2> QED
    BY <1>12, <2>1, <2>2 DEF Verify, Rollback
<1>13. CASE RetryAfterTestFailure
  <2>1. level' \in 0..MaxLevel
    BY <1>13, ExpandTyped DEF RetryAfterTestFailure
  <2>2. current' \in [on : Content, printed : SUBSET Node]
    BY <1>13 DEF RetryAfterTestFailure, Run
  <2>3. wt' \in Content /\ head' \in Content /\ UNCHANGED <<open, onDisk>>
    BY <1>13 DEF RetryAfterTestFailure, Rollback, Checkpoint
  <2> QED
    BY <1>13, <2>1, <2>2, <2>3 DEF RetryAfterTestFailure
<1>14. CASE CheckpointCandidate
  BY <1>14 DEF CheckpointCandidate, Checkpoint
<1>15. CASE ReviewCandidate
  <2>1. reviewed' \in Content \cup {NoPatch}
    BY <1>15 DEF ReviewCandidate, FinalDiff, FinalContent
  <2>2. PICK review \in Review :
          \/ \E action \in {"accept", "accept_with_warnings"} : Accept(action)
          \/ Revise
          \/ Refuse(review)
    BY <1>15 DEF ReviewCandidate
  <2>3. CASE \E action \in {"accept", "accept_with_warnings"} : Accept(action)
    BY <1>15, <2>1, <2>3 DEF ReviewCandidate, Accept
  <2>4. CASE Revise
    <3>1. current' \in [on : Content, printed : SUBSET Node]
      BY <2>4 DEF Revise, Run
    <3>2. FlagsOK'
      BY <1>15, <2>4 DEF ReviewCandidate, Revise
    <3>3. ValuesOK' /\ WithinBudget'
      BY <1>15, <2>1, <2>4, <3>1 DEF ReviewCandidate, Revise
    <3> QED
      BY <3>2, <3>3
  <2>5. CASE Refuse(review)
    BY <1>15, <2>1, <2>5 DEF ReviewCandidate, Refuse, RefusalStatus
  <2> QED
    BY <2>2, <2>3, <2>4, <2>5
<1>16. CASE Report
  <2>1. report' \in [patch : Content \cup {NoPatch}, candidate : Content \cup {NoPatch}]
    BY <1>16 DEF Report, FinalDiff, FinalContent
  <2> QED
    BY <1>16, <2>1 DEF Report
<1>17. CASE CallRaises
  <2>1. FlagsOK'
    BY <1>17 DEF CallRaises, FailedCall
  <2>2. ValuesOK' /\ WithinBudget'
    BY <1>17 DEF CallRaises, FailedCall
  <2> QED
    BY <2>1, <2>2
<1>18. CASE GitExpires
  <2>1. FlagsOK'
    BY <1>18 DEF GitExpires, FailedCall
  <2>2. ValuesOK' /\ WithinBudget'
    BY <1>18 DEF GitExpires, FailedCall
  <2> QED
    BY <2>1, <2>2
<1>19. CASE TestTimeoutRaises
  <2>1. policy' \in Policy
    BY <1>19, AfterApplyTyped DEF TestTimeoutRaises
  <2>2. FlagsOK'
    BY <1>19 DEF TestTimeoutRaises
  <2>3. ValuesOK' /\ WithinBudget'
    BY <1>19, <2>1 DEF TestTimeoutRaises
  <2> QED
    BY <2>2, <2>3
<1>20. CASE UNCHANGED vars
  BY <1>20
<1> QED
  BY <1>1, <1>2, <1>3, <1>4, <1>5, <1>6, <1>7, <1>8, <1>9, <1>10, <1>11, <1>12, <1>13,
     <1>14, <1>15, <1>16, <1>17, <1>18, <1>19, <1>20 DEF Next, Iterate, Terminated

(* Every reachable state of the engine is well typed; in particular the    *)
(* iteration counter stays within max_iterations and the expansion level   *)
(* within its range.                                                       *)
THEOREM TypeCorrect == Spec => []TypeOK
<1>1. Init => Typed
  BY InitTyped
<1>2. Typed /\ [Next]_vars => Typed'
  BY NextTyped
<1>3. Typed => TypeOK
  BY DEF Typed
<1> QED
  BY <1>1, <1>2, <1>3, PTL DEF Spec

-----------------------------------------------------------------------------
(* The candidate of an isolated run                                        *)

LEMMA InitCandidate ==
  ASSUME Init
  PROVE  CandidateInv
BY DEF Init, CandidateInv, RunsAreUsed, CandidateIsBaseline, CandidateSurvives, DeliversHead

(* An attempt that keeps its edit in an iteration that follows a candidate *)
(* does not exist.                                                         *)
LEMMA KeptEditsPrecedeCandidates ==
  ASSUME RunsAreUsed, CandidateIsBaseline, pc = "retry",
         ~RollsBack(FailureType(after, current.printed))
  PROVE  acceptance = "not_run" /\ ~visible
<1>1. after.exit # "ok"
  BY DEF RunsAreUsed
<1>2. current.printed # {}
  BY <1>1, NothingListedRollsBack
<1> QED
  BY <1>2 DEF CandidateIsBaseline

LEMMA NextCandidate ==
  ASSUME Isolated, Typed, CandidateInv, [Next]_vars
  PROVE  CandidateInv'
<1> USE DEF CandidateInv, RunsAreUsed, CandidateIsBaseline, CandidateSurvives, DeliversHead,
        FinalDiff, FinalContent,
        vars, workspaceVars, policyVars, attemptVars, promptVars, outcomeVars, resultVars
<1>1. CASE PrepareFails
  BY <1>1 DEF PrepareFails
<1>2. CASE Prepare
  BY <1>2 DEF Prepare
<1>3. CASE PrepareExpires
  BY <1>3 DEF PrepareExpires
<1>4. CASE RunBaseline
  BY <1>4 DEF RunBaseline
<1>5. CASE ModelFails
  BY <1>5 DEF ModelFails
<1>6. CASE Attempt
  BY <1>6 DEF Attempt
<1>7. CASE HandleApplyFailure
  BY <1>7 DEF HandleApplyFailure, Rollback
<1>8. CASE Verify
  <2>1. PICK run \in Runs(wt) :
          /\ after' = run
          /\ IF run.exit = "infrastructure"
             THEN pc' = "report"
             ELSE wt' = wt /\ pc' = IF run.exit = "ok" THEN "candidate" ELSE "retry"
    BY <1>8 DEF Verify
  <2>2. run.exit = "ok" => Passes(wt) /\ run.printed = {}
    BY OkRuns DEF Typed, TypeOK, ValuesOK
  <2>3. UNCHANGED <<head, open, current, visible, acceptance>>
    BY <1>8 DEF Verify, Rollback
  <2> QED
    BY <1>8, <2>1, <2>2, <2>3 DEF Verify
<1>9. CASE RetryAfterTestFailure
  <2>1. CASE RollsBack(FailureType(after, current.printed))
    BY <1>9, <2>1 DEF RetryAfterTestFailure, Rollback
  <2>2. CASE ~RollsBack(FailureType(after, current.printed))
    BY <1>9, <2>2, KeptEditsPrecedeCandidates DEF RetryAfterTestFailure, Checkpoint
  <2> QED
    BY <2>1, <2>2
<1>10. CASE CheckpointCandidate
  BY <1>10 DEF CheckpointCandidate, Checkpoint
<1>11. CASE ReviewCandidate
  <2>1. PICK review \in Review :
          \/ \E action \in {"accept", "accept_with_warnings"} : Accept(action)
          \/ Revise
          \/ Refuse(review)
    BY <1>11 DEF ReviewCandidate
  <2>2. CASE Revise
    BY <1>11, <2>2 DEF ReviewCandidate, Revise
  <2>3. CASE ~Revise
    BY <1>11, <2>1, <2>3 DEF ReviewCandidate, Accept, Refuse
  <2> QED
    BY <2>2, <2>3
<1>12. CASE IterationLimit
  BY <1>12 DEF IterationLimit
<1>13. CASE Report
  BY <1>13 DEF Report
<1>14. CASE ExportFails
  BY <1>14 DEF ExportFails
<1>15. CASE Close
  BY <1>15 DEF Close
<1>16. CASE CloseFails
  BY <1>16 DEF CloseFails
<1>17. CASE CallRaises
  <2>1. CASE Committing
    BY <1>17, <2>1, KeptEditsPrecedeCandidates DEF CallRaises, FailedCall, Committing
  <2>2. CASE ~Committing
    BY <1>17, <2>2 DEF CallRaises, FailedCall, RollingBack
  <2> QED
    BY <2>1, <2>2
<1>18. CASE GitExpires
  <2>1. CASE Committing
    BY <1>18, <2>1, KeptEditsPrecedeCandidates DEF GitExpires, FailedCall, Committing
  <2>2. CASE ~Committing
    BY <1>18, <2>2 DEF GitExpires, FailedCall, RollingBack
  <2> QED
    BY <2>1, <2>2
<1>19. CASE TestTimeoutRaises
  BY <1>19 DEF TestTimeoutRaises
<1>20. CASE UNCHANGED vars
  BY <1>20
<1> QED
  BY <1>1, <1>2, <1>3, <1>4, <1>5, <1>6, <1>7, <1>8, <1>9, <1>10, <1>11, <1>12, <1>13,
     <1>14, <1>15, <1>16, <1>17, <1>18, <1>19, <1>20 DEF Next, Iterate, Terminated

LEMMA Invariance == Spec => []IInv
<1>1. Init => IInv
  BY InitTyped, InitCandidate DEF IInv
<1>2. IInv /\ [Next]_vars => IInv'
  <2> SUFFICES ASSUME IInv, [Next]_vars PROVE IInv'
    OBVIOUS
  <2>1. Typed'
    BY NextTyped DEF IInv
  <2>2. Isolated => CandidateInv'
    BY NextCandidate DEF IInv
  <2> QED
    BY <2>1, <2>2 DEF IInv
<1> QED
  BY <1>1, <1>2, PTL DEF Spec

(* In every isolated run, once a candidate has been checkpointed (an       *)
(* acceptance status is set), HEAD of the worktree passes the visible      *)
(* tests for ever, whatever the model, the reviewer and git do.            *)
THEOREM CandidateKept == Spec => []CandidateSurvives
<1>1. IInv => CandidateSurvives
  BY DEF IInv, CandidateInv, CandidateSurvives
<1> QED
  BY <1>1, Invariance, PTL

(* Applying the diff of a content to the starting revision gives it back.  *)
LEMMA PatchedFinalDiff ==
  ASSUME Typed
  PROVE  Patched(FinalDiff) = FinalContent
BY EngineAssumption DEF Patched, FinalDiff, FinalContent, Typed, TypeOK, ValuesOK

(* In every isolated run, a result with status needs_review (exit code 2)  *)
(* hands over a candidate patch whose content passes the visible tests.    *)
THEOREM ReviewedCandidatePasses ==
  ASSUME Isolated
  PROVE  Spec => []NeedsReviewHasCandidate
<1>1. IInv => NeedsReviewHasCandidate
  <2> SUFFICES ASSUME IInv, pc = "done", Status = "needs_review"
               PROVE  Passes(Patched(report.candidate))
    BY DEF NeedsReviewHasCandidate
  <2>1. visible /\ acceptance # "not_run"
    BY DEF Status
  <2>2. report.candidate = FinalDiff
    BY <2>1 DEF IInv, CandidateInv, DeliversHead
  <2>3. Passes(head)
    BY <2>1 DEF IInv, CandidateInv, CandidateSurvives
  <2> QED
    BY <2>2, <2>3, PatchedFinalDiff DEF IInv, FinalContent
<1> QED
  BY <1>1, Invariance, PTL

-----------------------------------------------------------------------------
(* Success, with or without isolation and review                           *)

(* success is false until a test run passes, and then goes with no error.  *)
SuccessFollowsPass ==
  /\ pc \in {"prepare", "baseline", "loop", "apply_failed", "verify", "retry"} => ~success
  /\ success => ~err
  /\ pc \in {"prepare", "baseline"} => wt = head /\ iter = 0
  /\ pc = "candidate" => Passes(wt)
  /\ pc = "review" => visible /\ Passes(FinalContent)

(* What a successful run holds when it leaves the loop. *)
Earned ==
  /\ visible
  /\ Passes(FinalContent)
  /\ ReviewEnabled /\ iter > 0 =>
       acceptance \in {"accepted", "accepted_with_warnings"} /\ reviewed = FinalDiff

EarnedUntilDone ==
  /\ pc \in {"baseline", "loop", "apply_failed", "verify", "retry", "candidate", "review"}
       => open
  /\ pc = "done" => ~raising
  /\ pc \in {"report", "close", "done"} /\ success /\ ~raising => Earned
  /\ pc = "report" /\ success /\ ~raising => open
  /\ pc \in {"close", "done"} /\ success /\ ~raising => report.candidate = FinalDiff

SuccessInv == SuccessFollowsPass /\ EarnedUntilDone

LEMMA InitSuccess ==
  ASSUME Init
  PROVE  SuccessInv
BY DEF Init, SuccessInv, SuccessFollowsPass, EarnedUntilDone

LEMMA NextSuccess ==
  ASSUME Typed, SuccessInv, [Next]_vars
  PROVE  SuccessInv'
<1> USE EngineAssumption DEF Typed, TypeOK, FlagsOK, SuccessInv, SuccessFollowsPass,
        EarnedUntilDone, Earned, FinalDiff, FinalContent,
        vars, workspaceVars, policyVars, attemptVars, promptVars, outcomeVars, resultVars
<1>1. CASE PrepareFails
  BY <1>1 DEF PrepareFails
<1>2. CASE Prepare
  BY <1>2 DEF Prepare
<1>3. CASE PrepareExpires
  BY <1>3 DEF PrepareExpires
<1>4. CASE RunBaseline
  <2>1. PICK run \in Runs(wt) :
          /\ err' = (run.exit = "infrastructure")
          /\ success' = (run.exit = "ok") /\ visible' = (run.exit = "ok")
          /\ pc' = IF run.exit \in {"ok", "infrastructure"} THEN "report" ELSE "loop"
    BY <1>4 DEF RunBaseline
  <2>2. run.exit = "ok" => Passes(wt)
    BY OkRuns DEF ValuesOK
  <2> QED
    BY <1>4, <2>1, <2>2 DEF RunBaseline
<1>5. CASE ModelFails
  BY <1>5 DEF ModelFails
<1>6. CASE Attempt
  BY <1>6 DEF Attempt
<1>7. CASE HandleApplyFailure
  BY <1>7 DEF HandleApplyFailure, Rollback
<1>8. CASE Verify
  <2>1. PICK run \in Runs(wt) :
          /\ success' = (run.exit = "ok") /\ err' = (run.exit # "ok")
          /\ IF run.exit = "infrastructure"
             THEN pc' = "report"
             ELSE wt' = wt /\ pc' = IF run.exit = "ok" THEN "candidate" ELSE "retry"
    BY <1>8 DEF Verify
  <2>2. run.exit = "ok" => Passes(wt)
    BY OkRuns DEF ValuesOK
  <2>3. UNCHANGED <<head, open>>
    BY <1>8 DEF Verify, Rollback
  <2> QED
    BY <1>8, <2>1, <2>2, <2>3 DEF Verify
<1>9. CASE RetryAfterTestFailure
  BY <1>9 DEF RetryAfterTestFailure, Rollback, Checkpoint
<1>10. CASE CheckpointCandidate
  BY <1>10 DEF CheckpointCandidate, Checkpoint
<1>11. CASE ReviewCandidate
  <2>1. PICK review \in Review :
          \/ \E action \in {"accept", "accept_with_warnings"} : Accept(action)
          \/ Revise
          \/ Refuse(review)
    BY <1>11 DEF ReviewCandidate
  <2>2. CASE \E action \in {"accept", "accept_with_warnings"} : Accept(action)
    BY <1>11, <2>2 DEF ReviewCandidate, Accept
  <2>3. CASE Revise
    BY <1>11, <2>3 DEF ReviewCandidate, Revise
  <2>4. CASE Refuse(review)
    BY <1>11, <2>4 DEF ReviewCandidate, Refuse
  <2> QED
    BY <2>1, <2>2, <2>3, <2>4
<1>12. CASE IterationLimit
  BY <1>12 DEF IterationLimit
<1>13. CASE Report
  BY <1>13 DEF Report
<1>14. CASE ExportFails
  BY <1>14 DEF ExportFails
<1>15. CASE Close
  BY <1>15 DEF Close
<1>16. CASE CloseFails
  BY <1>16 DEF CloseFails
<1>17. CASE CallRaises
  BY <1>17 DEF CallRaises, FailedCall
<1>18. CASE GitExpires
  BY <1>18 DEF GitExpires, FailedCall, Committing, RollingBack
<1>19. CASE TestTimeoutRaises
  BY <1>19 DEF TestTimeoutRaises
<1>20. CASE UNCHANGED vars
  BY <1>20
<1> QED
  BY <1>1, <1>2, <1>3, <1>4, <1>5, <1>6, <1>7, <1>8, <1>9, <1>10, <1>11, <1>12, <1>13,
     <1>14, <1>15, <1>16, <1>17, <1>18, <1>19, <1>20 DEF Next, Iterate, Terminated

(* A run that reports success hands over a patch whose content passes, and *)
(* with review enabled it is the diff the reviewer accepted; isolated or   *)
(* not, whatever fails on the way.                                         *)
THEOREM SuccessEarned == Spec => []SuccessIsEarned
<1>1. Init => Typed /\ SuccessInv
  BY InitTyped, InitSuccess
<1>2. (Typed /\ SuccessInv) /\ [Next]_vars => (Typed /\ SuccessInv)'
  BY NextTyped, NextSuccess
<1>3. Typed /\ SuccessInv => SuccessIsEarned
  <2> SUFFICES ASSUME Typed, SuccessInv, pc = "done", success
               PROVE  /\ ~err /\ visible
                      /\ Passes(Patched(report.candidate))
                      /\ ReviewEnabled /\ iter > 0 =>
                           /\ acceptance \in {"accepted", "accepted_with_warnings"}
                           /\ report.candidate = reviewed
    BY DEF SuccessIsEarned
  <2>1. Earned /\ ~err /\ report.candidate = FinalDiff
    BY DEF SuccessInv, SuccessFollowsPass, EarnedUntilDone
  <2> QED
    BY <2>1, PatchedFinalDiff DEF Earned
<1> QED
  BY <1>1, <1>2, <1>3, PTL DEF Spec

-----------------------------------------------------------------------------
(* No silent failure                                                       *)

Refused == visible /\ acceptance \in {"rejected", "abstained", "review_error"}

(* A run leaves the loop with a reason; a candidate is under way only      *)
(* after a run that passed.                                                *)
Explained ==
  /\ pc \in {"report", "close", "done"} /\ ~success /\ ~raising => err \/ Refused
  /\ pc = "candidate" => success
  /\ pc = "review" => visible
  /\ pc = "done" => ~raising

LEMMA NextExplained ==
  ASSUME Typed, Explained, [Next]_vars
  PROVE  Explained'
<1> USE DEF Explained, Refused, Typed, TypeOK, FlagsOK,
        vars, workspaceVars, policyVars, attemptVars, promptVars, outcomeVars, resultVars
<1>1. CASE PrepareFails
  BY <1>1 DEF PrepareFails
<1>2. CASE Prepare
  BY <1>2 DEF Prepare
<1>3. CASE PrepareExpires
  BY <1>3 DEF PrepareExpires
<1>4. CASE RunBaseline
  <2>1. PICK run \in Runs(wt) :
          /\ err' = (run.exit = "infrastructure")
          /\ success' = (run.exit = "ok")
          /\ pc' = IF run.exit \in {"ok", "infrastructure"} THEN "report" ELSE "loop"
    BY <1>4 DEF RunBaseline
  <2> QED
    BY <1>4, <2>1 DEF RunBaseline
<1>5. CASE ModelFails
  BY <1>5 DEF ModelFails
<1>6. CASE Attempt
  BY <1>6 DEF Attempt
<1>7. CASE HandleApplyFailure
  BY <1>7 DEF HandleApplyFailure, Rollback
<1>8. CASE Verify
  BY <1>8 DEF Verify, Rollback
<1>9. CASE RetryAfterTestFailure
  BY <1>9 DEF RetryAfterTestFailure, Rollback, Checkpoint
<1>10. CASE CheckpointCandidate
  BY <1>10 DEF CheckpointCandidate, Checkpoint
<1>11. CASE ReviewCandidate
  <2>1. PICK review \in Review :
          \/ \E action \in {"accept", "accept_with_warnings"} : Accept(action)
          \/ ReviewAction(review) = "revise" /\ Revise
          \/ Refuse(review)
    BY <1>11 DEF ReviewCandidate
  <2>2. CASE \E action \in {"accept", "accept_with_warnings"} : Accept(action)
    BY <1>11, <2>2 DEF ReviewCandidate, Accept
  <2>3. CASE ReviewAction(review) = "revise" /\ Revise
    BY <1>11, <2>3 DEF ReviewCandidate, Revise
  <2>4. CASE Refuse(review)
    BY <1>11, <2>4 DEF ReviewCandidate, Refuse, RefusalStatus
  <2> QED
    BY <2>1, <2>2, <2>3, <2>4
<1>12. CASE IterationLimit
  BY <1>12 DEF IterationLimit
<1>13. CASE Report
  BY <1>13 DEF Report
<1>14. CASE ExportFails
  BY <1>14 DEF ExportFails
<1>15. CASE Close
  BY <1>15 DEF Close
<1>16. CASE CloseFails
  BY <1>16 DEF CloseFails
<1>17. CASE CallRaises
  BY <1>17 DEF CallRaises, FailedCall
<1>18. CASE GitExpires
  BY <1>18 DEF GitExpires, FailedCall, Committing, RollingBack
<1>19. CASE TestTimeoutRaises
  BY <1>19 DEF TestTimeoutRaises
<1>20. CASE UNCHANGED vars
  BY <1>20
<1> QED
  BY <1>1, <1>2, <1>3, <1>4, <1>5, <1>6, <1>7, <1>8, <1>9, <1>10, <1>11, <1>12, <1>13,
     <1>14, <1>15, <1>16, <1>17, <1>18, <1>19, <1>20 DEF Next, Iterate, Terminated

(* A run that returns without success has an error to show, or a passing   *)
(* candidate that the reviewer or the iteration limit refused; isolated or *)
(* not, with or without review.                                            *)
THEOREM FailureExplained == Spec => []FailureIsExplained
<1>1. Init => Typed /\ Explained
  BY InitTyped DEF Init, Explained
<1>2. (Typed /\ Explained) /\ [Next]_vars => (Typed /\ Explained)'
  BY NextTyped, NextExplained
<1>3. Typed /\ Explained => FailureIsExplained
  BY DEF Explained, Refused, FailureIsExplained
<1> QED
  BY <1>1, <1>2, <1>3, PTL DEF Spec

-----------------------------------------------------------------------------
(* Exported patches                                                        *)

(* Until an edit is reported as applied, nothing can be committed.         *)
NothingApplied ==
  /\ pc \in {"verify", "retry", "candidate", "review"} => applied
  /\ ~applied => head = Original
  /\ ExportImpliesApplied
  /\ pc = "apply_failed" /\ edit.touched => applied

LEMMA NextApplied ==
  ASSUME Isolated, Typed, NothingApplied, [Next]_vars
  PROVE  NothingApplied'
<1> USE DEF NothingApplied, ExportImpliesApplied, Typed, TypeOK, FlagsOK, FinalDiff, FinalContent,
        vars, workspaceVars, policyVars, attemptVars, promptVars, outcomeVars, resultVars
<1>1. CASE PrepareFails
  BY <1>1 DEF PrepareFails
<1>2. CASE Prepare
  BY <1>2 DEF Prepare
<1>3. CASE PrepareExpires
  BY <1>3 DEF PrepareExpires
<1>4. CASE RunBaseline
  BY <1>4 DEF RunBaseline
<1>5. CASE ModelFails
  BY <1>5 DEF ModelFails
<1>6. CASE Attempt
  <2>1. PICK result \in ApplyResult :
          /\ edit' = result
          /\ applied' = (applied \/ result.touched)
          /\ pc' = IF result.stage = "ok" THEN "verify" ELSE "apply_failed"
    BY <1>6 DEF Attempt
  <2>2. result.stage = "ok" => result.touched
    BY DEF ApplyResult
  <2> QED
    BY <1>6, <2>1, <2>2 DEF Attempt
<1>7. CASE HandleApplyFailure
  BY <1>7 DEF HandleApplyFailure, Rollback
<1>8. CASE Verify
  BY <1>8 DEF Verify, Rollback
<1>9. CASE RetryAfterTestFailure
  BY <1>9 DEF RetryAfterTestFailure, Rollback, Checkpoint
<1>10. CASE CheckpointCandidate
  BY <1>10 DEF CheckpointCandidate, Checkpoint
<1>11. CASE ReviewCandidate
  <2>1. PICK review \in Review :
          \/ \E action \in {"accept", "accept_with_warnings"} : Accept(action)
          \/ ReviewAction(review) = "revise" /\ Revise
          \/ Refuse(review)
    BY <1>11 DEF ReviewCandidate
  <2>2. CASE \E action \in {"accept", "accept_with_warnings"} : Accept(action)
    BY <1>11, <2>2 DEF ReviewCandidate, Accept
  <2>3. CASE ReviewAction(review) = "revise" /\ Revise
    BY <1>11, <2>3 DEF ReviewCandidate, Revise
  <2>4. CASE Refuse(review)
    BY <1>11, <2>4 DEF ReviewCandidate, Refuse
  <2> QED
    BY <2>1, <2>2, <2>3, <2>4
<1>12. CASE IterationLimit
  BY <1>12 DEF IterationLimit
<1>13. CASE Report
  BY <1>13 DEF Report
<1>14. CASE ExportFails
  BY <1>14 DEF ExportFails
<1>15. CASE Close
  BY <1>15 DEF Close
<1>16. CASE CloseFails
  BY <1>16 DEF CloseFails
<1>17. CASE CallRaises
  BY <1>17 DEF CallRaises, FailedCall, Committing, RollingBack
<1>18. CASE GitExpires
  BY <1>18 DEF GitExpires, FailedCall, Committing, RollingBack
<1>19. CASE TestTimeoutRaises
  BY <1>19 DEF TestTimeoutRaises
<1>20. CASE UNCHANGED vars
  BY <1>20
<1> QED
  BY <1>1, <1>2, <1>3, <1>4, <1>5, <1>6, <1>7, <1>8, <1>9, <1>10, <1>11, <1>12, <1>13,
     <1>14, <1>15, <1>16, <1>17, <1>18, <1>19, <1>20 DEF Next, Iterate, Terminated

(* In an isolated run a patch is exported only if some edit was reported   *)
(* as applied, even if edits failed half-way. In place this does not hold: *)
(* what a failed edit wrote stays and is part of the diff.                 *)
THEOREM ExportApplied ==
  ASSUME Isolated
  PROVE  Spec => []ExportImpliesApplied
<1>1. Init => Typed /\ NothingApplied
  BY InitTyped DEF Init, NothingApplied, ExportImpliesApplied
<1>2. (Typed /\ NothingApplied) /\ [Next]_vars => (Typed /\ NothingApplied)'
  BY NextTyped, NextApplied
<1>3. NothingApplied => ExportImpliesApplied
  BY DEF NothingApplied
<1> QED
  BY <1>1, <1>2, <1>3, PTL DEF Spec

-----------------------------------------------------------------------------
(* Revisions                                                               *)

Actable == RevisionsAreActedOn /\ (pc \in {"prepare", "baseline"} => feedback = {})

LEMMA NextActable ==
  ASSUME Typed, Actable, [Next]_vars
  PROVE  Actable'
<1> USE EngineAssumption DEF Actable, RevisionsAreActedOn, Typed, TypeOK, ValuesOK,
        vars, workspaceVars, policyVars, attemptVars, promptVars, outcomeVars, resultVars
<1>1. CASE PrepareFails
  BY <1>1 DEF PrepareFails
<1>2. CASE Prepare
  BY <1>2 DEF Prepare
<1>3. CASE PrepareExpires
  BY <1>3 DEF PrepareExpires
<1>4. CASE RunBaseline
  BY <1>4 DEF RunBaseline
<1>5. CASE ModelFails
  BY <1>5 DEF ModelFails
<1>6. CASE Attempt
  BY <1>6 DEF Attempt
<1>7. CASE HandleApplyFailure
  BY <1>7 DEF HandleApplyFailure, Rollback
<1>8. CASE Verify
  BY <1>8 DEF Verify, Rollback
<1>9. CASE RetryAfterTestFailure
  BY <1>9 DEF RetryAfterTestFailure, Rollback, Checkpoint
<1>10. CASE CheckpointCandidate
  BY <1>10 DEF CheckpointCandidate, Checkpoint
<1>11. CASE ReviewCandidate
  <2>1. PICK review \in Review :
          \/ \E action \in {"accept", "accept_with_warnings"} : Accept(action)
          \/ ReviewAction(review) = "revise" /\ Revise
          \/ Refuse(review)
    BY <1>11 DEF ReviewCandidate
  <2>2. CASE \E action \in {"accept", "accept_with_warnings"} : Accept(action)
    BY <1>11, <2>2 DEF ReviewCandidate, Accept
  <2>3. CASE ReviewAction(review) = "revise" /\ Revise
    BY <1>11, <2>3 DEF ReviewCandidate, Revise, ReviewAction
  <2>4. CASE Refuse(review)
    BY <1>11, <2>4 DEF ReviewCandidate, Refuse
  <2> QED
    BY <2>1, <2>2, <2>3, <2>4
<1>12. CASE IterationLimit
  BY <1>12 DEF IterationLimit
<1>13. CASE Report
  BY <1>13 DEF Report
<1>14. CASE ExportFails
  BY <1>14 DEF ExportFails
<1>15. CASE Close
  BY <1>15 DEF Close
<1>16. CASE CloseFails
  BY <1>16 DEF CloseFails
<1>17. CASE CallRaises
  BY <1>17 DEF CallRaises, FailedCall
<1>18. CASE GitExpires
  BY <1>18 DEF GitExpires, FailedCall, Committing, RollingBack
<1>19. CASE TestTimeoutRaises
  BY <1>19 DEF TestTimeoutRaises
<1>20. CASE UNCHANGED vars
  BY <1>20
<1> QED
  BY <1>1, <1>2, <1>3, <1>4, <1>5, <1>6, <1>7, <1>8, <1>9, <1>10, <1>11, <1>12, <1>13,
     <1>14, <1>15, <1>16, <1>17, <1>18, <1>19, <1>20 DEF Next, Iterate, Terminated

(* The reviewer's feedback always reaches a prompt: no run ends at the     *)
(* iteration limit with a revision that was requested and never tried.     *)
THEOREM RevisionsActedOn == Spec => []RevisionsAreActedOn
<1>1. Init => Typed /\ Actable
  BY InitTyped DEF Init, Actable, RevisionsAreActedOn
<1>2. (Typed /\ Actable) /\ [Next]_vars => (Typed /\ Actable)'
  BY NextTyped, NextActable
<1>3. Actable => RevisionsAreActedOn
  BY DEF Actable
<1> QED
  BY <1>1, <1>2, <1>3, PTL DEF Spec

-----------------------------------------------------------------------------
(* Prompts                                                                 *)

(* A completed or interrupted run prints the failures of its content, or   *)
(* nothing.                                                                *)
LEMMA RunsPrint ==
  ASSUME NEW c \in Content, NEW run \in Runs(c)
  PROVE  run.printed \in {{}, Printed(c)}
BY DEF Runs, Completed

(* Between an edit and its roll back or checkpoint the workspace differs   *)
(* from HEAD, after a partial edit for longer; the output in the prompt is *)
(* that of HEAD all the time.                                              *)
PromptInv ==
  /\ pc \in {"prepare", "baseline", "review"} => wt = head
  /\ "partial_write" \notin Faults =>
       /\ pc = "loop" => wt = head
       /\ pc = "apply_failed" => edit.touched \/ wt = head
  /\ pc \in {"loop", "apply_failed", "verify", "retry"} =>
       current.on = head /\ current.printed \in {{}, Printed(head)}
  /\ pc \in {"retry", "candidate", "review"} => after \in Runs(wt)
  /\ pc = "retry" => after.exit \in {"failed", "timeout"}

LEMMA NextPrompt ==
  ASSUME Isolated, Typed, PromptInv, [Next]_vars
  PROVE  PromptInv'
<1> USE DEF PromptInv, Typed, TypeOK, ValuesOK,
        vars, workspaceVars, policyVars, attemptVars, promptVars, outcomeVars, resultVars
<1>1. CASE PrepareFails
  BY <1>1 DEF PrepareFails
<1>2. CASE Prepare
  BY <1>2 DEF Prepare
<1>3. CASE PrepareExpires
  BY <1>3 DEF PrepareExpires
<1>4. CASE RunBaseline
  <2>1. PICK run \in Runs(wt) :
          /\ current' = [on |-> wt, printed |-> run.printed]
          /\ pc' = IF run.exit \in {"ok", "infrastructure"} THEN "report" ELSE "loop"
    BY <1>4 DEF RunBaseline
  <2>2. run.printed \in {{}, Printed(wt)}
    BY RunsPrint
  <2> QED
    BY <1>4, <2>1, <2>2 DEF RunBaseline
<1>5. CASE ModelFails
  BY <1>5 DEF ModelFails
<1>6. CASE Attempt
  <2>1. PICK result \in ApplyResult :
          /\ wt' \in Leaves(result) /\ edit' = result
          /\ pc' = IF result.stage = "ok" THEN "verify" ELSE "apply_failed"
    BY <1>6 DEF Attempt
  <2>2. "partial_write" \notin Faults => result.touched \/ wt' = wt
    BY <2>1 DEF Leaves
  <2> QED
    BY <1>6, <2>1, <2>2 DEF Attempt
<1>7. CASE HandleApplyFailure
  BY <1>7 DEF HandleApplyFailure, Rollback
<1>8. CASE Verify
  <2>1. PICK run \in Runs(wt) :
          /\ after' = run
          /\ IF run.exit = "infrastructure"
             THEN pc' = "report"
             ELSE wt' = wt /\ pc' = IF run.exit = "ok" THEN "candidate" ELSE "retry"
    BY <1>8 DEF Verify
  <2>2. run.exit \in Exits
    BY RunsTyped DEF Run
  <2>3. UNCHANGED <<head, current, edit>>
    BY <1>8 DEF Verify, Rollback
  <2> QED
    BY <1>8, <2>1, <2>2, <2>3 DEF Verify, Exits
<1>9. CASE RetryAfterTestFailure
  <2>1. after.printed \in {{}, Printed(wt)}
    BY <1>9, RunsPrint DEF RetryAfterTestFailure
  <2>2. CASE RollsBack(FailureType(after, current.printed))
    BY <1>9, <2>2 DEF RetryAfterTestFailure, Rollback
  <2>3. CASE ~RollsBack(FailureType(after, current.printed))
    BY <1>9, <2>1, <2>3 DEF RetryAfterTestFailure, Checkpoint
  <2> QED
    BY <2>2, <2>3
<1>10. CASE CheckpointCandidate
  BY <1>10 DEF CheckpointCandidate, Checkpoint
<1>11. CASE ReviewCandidate
  <2>1. PICK review \in Review :
          \/ \E action \in {"accept", "accept_with_warnings"} : Accept(action)
          \/ ReviewAction(review) = "revise" /\ Revise
          \/ Refuse(review)
    BY <1>11 DEF ReviewCandidate
  <2>2. CASE \E action \in {"accept", "accept_with_warnings"} : Accept(action)
    BY <1>11, <2>2 DEF ReviewCandidate, Accept
  <2>3. CASE ReviewAction(review) = "revise" /\ Revise
    <3>1. after.printed \in {{}, Printed(wt)}
      BY <1>11, RunsPrint DEF ReviewCandidate
    <3> QED
      BY <1>11, <2>3, <3>1 DEF ReviewCandidate, Revise
  <2>4. CASE Refuse(review)
    BY <1>11, <2>4 DEF ReviewCandidate, Refuse
  <2> QED
    BY <2>1, <2>2, <2>3, <2>4
<1>12. CASE IterationLimit
  BY <1>12 DEF IterationLimit
<1>13. CASE Report
  BY <1>13 DEF Report
<1>14. CASE ExportFails
  BY <1>14 DEF ExportFails
<1>15. CASE Close
  BY <1>15 DEF Close
<1>16. CASE CloseFails
  BY <1>16 DEF CloseFails
<1>17. CASE CallRaises
  BY <1>17 DEF CallRaises, FailedCall
<1>18. CASE GitExpires
  BY <1>18 DEF GitExpires, FailedCall, Committing, RollingBack
<1>19. CASE TestTimeoutRaises
  BY <1>19 DEF TestTimeoutRaises
<1>20. CASE UNCHANGED vars
  BY <1>20
<1> QED
  BY <1>1, <1>2, <1>3, <1>4, <1>5, <1>6, <1>7, <1>8, <1>9, <1>10, <1>11, <1>12, <1>13,
     <1>14, <1>15, <1>16, <1>17, <1>18, <1>19, <1>20 DEF Next, Iterate, Terminated

(* In isolated runs whose edits are all or nothing, every prompt is built  *)
(* from the content of the last checkpoint, with the output of a test run  *)
(* on that very content.                                                   *)
THEOREM PromptsMatch ==
  ASSUME Isolated, "partial_write" \notin Faults
  PROVE  Spec => []PromptMatchesWorkspace
<1>1. Init => Typed /\ PromptInv
  BY InitTyped DEF Init, PromptInv
<1>2. (Typed /\ PromptInv) /\ [Next]_vars => (Typed /\ PromptInv)'
  BY NextTyped, NextPrompt
<1>3. PromptInv => PromptMatchesWorkspace
  BY DEF PromptInv, PromptMatchesWorkspace
<1> QED
  BY <1>1, <1>2, <1>3, PTL DEF Spec

-----------------------------------------------------------------------------
(* Progress                                                                *)

(* With one command, the FAILED lines of a content that can be collected   *)
(* are the tests that do not pass on it.                                   *)
LEMMA OneCommandPrintsAll ==
  ASSUME Len(Commands) = 1, NEW c \in Content, Collects[c]
  PROVE  Printed(c) = NotPassing(c)
<1>1. DOMAIN Commands = {1}
  BY EvidenceAssumption
<1>2. NotPassing(c) = Commands[1] \cap Fails[c]
  BY <1>1 DEF NotPassing
<1>3. CASE Passes(c)
  <2>1. Printed(c) = {}
    BY <1>3 DEF Printed
  <2>2. Commands[1] \cap Fails[c] = {}
    BY <1>1, <1>3 DEF Passes, CommandFails
  <2> QED
    BY <1>2, <2>1, <2>2
<1>4. CASE ~Passes(c)
  <2>1. CommandFails(c, 1) /\ \A j \in 1..(1 - 1) : ~CommandFails(c, j)
    BY <1>1, <1>4 DEF Passes
  <2>2. FirstFailing(c) \in DOMAIN Commands
    BY <1>1, <2>1 DEF FirstFailing
  <2>3. Printed(c) = Commands[1] \cap Fails[c]
    BY <1>1, <1>4, <2>2 DEF Printed
  <2> QED
    BY <1>2, <2>3
<1> QED
  BY <1>3, <1>4

(* An attempt that is kept although its tests failed fixed some and broke  *)
(* none, compared with the content whose output the prompt showed.         *)
LEMMA KeptIsProgress ==
  ASSUME Len(Commands) = 1, NEW c \in Content, NEW h \in Content, Collects[c], Collects[h],
         NEW run \in Runs(c), run.exit \in {"failed", "timeout"},
         NEW before \in {{}, Printed(h)}, ~RollsBack(FailureType(run, before))
  PROVE  NotPassing(c) \subseteq NotPassing(h) /\ NotPassing(c) # NotPassing(h)
<1>1. run.exit = "failed"
  BY DEF RollsBack, FailureType
<1>2. run = Completed(c)
  BY <1>1 DEF Runs
<1>3. run.printed = NotPassing(c)
  BY <1>2, OneCommandPrintsAll DEF Completed
<1>4. run.printed \ before = {} /\ before \ run.printed # {}
  BY <1>1 DEF RollsBack, FailureType, FailureDelta
<1>5. before = NotPassing(h)
  BY <1>4, OneCommandPrintsAll
<1> QED
  BY <1>3, <1>4, <1>5

(* With one test command and contents whose tests can be collected, every  *)
(* checkpoint of an isolated run fixes a test and breaks none, or passes,  *)
(* also after partial edits and around git commands that fail or expire.   *)
THEOREM ProgressIsMade ==
  ASSUME Isolated, Len(Commands) = 1, \A c \in Content : Collects[c]
  PROVE  Spec => CheckpointsMakeProgress
<1> DEFINE Progress == head' # head => \/ NotPassing(head') \subseteq NotPassing(head)
                                          /\ NotPassing(head') # NotPassing(head)
                                       \/ Passes(head')
<1>1. Init => PromptInv
  BY DEF Init, PromptInv
<1>2. ASSUME IInv, PromptInv, [Next]_vars PROVE PromptInv'
  BY <1>2, NextPrompt DEF IInv
<1>3. ASSUME IInv, PromptInv, [Next]_vars PROVE [Progress]_head
  <2> SUFFICES ASSUME head' # head PROVE Progress
    OBVIOUS
  <2>1. wt \in Content /\ head \in Content
    BY <1>3 DEF IInv, Typed, TypeOK, ValuesOK
  <2>2. ASSUME pc = "retry", ~RollsBack(FailureType(after, current.printed)), head' = wt
        PROVE  Progress
    <3>1. /\ after \in Runs(wt) /\ after.exit \in {"failed", "timeout"}
          /\ current.printed \in {{}, Printed(head)}
      BY <1>3, <2>2 DEF PromptInv
    <3> QED
      BY <2>1, <2>2, <3>1, KeptIsProgress
  <2>3. ASSUME pc = "candidate", head' = wt PROVE Progress
    BY <1>3, <2>3 DEF IInv, CandidateInv, RunsAreUsed
  <2>4. CASE RetryAfterTestFailure
    <3>1. ~RollsBack(FailureType(after, current.printed)) /\ head' = wt /\ pc = "retry"
      BY <2>4 DEF RetryAfterTestFailure, Rollback, Checkpoint
    <3> QED
      BY <2>2, <3>1
  <2>5. CASE CheckpointCandidate
    BY <2>3, <2>5 DEF CheckpointCandidate, Checkpoint
  <2>6. CASE CallRaises \/ GitExpires
    <3>1. Committing /\ head' = wt
      BY <1>3, <2>6 DEF CallRaises, GitExpires
    <3> QED
      BY <2>2, <2>3, <3>1 DEF Committing
  <2> QED
    BY <1>3, <2>4, <2>5, <2>6 DEF Next, Iterate, PrepareFails, Prepare, PrepareExpires, RunBaseline,
       ModelFails, Attempt, HandleApplyFailure, Verify, ReviewCandidate, Rollback, IterationLimit,
       Report, ExportFails, Close, CloseFails, TestTimeoutRaises, Terminated, vars, workspaceVars
<1>4. Spec => []PromptInv
  <2>1. IInv /\ PromptInv /\ [Next]_vars => PromptInv'
    BY <1>2
  <2> QED
    BY <1>1, <2>1, Invariance, PTL DEF Spec
<1>5. IInv /\ PromptInv /\ [Next]_vars => [Progress]_head
  BY <1>3
<1> QED
  BY <1>4, <1>5, Invariance, PTL DEF Spec, CheckpointsMakeProgress

-----------------------------------------------------------------------------
(* The temporary worktree                                                  *)

(* It is there only while the transaction is open, or an exception is on   *)
(* its way out of run().                                                   *)
WorktreeInv ==
  /\ onDisk => open \/ raising \/ pc = "raised"
  /\ pc = "prepare" => ~onDisk /\ ~open
  /\ pc = "done" => ~onDisk /\ ~raising

LEMMA NextWorktree ==
  ASSUME "raise" \notin Faults, Typed, WorktreeInv, [Next]_vars
  PROVE  WorktreeInv'
<1> USE EngineAssumption DEF WorktreeInv, Typed, TypeOK, FlagsOK, FaultKinds,
        vars, workspaceVars, policyVars, attemptVars, promptVars, outcomeVars, resultVars
<1>1. CASE PrepareFails
  BY <1>1 DEF PrepareFails
<1>2. CASE Prepare
  BY <1>2 DEF Prepare
<1>3. CASE PrepareExpires
  BY <1>3 DEF PrepareExpires
<1>4. CASE RunBaseline
  BY <1>4 DEF RunBaseline
<1>5. CASE ModelFails
  BY <1>5 DEF ModelFails
<1>6. CASE Attempt
  BY <1>6 DEF Attempt
<1>7. CASE HandleApplyFailure
  BY <1>7 DEF HandleApplyFailure, Rollback
<1>8. CASE Verify
  BY <1>8 DEF Verify, Rollback
<1>9. CASE RetryAfterTestFailure
  BY <1>9 DEF RetryAfterTestFailure, Rollback, Checkpoint
<1>10. CASE CheckpointCandidate
  BY <1>10 DEF CheckpointCandidate, Checkpoint
<1>11. CASE ReviewCandidate
  <2>1. PICK review \in Review :
          \/ \E action \in {"accept", "accept_with_warnings"} : Accept(action)
          \/ ReviewAction(review) = "revise" /\ Revise
          \/ Refuse(review)
    BY <1>11 DEF ReviewCandidate
  <2>2. CASE \E action \in {"accept", "accept_with_warnings"} : Accept(action)
    BY <1>11, <2>2 DEF ReviewCandidate, Accept
  <2>3. CASE ReviewAction(review) = "revise" /\ Revise
    BY <1>11, <2>3 DEF ReviewCandidate, Revise
  <2>4. CASE Refuse(review)
    BY <1>11, <2>4 DEF ReviewCandidate, Refuse
  <2> QED
    BY <2>1, <2>2, <2>3, <2>4
<1>12. CASE IterationLimit
  BY <1>12 DEF IterationLimit
<1>13. CASE Report
  BY <1>13 DEF Report
<1>14. CASE ExportFails
  BY <1>14 DEF ExportFails
<1>15. CASE Close
  BY <1>15 DEF Close
<1>16. CASE CloseFails
  BY <1>16 DEF CloseFails
<1>17. CASE CallRaises
  BY <1>17 DEF CallRaises, FailedCall
<1>18. CASE GitExpires
  BY <1>18 DEF GitExpires, FailedCall, Committing, RollingBack
<1>19. CASE TestTimeoutRaises
  BY <1>19 DEF TestTimeoutRaises
<1>20. CASE UNCHANGED vars
  BY <1>20
<1> QED
  BY <1>1, <1>2, <1>3, <1>4, <1>5, <1>6, <1>7, <1>8, <1>9, <1>10, <1>11, <1>12, <1>13,
     <1>14, <1>15, <1>16, <1>17, <1>18, <1>19, <1>20 DEF Next, Iterate, Terminated

(* When run() returns a result its worktree is gone, unless an error while *)
(* removing it was logged; time-outs leave run() as exceptions instead.    *)
THEOREM WorktreeGone ==
  ASSUME "raise" \notin Faults
  PROVE  Spec => []WorktreeRemoved
<1>1. Init => Typed /\ WorktreeInv
  BY InitTyped DEF Init, WorktreeInv
<1>2. (Typed /\ WorktreeInv) /\ [Next]_vars => (Typed /\ WorktreeInv)'
  BY NextTyped, NextWorktree
<1>3. WorktreeInv => WorktreeRemoved
  BY DEF WorktreeInv, WorktreeRemoved
<1> QED
  BY <1>1, <1>2, <1>3, PTL DEF Spec

-----------------------------------------------------------------------------
(* The contract: in isolated runs every step implements one of             *)
(* RepairContract; that a run ends is left to model checking.              *)

(* What a step relies on besides the candidate of IInv and SuccessInv: no  *)
(* success before the first run, and a result that hands over the content  *)
(* kept or nothing.                                                        *)
Delivery ==
  /\ pc \in {"prepare", "baseline"} => ~visible
  /\ pc \in {"close", "done"} => report.candidate \in {NoPatch, FinalDiff}

CInv == IInv /\ SuccessInv /\ Delivery

LEMMA NextDelivery ==
  ASSUME Isolated, CInv, [Next]_vars
  PROVE  Delivery'
<1> USE DEF Delivery, CInv, FinalDiff, FinalContent,
        vars, workspaceVars, policyVars, attemptVars, promptVars, outcomeVars, resultVars
<1>1. CASE PrepareFails \/ Prepare \/ PrepareExpires
  <2>1. visible' = visible /\ pc = "prepare" /\ pc' \in {"report", "baseline"}
    BY <1>1 DEF PrepareFails, Prepare, PrepareExpires
  <2> QED
    BY <2>1
<1>2. CASE RunBaseline
  BY <1>2 DEF RunBaseline
<1>3. CASE ModelFails \/ Attempt \/ HandleApplyFailure
  BY <1>3 DEF ModelFails, Attempt, HandleApplyFailure
<1>4. CASE Verify
  BY <1>4 DEF Verify
<1>5. CASE RetryAfterTestFailure \/ CheckpointCandidate
  BY <1>5 DEF RetryAfterTestFailure, CheckpointCandidate
<1>6. CASE ReviewCandidate
  BY <1>6 DEF ReviewCandidate, Accept, Revise, Refuse
<1>7. CASE IterationLimit \/ Report \/ ExportFails
  BY <1>7 DEF IterationLimit, Report, ExportFails
<1>8. CASE Close \/ CloseFails
  BY <1>8 DEF Close, CloseFails
<1>9. CASE CallRaises \/ GitExpires \/ TestTimeoutRaises
  BY <1>9 DEF CallRaises, GitExpires, TestTimeoutRaises, FailedCall
<1>10. CASE UNCHANGED vars
  BY <1>10
<1> QED
  BY <1>1, <1>2, <1>3, <1>4, <1>5, <1>6, <1>7, <1>8, <1>9, <1>10
     DEF Next, Iterate, Terminated

LEMMA ContractInvariance ==
  ASSUME Isolated
  PROVE  Spec => []CInv
<1>1. Init => CInv
  BY InitTyped, InitCandidate, InitSuccess DEF Init, CInv, IInv, Delivery
<1>2. CInv /\ [Next]_vars => CInv'
  <2> SUFFICES ASSUME CInv, [Next]_vars PROVE CInv'
    OBVIOUS
  <2>1. Typed' /\ CandidateInv'
    BY NextTyped, NextCandidate DEF CInv, IInv
  <2>2. SuccessInv'
    BY NextSuccess DEF CInv, IInv
  <2>3. Delivery'
    BY NextDelivery
  <2> QED
    BY <2>1, <2>2, <2>3 DEF CInv, IInv
<1> QED
  BY <1>1, <1>2, PTL DEF Spec

-----------------------------------------------------------------------------
(* Steps                                                                   *)

(* Most steps keep HEAD and what is known of it, and the run open.         *)
Hidden == UNCHANGED <<head, visible>> /\ {pc, pc'} \cap {"done", "raised"} = {}

LEMMA HiddenMaps ==
  ASSUME Hidden
  PROVE  UNCHANGED Contract!contractVars
BY DEF Hidden, Contract!contractVars, Verdict

(* What HEAD is replaced with while the run is open.                       *)
LEMMA KeepingMaps ==
  ASSUME Typed, head' \in Content, {pc, pc'} \cap {"done", "raised"} = {},
         \/ ~visible /\ ~visible'
         \/ visible' /\ Passes(head')
         \/ visible' /\ head' = head
  PROVE  [Contract!ContractNext]_(Contract!contractVars)
<1> USE DEF Verdict, Contract!contractVars, Contract!ContractNext
<1>1. CASE ~visible /\ ~visible'
  BY <1>1 DEF Contract!Advance
<1>2. CASE visible' /\ Passes(head')
  <2>1. head' \in PassingContent
    BY <1>2 DEF PassingContent
  <2> QED
    BY <1>2, <2>1 DEF Contract!Hold
<1>3. CASE visible' /\ head' = head /\ ~Passes(head)
  BY <1>3
<1> QED
  BY <1>1, <1>2, <1>3

(* A run that ends with a result delivers what the contract lets it.       *)
LEMMA EndingMaps ==
  ASSUME Isolated, CInv, CInv', pc = "close", pc' \in {"done", "raised"},
         UNCHANGED <<head, outcomeVars, iter, report>>
  PROVE  Contract!ContractNext
<1> DEFINE v == Verdict'
<1>1. v \in Contract!Verdicts /\ Verdict = "open"
  BY DEF Verdict, Status, Contract!Verdicts
<1>2. CASE pc' = "raised"
  BY <1>1, <1>2 DEF Verdict, Contract!ContractNext, Contract!End, outcomeVars
<1>3. CASE pc' = "done"
  <2>1. Patched(report.candidate) \in {head, Original}
    BY PatchedFinalDiff DEF CInv, IInv, Delivery, Patched, FinalContent
  <2>2. v \in {"success", "needs_review"} =>
          visible /\ Passes(head) /\ Patched(report.candidate) = head
    <3>1. CASE Status' = "passed"
      <4>1. success' /\ Earned' /\ report'.candidate = FinalDiff'
        BY <1>3, <3>1 DEF CInv, SuccessInv, EarnedUntilDone, Status
      <4> QED
        BY <4>1, PatchedFinalDiff DEF Earned, FinalContent, FinalDiff, outcomeVars, CInv, IInv
    <3>2. CASE Status' = "needs_review"
      <4>1. visible /\ acceptance # "not_run"
        BY <3>2 DEF Status, outcomeVars
      <4>2. report.candidate = FinalDiff /\ Passes(head)
        BY <4>1 DEF CInv, IInv, CandidateInv, DeliversHead, CandidateSurvives
      <4> QED
        BY <4>1, <4>2, PatchedFinalDiff DEF FinalContent, CInv, IInv
    <3> QED
      BY <1>3, <3>1, <3>2 DEF Verdict, Status
  <2>3. Contract!End(v)
    <3>1. UNCHANGED <<head, visible>> /\ (Patched(report.candidate))' = Patched(report.candidate)
      BY DEF Patched, outcomeVars
    <3>2. v # "aborted"
      BY <1>3 DEF Verdict, Status
    <3> HIDE DEF v
    <3> QED
      BY <1>1, <1>3, <2>1, <2>2, <3>1, <3>2 DEF Contract!End, Contract!Verdicts, v
  <2> QED
    BY <1>1, <2>3 DEF Contract!ContractNext
<1> QED
  BY <1>2, <1>3

(* What an isolated run keeps never degrades after a visible pass, and what*)
(* it hands over with a verdict is what it kept, whatever the model, the   *)
(* reviewer, git and the test runs do.                                     *)
THEOREM ContractKept ==
  ASSUME Isolated
  PROVE  Spec => Contract!ContractInit /\ [][Contract!ContractNext]_(Contract!contractVars)
<1>1. Init => Contract!ContractInit
  BY DEF Init, Contract!ContractInit, Verdict
<1>2. CInv /\ CInv' /\ [Next]_vars => [Contract!ContractNext]_(Contract!contractVars)
  <2> SUFFICES ASSUME CInv, CInv', [Next]_vars
               PROVE  [Contract!ContractNext]_(Contract!contractVars)
    OBVIOUS
  <2> USE DEF vars, workspaceVars, policyVars, attemptVars, promptVars, outcomeVars, resultVars
  <2>1. Typed /\ CandidateInv /\ CandidateInv' /\ Typed' /\ head' \in Content
    BY DEF CInv, IInv, Typed, TypeOK, ValuesOK
  <2>2. CASE PrepareFails \/ Prepare \/ PrepareExpires
    <3>1. Hidden
      BY <2>2 DEF Hidden, PrepareFails, Prepare, PrepareExpires
    <3> QED
      BY <3>1, HiddenMaps
  <2>3. CASE RunBaseline
    <3>1. PICK run \in Runs(wt) :
            /\ visible' = (run.exit = "ok")
            /\ pc' = IF run.exit \in {"ok", "infrastructure"} THEN "report" ELSE "loop"
      BY <2>3 DEF RunBaseline
    <3>2. run.exit = "ok" => Passes(wt)
      BY <2>1, OkRuns DEF Typed, TypeOK, ValuesOK
    <3>3. ~visible /\ wt = head /\ head' = head /\ pc = "baseline"
      BY <2>3 DEF RunBaseline, CInv, Delivery, SuccessInv, SuccessFollowsPass
    <3> QED
      BY <2>1, <3>1, <3>2, <3>3, KeepingMaps
  <2>4. CASE ModelFails \/ Attempt \/ HandleApplyFailure \/ Verify
    <3>1. Hidden
      BY <2>4 DEF Hidden, ModelFails, Attempt, HandleApplyFailure, Verify, Rollback
    <3> QED
      BY <3>1, HiddenMaps
  <2>5. CASE RetryAfterTestFailure
    <3>1. CASE RollsBack(FailureType(after, current.printed))
      <4>1. Hidden
        BY <2>5, <3>1 DEF Hidden, RetryAfterTestFailure, Rollback
      <4> QED
        BY <4>1, HiddenMaps
    <3>2. CASE ~RollsBack(FailureType(after, current.printed))
      <4>1. ~visible /\ visible' = visible /\ pc = "retry" /\ pc' = "loop"
        BY <2>1, <2>5, <3>2, KeptEditsPrecedeCandidates DEF RetryAfterTestFailure, CandidateInv
      <4> QED
        BY <2>1, <4>1, KeepingMaps
    <3> QED
      BY <3>1, <3>2
  <2>6. CASE CheckpointCandidate
    <3>1. visible' /\ head' = wt /\ Passes(wt) /\ pc = "candidate" /\ pc' \in {"review", "report"}
      BY <2>1, <2>6 DEF CheckpointCandidate, Checkpoint, CandidateInv, RunsAreUsed
    <3> QED
      BY <2>1, <3>1, KeepingMaps
  <2>7. CASE ReviewCandidate
    <3>1. Hidden
      BY <2>7 DEF Hidden, ReviewCandidate, Accept, Revise, Refuse
    <3> QED
      BY <3>1, HiddenMaps
  <2>8. CASE IterationLimit \/ Report \/ TestTimeoutRaises
    <3>1. Hidden
      BY <2>8 DEF Hidden, IterationLimit, Report, TestTimeoutRaises
    <3> QED
      BY <3>1, HiddenMaps
  <2>9. CASE ExportFails
    <3>1. pc = "report" /\ pc' = "raised" /\ UNCHANGED <<head, visible>>
      BY <2>9 DEF ExportFails
    <3> QED
      BY <3>1 DEF Contract!ContractNext, Contract!End, Contract!Verdicts, Verdict
  <2>10. CASE Close \/ CloseFails
    <3>1. /\ pc = "close" /\ pc' \in {"done", "raised"}
          /\ UNCHANGED <<head, outcomeVars, iter, report>>
      BY <2>10 DEF Close, CloseFails
    <3> QED
      BY <3>1, EndingMaps
  <2>11. CASE CallRaises \/ GitExpires
    <3>1. /\ head' \in IF Committing THEN {head, wt} ELSE {head}
          /\ visible' = (visible \/ pc = "candidate") /\ pc' = "report"
          /\ pc \notin {"done", "raised"}
      BY <2>11 DEF CallRaises, GitExpires, FailedCall, Committing, RollingBack
    <3>2. CASE head' = head
      BY <2>1, <3>1, <3>2, KeepingMaps
    <3>3. CASE head' = wt /\ pc = "candidate"
      BY <2>1, <3>1, <3>3, KeepingMaps DEF CandidateInv, RunsAreUsed
    <3>4. CASE pc = "retry" /\ ~RollsBack(FailureType(after, current.printed))
      <4>1. ~visible /\ ~visible'
        BY <2>1, <3>1, <3>4, KeptEditsPrecedeCandidates DEF CandidateInv
      <4> QED
        BY <2>1, <3>1, <4>1, KeepingMaps
    <3> QED
      BY <3>1, <3>2, <3>3, <3>4 DEF Committing
  <2>12. CASE UNCHANGED vars
    BY <2>12 DEF Contract!contractVars, Verdict, Status
  <2> QED
    BY <2>2, <2>3, <2>4, <2>5, <2>6, <2>7, <2>8, <2>9, <2>10, <2>11, <2>12
       DEF Next, Iterate, Terminated
<1>3. Spec => []CInv
  BY ContractInvariance
<1> QED
  BY <1>1, <1>2, <1>3, PTL DEF Spec
=============================================================================
