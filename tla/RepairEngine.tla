---------------------------- MODULE RepairEngine ----------------------------
(***************************************************************************)
(* core/engine.py: the repair loop, with the services it drives: the       *)
(* workspace transaction (checkpoints and rollbacks in a detached Git      *)
(* worktree, or plain edits in place), the edit backends, the test runner, *)
(* the retry policy and the semantic review. The repair model, the         *)
(* reviewer model, pytest and git are the environment: their answers are   *)
(* chosen freely among those the code tells apart.                         *)
(*                                                                         *)
(* Tests are deterministic functions of the content, time-outs and         *)
(* infrastructure errors excepted. The loop runs in one thread; what       *)
(* interleaves is its own steps with failures of the calls it makes.       *)
(***************************************************************************)
EXTENDS TestEvidence, RetryPolicy, ReviewPolicy

CONSTANTS Original,        \* content of the starting revision
          NoPatch,         \* an empty patch
          Isolated,        \* temporary_git_worktree, or else in place
          ReviewEnabled,   \* semantic_review_enabled
          InitialMode,     \* the edit backend tried first
          MaxIterations,   \* request.max_iterations
          MaxRevisions,    \* semantic_review_max_revisions
          MaxLevel,        \* context_max_expansion_level
          Faults           \* which calls may go wrong, see below

(* "partial_write": an edit that fails while writing leaves files changed; *)
(* "raise": a call raises OSError, RuntimeError or ValueError;             *)
(* "expire": a git command exceeds its time limit (TimeoutExpired, which   *)
(* run() does not catch);                                                  *)
(* "undecoded": a local test run that reaches its time limit after it has  *)
(* written output is reported as bytes, which format_output() cannot join: *)
(* TypeError.                                                              *)
FaultKinds == {"partial_write", "raise", "expire", "undecoded"}

ASSUME EngineAssumption ==
  /\ Original \in Content
  /\ NoPatch \notin Content
  /\ Isolated \in BOOLEAN
  /\ ReviewEnabled \in BOOLEAN
  /\ InitialMode \in Modes
  /\ MaxIterations \in Nat \ {0}
  /\ MaxRevisions \in Nat
  /\ MaxLevel \in Nat
  /\ Faults \subseteq FaultKinds

VARIABLES
  pc,          \* where run() is
  wt,          \* content of the active workspace
  head,        \* content of the worktree's HEAD (isolated runs)
  open,        \* transaction.active is not None
  onDisk,      \* the temporary worktree exists
  policy,      \* the RetryPolicy object
  level,       \* ContextExpansionPolicy.level
  edit,        \* ApplyResult of the attempt under way
  after,       \* test run of the attempt under way
  current,     \* runtime.current_test_output, and the content it came from
  iter,        \* len(state.iterations)
  trigger,     \* runtime.trigger; active_review_feedback is set with it
  feedback,    \* what runtime.feedback tells the model about
  success, visible, acceptance, err, revisions, \* fields of AgentState
  applied,     \* runtime.patch_applied
  reviewed,    \* the diff the reviewer last saw
  report,      \* what _to_result exported: the patch and the candidate
  raising      \* an exception that run() does not catch is propagating

workspaceVars == <<wt, head, open, onDisk>>
policyVars == <<policy, level>>
attemptVars == <<edit, after>>
promptVars == <<current, iter, trigger, feedback>>
outcomeVars == <<success, visible, acceptance, err>>
resultVars == <<report, raising>>
vars == <<pc, workspaceVars, policyVars, attemptVars, promptVars, outcomeVars,
          revisions, applied, reviewed, resultVars>>

NoEdit == [mode |-> InitialMode, stage |-> "ok", lost |-> FALSE, touched |-> TRUE]
NoRun == [exit |-> "failed", printed |-> {}]

Init ==
  /\ pc = "prepare"
  /\ wt = Original /\ head = Original /\ open = FALSE /\ onDisk = FALSE
  /\ policy = InitialPolicy(InitialMode) /\ level = 0
  /\ edit = NoEdit /\ after = NoRun
  /\ current = [on |-> Original, printed |-> {}]
  /\ iter = 0 /\ trigger = "pytest_failure" /\ feedback = {}
  /\ success = FALSE /\ visible = FALSE /\ acceptance = "not_run" /\ err = FALSE
  /\ revisions = 0 /\ applied = FALSE /\ reviewed = NoPatch
  /\ report = [patch |-> NoPatch, candidate |-> NoPatch] /\ raising = FALSE

-----------------------------------------------------------------------------
(* WorkspaceTransaction                                                    *)

(* In place, checkpoint() and rollback() return without doing anything.    *)
Checkpoint ==
  /\ head' = IF Isolated THEN wt ELSE head
  /\ UNCHANGED <<wt, open, onDisk>>

Rollback ==
  /\ wt' = IF Isolated THEN head ELSE wt
  /\ UNCHANGED <<head, open, onDisk>>

(* The diff from the starting revision that final_diff() exports. *)
FinalContent == IF Isolated THEN head ELSE wt

FinalDiff == IF FinalContent = Original THEN NoPatch ELSE FinalContent

-----------------------------------------------------------------------------
(* _prepare *)

(* A dirty workspace, or a worktree that cannot be created. *)
PrepareFails ==
  /\ pc = "prepare"
  /\ err' = TRUE /\ pc' = "report"
  /\ UNCHANGED <<workspaceVars, policyVars, attemptVars, promptVars, success,
                 visible, acceptance, revisions, applied, reviewed, resultVars>>

Prepare ==
  /\ pc = "prepare"
  /\ open' = TRUE /\ onDisk' = Isolated /\ pc' = "baseline"
  /\ UNCHANGED <<wt, head, policyVars, attemptVars, promptVars, outcomeVars,
                 revisions, applied, reviewed, resultVars>>

(* inspect_workspace() or git worktree add exceeds its time limit: begin() *)
(* leaves what it made.                                                    *)
PrepareExpires ==
  /\ pc = "prepare" /\ "expire" \in Faults
  /\ onDisk' \in {FALSE, Isolated} /\ raising' = TRUE /\ pc' = "report"
  /\ UNCHANGED <<wt, head, open, policyVars, attemptVars, promptVars, outcomeVars,
                 revisions, applied, reviewed, report>>

(* list_files() and the first test run. *)
RunBaseline ==
  /\ pc = "baseline"
  /\ \E run \in Runs(wt) :
       /\ current' = [on |-> wt, printed |-> run.printed]
       /\ err' = (run.exit = "infrastructure")
       /\ success' = (run.exit = "ok") /\ visible' = (run.exit = "ok")
       /\ pc' = IF run.exit \in {"ok", "infrastructure"} THEN "report" ELSE "loop"
  /\ UNCHANGED <<workspaceVars, policyVars, attemptVars, iter, trigger, feedback,
                 acceptance, revisions, applied, reviewed, resultVars>>

-----------------------------------------------------------------------------
(* One iteration: _plan_and_generate and _apply *)

(* ModelGenerationError: patch mode gives up, replacement mode goes on. *)
ModelFails ==
  /\ pc = "loop" /\ iter < MaxIterations
  /\ err' = TRUE /\ iter' = iter + 1
  /\ IF ContinuesAfterModelError(policy)
     THEN pc' = "loop" /\ feedback' = {"model"}
     ELSE pc' = "report" /\ UNCHANGED feedback
  /\ UNCHANGED <<workspaceVars, policyVars, attemptVars, current, trigger, success,
                 visible, acceptance, revisions, applied, reviewed, resultVars>>

(* The content an edit may leave: anything once the backend reports that   *)
(* it was applied, the old one if it was refused before the first write.   *)
Leaves(result) ==
  IF result.touched \/ ("partial_write" \in Faults /\ result.stage = "apply" /\ ~result.lost)
  THEN Content ELSE {wt}

(* Mutant: patch_applied is overwritten, not accumulated. *)
AttemptForgetsApplied ==
  /\ pc = "loop" /\ iter < MaxIterations
  /\ \E result \in ApplyResult :
       /\ result.mode = policy.mode
       /\ wt' \in Leaves(result)
       /\ edit' = result
       /\ applied' = result.touched
       /\ pc' = IF result.stage = "ok" THEN "verify" ELSE "apply_failed"
  /\ UNCHANGED <<head, open, onDisk, policyVars, after, promptVars, outcomeVars,
                 revisions, reviewed, resultVars>>

Attempt ==
  /\ pc = "loop" /\ iter < MaxIterations
  /\ \E result \in ApplyResult :
       /\ result.mode = policy.mode
       /\ wt' \in Leaves(result)
       /\ edit' = result
       /\ applied' = (applied \/ result.touched)
       /\ pc' = IF result.stage = "ok" THEN "verify" ELSE "apply_failed"
  /\ UNCHANGED <<head, open, onDisk, policyVars, after, promptVars, outcomeVars,
                 revisions, reviewed, resultVars>>

(* Mutant: an applied edit without a diff is kept. *)
ApplyFailureKeepsEdit ==
  /\ pc = "apply_failed"
  /\ UNCHANGED workspaceVars
  /\ policy' = AfterApply(policy, edit)
  /\ err' = TRUE /\ iter' = iter + 1 /\ feedback' = {"apply"}
  /\ pc' = "loop"
  /\ UNCHANGED <<level, attemptVars, current, trigger, success, visible, acceptance,
                 revisions, applied, reviewed, resultVars>>

(* Mutant: no record is appended. *)
ApplyFailureUnrecorded ==
  /\ pc = "apply_failed"
  /\ IF edit.touched THEN Rollback ELSE UNCHANGED workspaceVars
  /\ policy' = AfterApply(policy, edit)
  /\ err' = TRUE /\ iter' = iter /\ feedback' = {"apply"}
  /\ pc' = "loop"
  /\ UNCHANGED <<level, attemptVars, current, trigger, success, visible, acceptance,
                 revisions, applied, reviewed, resultVars>>

(* _handle_apply_failure *)
HandleApplyFailure ==
  /\ pc = "apply_failed"
  /\ IF edit.touched THEN Rollback ELSE UNCHANGED workspaceVars
  /\ policy' = AfterApply(policy, edit)
  /\ err' = TRUE /\ iter' = iter + 1 /\ feedback' = {"apply"}
  /\ pc' = "loop"
  /\ UNCHANGED <<level, attemptVars, current, trigger, success, visible, acceptance,
                 revisions, applied, reviewed, resultVars>>

(* _verify: an infrastructure error ends the run. *)
Verify ==
  /\ pc = "verify"
  /\ policy' = AfterApply(policy, edit)
  /\ \E run \in Runs(wt) :
       /\ after' = run
       /\ success' = (run.exit = "ok") /\ err' = (run.exit # "ok")
       /\ IF run.exit = "infrastructure"
          THEN Rollback /\ iter' = iter + 1 /\ pc' = "report"
          ELSE /\ UNCHANGED <<workspaceVars, iter>>
               /\ pc' = IF run.exit = "ok" THEN "candidate" ELSE "retry"
  /\ UNCHANGED <<level, edit, current, trigger, feedback, visible, acceptance,
                 revisions, applied, reviewed, resultVars>>

(* _retry_after_test_failure: rolled back (possible in isolated runs only),*)
(* the prompt keeps the output it had; otherwise the edit stays, is        *)
(* checkpointed, and its output becomes the current one.                   *)
RetryAfterTestFailure ==
  /\ pc = "retry"
  /\ LET failure == FailureType(after, current.printed)
     IN  /\ IF RollsBack(failure) /\ Isolated
            THEN Rollback /\ UNCHANGED current
            ELSE Checkpoint /\ current' = [on |-> wt, printed |-> after.printed]
         /\ level' = IF ExpandsContext(failure) THEN Expand(level, MaxLevel) ELSE level
  /\ feedback' = {"tests"} \cup (IF trigger = "semantic_revision" THEN {"review"} ELSE {})
  /\ iter' = iter + 1 /\ pc' = "loop"
  /\ UNCHANGED <<policy, attemptVars, trigger, outcomeVars, revisions, applied,
                 reviewed, resultVars>>

-----------------------------------------------------------------------------
(* _handle_visible_success *)

(* Mutant: the candidate is not checkpointed. *)
CandidateUncommitted ==
  /\ pc = "candidate"
  /\ visible' = TRUE /\ UNCHANGED workspaceVars /\ iter' = iter + 1
  /\ IF ReviewEnabled
     THEN pc' = "review" /\ UNCHANGED acceptance
     ELSE pc' = "report" /\ acceptance' = "disabled"
  /\ UNCHANGED <<policyVars, attemptVars, current, trigger, feedback, success, err,
                 revisions, applied, reviewed, resultVars>>

CheckpointCandidate ==
  /\ pc = "candidate"
  /\ visible' = TRUE /\ Checkpoint /\ iter' = iter + 1
  /\ IF ReviewEnabled
     THEN pc' = "review" /\ UNCHANGED acceptance
     ELSE pc' = "report" /\ acceptance' = "disabled"
  /\ UNCHANGED <<policyVars, attemptVars, current, trigger, feedback, success, err,
                 revisions, applied, reviewed, resultVars>>

(* Mutant: the iteration budget is not consulted. *)
ReviewActionUnbounded(review) ==
  Decide(review, revisions, MaxRevisions)

(* The policy's decision, except that a revision needs an iteration left. *)
ReviewAction(review) ==
  LET action == Decide(review, revisions, MaxRevisions)
  IN  IF action = "revise" /\ iter >= MaxIterations THEN "needs_review" ELSE action

Accept(action) ==
  /\ acceptance' = IF action = "accept" THEN "accepted" ELSE "accepted_with_warnings"
  /\ success' = TRUE /\ err' = FALSE /\ pc' = "report"
  /\ UNCHANGED <<current, trigger, feedback, revisions>>

(* Mutant: the revision is compared with the output before the candidate. *)
ReviseKeepsOutput ==
  /\ acceptance' = "revising" /\ success' = FALSE /\ pc' = "loop"
  /\ UNCHANGED current
  /\ trigger' = "semantic_revision" /\ feedback' = {"review"}
  /\ revisions' = revisions + 1
  /\ UNCHANGED err

Revise ==
  /\ acceptance' = "revising" /\ success' = FALSE /\ pc' = "loop"
  /\ current' = [on |-> wt, printed |-> after.printed]
  /\ trigger' = "semantic_revision" /\ feedback' = {"review"}
  /\ revisions' = revisions + 1
  /\ UNCHANGED err

(* Mutant: success keeps the value _verify gave it. *)
RefuseKeepsSuccess(review) ==
  /\ acceptance' = RefusalStatus(review)
  /\ UNCHANGED success /\ err' = FALSE /\ pc' = "report"
  /\ UNCHANGED <<current, trigger, feedback, revisions>>

Refuse(review) ==
  /\ acceptance' = RefusalStatus(review)
  /\ success' = FALSE /\ err' = FALSE /\ pc' = "report"
  /\ UNCHANGED <<current, trigger, feedback, revisions>>

(* _run_semantic_review, _record_review and _apply_review_decision *)
ReviewCandidate ==
  /\ pc = "review"
  /\ reviewed' = FinalDiff
  /\ \E review \in Review :
       LET action == ReviewAction(review)
       IN  \/ action \in {"accept", "accept_with_warnings"} /\ Accept(action)
           \/ action = "revise" /\ Revise
           \/ action = "needs_review" /\ Refuse(review)
  /\ UNCHANGED <<workspaceVars, policyVars, attemptVars, iter, visible, applied, resultVars>>

-----------------------------------------------------------------------------
(* The end of run(): _mark_iteration_limit, then the finally block *)

(* Mutant: the limit rejects runs that never had a candidate. *)
LimitIgnoresCandidate ==
  /\ pc = "loop" /\ iter >= MaxIterations
  /\ IF ReviewEnabled
     THEN success' = FALSE /\ acceptance' = "rejected" /\ err' = FALSE
     ELSE err' = TRUE /\ UNCHANGED <<success, acceptance>>
  /\ pc' = "report"
  /\ UNCHANGED <<workspaceVars, policyVars, attemptVars, promptVars, visible,
                 revisions, applied, reviewed, resultVars>>

IterationLimit ==
  /\ pc = "loop" /\ iter >= MaxIterations
  /\ IF visible /\ ReviewEnabled
     THEN success' = FALSE /\ acceptance' = "rejected" /\ err' = FALSE
     ELSE err' = TRUE /\ UNCHANGED <<success, acceptance>>
  /\ pc' = "report"
  /\ UNCHANGED <<workspaceVars, policyVars, attemptVars, promptVars, visible,
                 revisions, applied, reviewed, resultVars>>

(* _to_result: an export that fails raises out of the finally block, and   *)
(* the workspace is not closed.                                            *)
Report ==
  /\ pc = "report"
  /\ report' = [patch |-> IF open THEN FinalDiff ELSE NoPatch,
                candidate |-> IF open /\ visible THEN FinalDiff ELSE NoPatch]
  /\ pc' = "close"
  /\ UNCHANGED <<workspaceVars, policyVars, attemptVars, promptVars, outcomeVars,
                 revisions, applied, reviewed, raising>>

ExportFails ==
  /\ pc = "report" /\ open /\ Faults \cap {"raise", "expire"} # {}
  /\ pc' = "raised"
  /\ UNCHANGED <<workspaceVars, policyVars, attemptVars, promptVars, outcomeVars,
                 revisions, applied, reviewed, resultVars>>

(* Mutant: only successful runs are cleaned up. *)
CloseOnSuccess ==
  /\ pc = "close"
  /\ open' = FALSE /\ onDisk' = (onDisk /\ ~(open /\ success))
  /\ pc' = IF raising THEN "raised" ELSE "done"
  /\ UNCHANGED <<wt, head, policyVars, attemptVars, promptVars, outcomeVars,
                 revisions, applied, reviewed, resultVars>>

(* _close_workspace: only an active transaction is torn down. *)
Close ==
  /\ pc = "close"
  /\ open' = FALSE /\ onDisk' = (onDisk /\ ~open)
  /\ pc' = IF raising THEN "raised" ELSE "done"
  /\ UNCHANGED <<wt, head, policyVars, attemptVars, promptVars, outcomeVars,
                 revisions, applied, reviewed, resultVars>>

(* An OSError or RuntimeError while the worktree is removed is only logged; *)
(* a time-out is neither, and leaves run().                                *)
CloseFails ==
  /\ pc = "close" /\ open /\ Isolated
  /\ open' = FALSE /\ onDisk' \in BOOLEAN
  /\ \E fault \in Faults \cap {"raise", "expire"} :
       pc' = IF raising \/ fault = "expire" THEN "raised" ELSE "done"
  /\ UNCHANGED <<wt, head, policyVars, attemptVars, promptVars, outcomeVars,
                 revisions, applied, reviewed, resultVars>>

-----------------------------------------------------------------------------
(* Failures of the calls made inside the try block *)

(* The step under way resets the worktree, or commits it. *)
RollingBack ==
  /\ Isolated
  /\ \/ pc = "apply_failed" /\ edit.touched
     \/ pc = "verify"
     \/ pc = "retry" /\ RollsBack(FailureType(after, current.printed))

Committing ==
  /\ Isolated
  /\ \/ pc = "candidate"
     \/ pc = "retry" /\ ~RollsBack(FailureType(after, current.printed))

(* What has already happened when a call fails: visible_success is set     *)
(* before the candidate's checkpoint; an edit or a reset may be half done. *)
FailedCall ==
  /\ visible' = (visible \/ pc = "candidate")
  /\ wt' \in IF pc = "loop" \/ RollingBack THEN Content ELSE {wt}
  /\ pc' = "report"
  /\ UNCHANGED <<open, onDisk, policyVars, attemptVars, promptVars, acceptance,
                 revisions, applied, reviewed, report>>

(* run() catches OSError, RuntimeError and ValueError. *)
CallRaises ==
  /\ "raise" \in Faults
  /\ \/ pc \in {"baseline", "apply_failed", "verify", "retry", "candidate", "review"}
     \/ pc = "loop" /\ iter < MaxIterations
  /\ success' = FALSE /\ err' = TRUE
  /\ head' \in IF Committing THEN {head, wt} ELSE {head}
  /\ FailedCall /\ UNCHANGED raising

(* It does not catch TimeoutExpired, which the worktree's git commands and *)
(* candidate_diff() may raise; a commit that was running may have landed.  *)
GitExpires ==
  /\ "expire" \in Faults
  /\ RollingBack \/ Committing \/ pc = "review"
  /\ raising' = TRUE
  /\ head' \in IF Committing THEN {head, wt} ELSE {head}
  /\ FailedCall /\ UNCHANGED <<success, err>>

(* _verify has told the policy about the edit before it runs the tests.    *)
TestTimeoutRaises ==
  /\ pc \in {"baseline", "verify"} /\ "undecoded" \in Faults
  /\ policy' = IF pc = "verify" THEN AfterApply(policy, edit) ELSE policy
  /\ raising' = TRUE /\ pc' = "report"
  /\ UNCHANGED <<workspaceVars, level, attemptVars, promptVars, outcomeVars,
                 revisions, applied, reviewed, report>>

Terminated == pc \in {"done", "raised"} /\ UNCHANGED vars

-----------------------------------------------------------------------------

Iterate ==
  \/ ModelFails \/ Attempt \/ HandleApplyFailure \/ Verify
  \/ RetryAfterTestFailure \/ CheckpointCandidate \/ ReviewCandidate

Next ==
  \/ PrepareFails \/ Prepare \/ PrepareExpires \/ RunBaseline
  \/ Iterate
  \/ IterationLimit \/ Report \/ ExportFails \/ Close \/ CloseFails
  \/ CallRaises \/ GitExpires \/ TestTimeoutRaises
  \/ Terminated

(* One thread runs the loop; every call it makes returns, raises or times  *)
(* out.                                                                    *)
Spec == Init /\ [][Next]_vars /\ WF_vars(Next)

-----------------------------------------------------------------------------
(* The status of final_summary(); main._result_exit_code() makes the same  *)
(* distinctions (0 passed, 2 needs_review, 1 otherwise).                   *)

Status ==
  IF success THEN "passed"
  ELSE IF visible /\ acceptance \notin {"disabled", "not_run"} THEN "needs_review"
  ELSE IF err /\ iter = 0 THEN "error" ELSE "failed"

(* The content a reader gets by applying an exported patch. *)
Patched(patch) == IF patch = NoPatch THEN Original ELSE patch

-----------------------------------------------------------------------------
(* Properties                                                              *)

Acceptances == {"not_run", "disabled", "accepted", "accepted_with_warnings",
                "revising", "rejected", "abstained", "review_error"}

FlagsOK ==
  /\ open \in BOOLEAN /\ onDisk \in BOOLEAN
  /\ success \in BOOLEAN /\ visible \in BOOLEAN /\ err \in BOOLEAN
  /\ applied \in BOOLEAN /\ raising \in BOOLEAN

ValuesOK ==
  /\ pc \in {"prepare", "baseline", "loop", "apply_failed", "verify", "retry",
             "candidate", "review", "report", "close", "done", "raised"}
  /\ wt \in Content /\ head \in Content
  /\ policy \in Policy
  /\ level \in 0..MaxLevel
  /\ edit \in ApplyResult
  /\ after \in Run
  /\ current \in [on : Content, printed : SUBSET Node]
  /\ iter \in 0..MaxIterations
  /\ trigger \in {"pytest_failure", "semantic_revision"}
  /\ feedback \subseteq {"model", "apply", "tests", "review"}
  /\ acceptance \in Acceptances
  /\ revisions \in Nat
  /\ reviewed \in Content \cup {NoPatch}
  /\ report \in [patch : Content \cup {NoPatch}, candidate : Content \cup {NoPatch}]

(* Type invariant of the engine, its policies and its transaction. *)
TypeOK == FlagsOK /\ ValuesOK

(* Once a candidate has passed the visible tests and been checkpointed, no *)
(* later step of the run (failed revision, roll back, partial edit, time-  *)
(* out, failing git command) makes HEAD a content that does not pass:      *)
(* "exporting the last visible-pass candidate" rests on it. It holds only  *)
(* because the output that follows a candidate lists no failure, so that   *)
(* nothing after it can count as partial progress.                         *)
CandidateSurvives == Isolated /\ acceptance # "not_run" => Passes(head)

(* A result that asks for human review (exit code 2) hands over a patch    *)
(* whose content passes the visible tests.                                 *)
NeedsReviewHasCandidate ==
  pc = "done" /\ Status = "needs_review" => Passes(Patched(report.candidate))

(* A run that reports success exports a patch that passes, and with review *)
(* enabled it is the very diff the reviewer accepted, unless the tests     *)
(* passed before any edit.                                                 *)
SuccessIsEarned ==
  pc = "done" /\ success =>
    /\ ~err /\ visible
    /\ Passes(Patched(report.candidate))
    /\ ReviewEnabled /\ iter > 0 =>
         /\ acceptance \in {"accepted", "accepted_with_warnings"}
         /\ report.candidate = reviewed

(* Every prompt is built from a workspace that the current pytest output   *)
(* describes and that the next rollback would restore.                     *)
PromptMatchesWorkspace ==
  pc = "loop" => /\ current.on = wt
                 /\ wt = head
                 /\ current.printed \in {{}, Printed(wt)}

(* A run never ends silently: without success there is an error, or a      *)
(* passing candidate that was refused.                                     *)
FailureIsExplained ==
  pc = "done" /\ ~success =>
    \/ err
    \/ visible /\ acceptance \in {"rejected", "abstained", "review_error"}

(* A patch is exported only if some edit was reported as applied.          *)
ExportImpliesApplied == report.patch # NoPatch => applied

(* With one test command and importable code, a checkpoint never gives up  *)
(* a test that passed, and either fixes one or follows a passing content.  *)
CheckpointsMakeProgress ==
  [][head' # head => \/ NotPassing(head') \subseteq NotPassing(head)
                        /\ NotPassing(head') # NotPassing(head)
                     \/ Passes(head')]_head

(* The loop never reaches its limit with review feedback that no prompt    *)
(* has contained: a revision is requested only if an iteration is left to  *)
(* carry it out, otherwise the limit, not the reviewer, would decide the   *)
(* candidate's status.                                                     *)
RevisionsAreActedOn ==
  pc = "loop" /\ feedback = {"review"} => iter < MaxIterations

(* The worktree is gone when a result is returned. *)
WorktreeRemoved == pc = "done" => ~onDisk

(* The loop ends: each pass through it appends a record. *)
Termination == <>(pc \in {"done", "raised"})

-----------------------------------------------------------------------------
(* What the documentation says and the code does not do                    *)

(* docs/design.md:74: "An iteration that introduces new failing tests is   *)
(* rolled back to the last checkpoint before another model call."          *)
RegressionsAreRolledBack ==
  [][head' # head => NotPassing(head') \subseteq NotPassing(head)]_head

(* docs/design.md:80: "Test timeouts request rollback": the run goes on. In *)
(* runs whose only fault is a test that is too slow, run() returns.        *)
SlowTestsAreReported == pc # "raised"

(* docs/limitations.md:23: "It repairs a detached temporary worktree,      *)
(* [...] exports a patch, and removes the worktree." Whatever run() does,  *)
(* it leaves no transaction open.                                          *)
AlwaysClosed == pc \in {"done", "raised"} => ~open
=============================================================================
