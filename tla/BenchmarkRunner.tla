--------------------------- MODULE BenchmarkRunner ---------------------------
(***************************************************************************)
(* benchmarking/runner.py, workspace.py and comparison.py: run() goes      *)
(* through the trials one by one, each in a directory of its own (cases    *)
(* with a fixture) or in the one resettable workspace of its case. Every   *)
(* step may fail; a directory may hold what an earlier, interrupted or     *)
(* kept run left behind. The repair itself is its outcome (RepairEngine),  *)
(* reached in a worktree: it leaves the directory alone.                   *)
(***************************************************************************)
EXTENDS Naturals, FiniteSets, SequencesExt

CONSTANTS CaseList,        \* the selected cases, in the order of the manifest
          StrategiesOf,    \* of each case, or the strategy_override
          Modes,           \* repository_modes, as labels
          Repeat,
          FixtureCases, HoldoutCases,
          KeepWorkspaces

ASSUME BenchmarkAssumption ==
  /\ Repeat \in Nat \ {0} /\ KeepWorkspaces \in BOOLEAN
  /\ IsInjective(CaseList) /\ IsInjective(Modes)     \* load_manifest, __init__
  /\ FixtureCases \subseteq Range(CaseList) /\ HoldoutCases \subseteq Range(CaseList)
  /\ \A c \in Range(CaseList) : IsInjective(StrategiesOf[c])

(* _variants() *)
Variants ==
  LET Repetitions(c, s, m) ==
        [r \in 1..Repeat |-> [case |-> c, strategy |-> s, label |-> m, repetition |-> r]]
      OfCase(c) == FlattenSeq([i \in DOMAIN StrategiesOf[c] |->
                     FlattenSeq([j \in DOMAIN Modes |->
                       Repetitions(c, StrategiesOf[c][i], Modes[j])])])
  IN FlattenSeq([i \in DOMAIN CaseList |-> OfCase(CaseList[i])])

(* Where a trial runs: its own directory, or the workspace of its case. *)
HasFixture(v) == v.case \in FixtureCases
PlaceOf(v) == IF HasFixture(v) THEN v ELSE [case |-> v.case]
Places == {PlaceOf(v) : v \in Range(Variants)}

VARIABLES pc,
          trial,      \* number of the trial under way
          tree,       \* of each place: "none", "partial", "copied", "baseline" or "candidate"
          exposed,    \* places with holdout tests in them
          prepared,   \* _run_variant: workspace is not None
          outcome,    \* the agent's result
          judged,     \* history: the tree the holdout tests ran on
          verdict,    \* holdout_success: "none", "passed" or "failed"
          record,     \* the record of the trial
          report      \* identity and success of the trials recorded

resultVars == <<outcome, judged, verdict>>
recordVars == <<record, report>>
vars == <<pc, trial, tree, exposed, prepared, resultVars, recordVars>>

variant == Variants[trial]
place == PlaceOf(variant)

(* What run() of the agent returns: whether it succeeds, whether the       *)
(* visible tests passed, whether an edit was exported, and                 *)
(* acceptance_status. The last checkpoint may fail after one that kept a   *)
(* part of the repair: that part is exported, and nothing was reviewed.    *)
Result(success, visible, patch, status) ==
  [success |-> success, visible |-> visible, patch |-> patch, status |-> status]
NoResult == Result(FALSE, FALSE, FALSE, "not_run")
Outcomes ==
  {Result(TRUE, TRUE, FALSE, "not_run"), Result(TRUE, TRUE, TRUE, "disabled"),
   Result(TRUE, TRUE, TRUE, "accepted"), Result(FALSE, TRUE, TRUE, "rejected"),
   Result(FALSE, TRUE, TRUE, "error"), Result(FALSE, TRUE, TRUE, "not_run"),
   Result(FALSE, TRUE, FALSE, "not_run"),
   Result(FALSE, FALSE, TRUE, "not_run"), NoResult}

(* _run_identity() *)
Identity(v) == [case |-> v.case, strategy |-> v.strategy, label |-> v.label,
                repetition |-> v.repetition]
(* What the mutant of RunnerError records. *)
IdentityDefault(v) == [case |-> v.case, strategy |-> v.strategy, label |-> Modes[1],
                       repetition |-> v.repetition]
NoRecord == [success |-> FALSE, failure |-> "none", key |-> "none"]

(* The loop over the variants goes on as long as there is a next one. *)
StepAt(n) == IF n \in DOMAIN Variants THEN "prepare" ELSE "finished"

Init ==
  /\ trial = 1 /\ pc = StepAt(1) /\ prepared = FALSE
  /\ tree \in [Places -> {"none", "partial", "baseline"}]
  /\ \A p \in Places : tree[p] = "none" => p \in Range(Variants)
  /\ exposed \in {{}, {p \in Places : tree[p] # "none"}}
  /\ outcome = NoResult /\ judged = "none" /\ verdict = "none"
  /\ record = NoRecord /\ report = <<>>

Put(t) == tree' = [tree EXCEPT ![place] = t]
Cleared(t) == Put(t) /\ exposed' = exposed \ {place}

-----------------------------------------------------------------------------
(* IsolatedWorkspaceFactory.prepare()                                      *)

(* Mutant: the status of the reset command is not looked at. *)
ResetUnchecked ==
  /\ pc = "prepare" /\ ~HasFixture(variant)
  /\ prepared' = TRUE /\ pc' = "agent"
  /\ UNCHANGED <<trial, tree, exposed, resultVars, recordVars>>

(* The reset command of the case, an external program. *)
ResetPlace ==
  /\ pc = "prepare" /\ ~HasFixture(variant)
  /\ Cleared("baseline") /\ prepared' = TRUE /\ pc' = "agent"
  /\ UNCHANGED <<trial, resultVars, recordVars>>

ResetFails ==
  /\ pc = "prepare" /\ ~HasFixture(variant)
  /\ pc' = "raised"
  /\ UNCHANGED <<trial, tree, exposed, prepared, resultVars, recordVars>>

(* _safe_remove() of what is there, then copytree(). An error of copytree  *)
(* leaves its part of the copy.                                            *)
RemoveStale ==
  /\ pc = "prepare" /\ HasFixture(variant)
  /\ Cleared("none") /\ pc' = "copy"
  /\ UNCHANGED <<trial, prepared, resultVars, recordVars>>

CopyFixture ==
  /\ pc = "copy" /\ Put("copied") /\ pc' = "commit"
  /\ UNCHANGED <<trial, exposed, prepared, resultVars, recordVars>>

CopyFails ==
  /\ (pc = "prepare" /\ HasFixture(variant)) \/ pc = "copy"
  /\ Put(IF pc = "copy" \/ tree[place] # "none" THEN "partial" ELSE "none") /\ pc' = "raised"
  /\ UNCHANGED <<trial, exposed, prepared, resultVars, recordVars>>

CommitBaseline ==
  /\ pc = "commit" /\ Put("baseline") /\ prepared' = TRUE /\ pc' = "agent"
  /\ UNCHANGED <<trial, exposed, resultVars, recordVars>>

(* One of the five git commands fails; the copy is removed, if it can be.  *)
CommitFails ==
  /\ pc = "commit" /\ \E t \in {"none", "partial"} : Put(t)
  /\ pc' = "raised"
  /\ UNCHANGED <<trial, exposed, prepared, resultVars, recordVars>>

-----------------------------------------------------------------------------
(* _run_prepared_workspace()                                               *)

RunAgent ==
  /\ pc = "agent" /\ outcome' \in Outcomes /\ pc' = "materialize"
  /\ UNCHANGED <<trial, tree, exposed, prepared, judged, verdict, recordVars>>

(* Mutant: the holdout tests run on what was there before. *)
MaterializeNothing ==
  /\ pc = "materialize"
  /\ pc' = IF variant.case \in HoldoutCases THEN "expose" ELSE "save"
  /\ UNCHANGED <<trial, tree, exposed, prepared, resultVars, recordVars>>

(* _apply_exported_patch() for a visible success: git apply --check, then  *)
(* git apply.                                                              *)
Materialize ==
  /\ pc = "materialize"
  /\ Put(IF outcome.visible /\ outcome.patch THEN "candidate" ELSE tree[place])
  /\ pc' = IF variant.case \in HoldoutCases THEN "expose" ELSE "save"
  /\ UNCHANGED <<trial, exposed, prepared, resultVars, recordVars>>

(* Refused by the check, or killed by the time limit. *)
MaterializeFails ==
  /\ pc = "materialize" /\ outcome.visible /\ outcome.patch
  /\ \E t \in {tree[place], "candidate"} : Put(t)
  /\ pc' = "raised"
  /\ UNCHANGED <<trial, exposed, prepared, resultVars, recordVars>>

(* HoldoutEvaluator.run(): the tests are copied into a directory of the    *)
(* workspace, run, and removed whatever happens.                           *)
Expose ==
  /\ pc = "expose" /\ exposed' = exposed \cup {place} /\ pc' \in {"judge", "hide_and_raise"}
  /\ UNCHANGED <<trial, tree, prepared, resultVars, recordVars>>

(* The holdout passes or fails as it likes, on whatever tree is there. *)
Judge ==
  /\ pc = "judge"
  /\ \/ verdict' \in {"passed", "failed"} /\ judged' = tree[place] /\ pc' = "hide"
     \/ UNCHANGED <<verdict, judged>> /\ pc' = "hide_and_raise"     \* the sandbox raises
  /\ UNCHANGED <<trial, tree, exposed, prepared, outcome, recordVars>>

Hide ==
  /\ pc \in {"hide", "hide_and_raise"}
  /\ \/ exposed' = exposed \ {place} /\ pc' = IF pc = "hide" THEN "save" ELSE "raised"
     \/ UNCHANGED exposed /\ pc' = "raised"                         \* rmtree fails
  /\ UNCHANGED <<trial, tree, prepared, resultVars, recordVars>>

-----------------------------------------------------------------------------
(* The record                                                              *)

(* _failure_type(); "iteration" stands for what the last iteration says.   *)
FailureType ==
  CASE outcome.success /\ outcome.status = "accepted" ->
         IF verdict = "failed" THEN "false_accept" ELSE "iteration"
    [] ~outcome.success /\ outcome.visible /\ verdict = "passed" -> "false_reject"
    [] outcome.visible /\ verdict = "failed" /\ ~(outcome.success /\ outcome.status = "accepted") ->
         IF outcome.status = "rejected" THEN "semantic_rejected" ELSE "holdout_failed"
    [] OTHER -> "iteration"

(* save_trace() and build_run_record() *)
BuildRecord ==
  /\ pc = "save"
  /\ record' = [success |-> outcome.success /\ verdict # "failed", failure |-> FailureType,
                 key |-> Identity(variant)]
  /\ pc' = "cleanup"
  /\ UNCHANGED <<trial, tree, exposed, prepared, resultVars, report>>

SaveFails ==
  /\ pc = "save" /\ pc' = "raised"
  /\ UNCHANGED <<trial, tree, exposed, prepared, resultVars, recordVars>>

(* Mutant: build_runner_error() is not told about the repository mode. *)
RunnerErrorUnlabelled ==
  /\ pc \in {"agent", "raised"}
  /\ record' = [success |-> FALSE, failure |-> "runner_error", key |-> IdentityDefault(variant)]
  /\ pc' = "cleanup"
  /\ UNCHANGED <<trial, tree, exposed, prepared, resultVars, report>>

(* build_runner_error(), also when what was raised is the model, the       *)
(* sandbox or the agent itself.                                            *)
RunnerError ==
  /\ pc \in {"agent", "raised"}
  /\ record' = [success |-> FALSE, failure |-> "runner_error", key |-> Identity(variant)]
  /\ pc' = "cleanup"
  /\ UNCHANGED <<trial, tree, exposed, prepared, resultVars, report>>

-----------------------------------------------------------------------------
(* _cleanup_variant()                                                      *)

KeepPlace ==
  /\ pc = "cleanup" /\ (KeepWorkspaces \/ ~prepared)
  /\ pc' = "recorded"
  /\ UNCHANGED <<trial, tree, exposed, prepared, resultVars, recordVars>>

Cleanup ==
  /\ pc = "cleanup" /\ ~KeepWorkspaces /\ prepared
  /\ Cleared(IF HasFixture(variant) THEN "none" ELSE "baseline")
  /\ pc' = "recorded"
  /\ UNCHANGED <<trial, prepared, resultVars, recordVars>>

CleanupFails ==
  /\ pc = "cleanup" /\ ~KeepWorkspaces /\ prepared
  /\ \E t \in {tree[place], "partial"} : Put(t)
  /\ record' = [success |-> FALSE, failure |-> "cleanup_error", key |-> record.key]
  /\ pc' = "recorded"
  /\ UNCHANGED <<trial, exposed, prepared, resultVars, report>>

(* The output of a reset command is no UTF-8: UnicodeDecodeError is not    *)
(* among what cleanup() catches, and nothing above it catches anything.    *)
CleanupAborts ==
  /\ pc = "cleanup" /\ ~KeepWorkspaces /\ prepared /\ ~HasFixture(variant)
  /\ \E t \in {tree[place], "partial", "baseline"} : Put(t)
  /\ pc' = "aborted"
  /\ UNCHANGED <<trial, exposed, prepared, resultVars, recordVars>>

NextTrial ==
  /\ pc = "recorded"
  /\ report' = Append(report, [success |-> record.success, key |-> record.key])
  /\ trial' = trial + 1 /\ pc' = StepAt(trial + 1)
  /\ prepared' = FALSE /\ record' = NoRecord
  /\ outcome' = NoResult /\ judged' = "none" /\ verdict' = "none"
  /\ UNCHANGED <<tree, exposed>>

Next ==
  \/ ResetPlace \/ ResetFails \/ RemoveStale \/ CopyFixture \/ CopyFails
  \/ CommitBaseline \/ CommitFails
  \/ RunAgent \/ Materialize \/ MaterializeFails \/ Expose \/ Judge \/ Hide
  \/ BuildRecord \/ SaveFails \/ RunnerError
  \/ KeepPlace \/ Cleanup \/ CleanupFails \/ CleanupAborts \/ NextTrial

(* Every step has a time limit, the agent's run too (RepairEngine).        *)
Spec == Init /\ [][Next]_vars /\ WF_vars(Next)

-----------------------------------------------------------------------------
(* compare_reports()                                                       *)

Keys(runs) == {run.key : run \in Range(runs)}

(* _index_runs() raises ValueError for a duplicate. *)
Indexed(runs) == Cardinality(Keys(runs)) = Len(runs)

Successes(runs, keys) == {run.key : run \in {r \in Range(runs) : r.success /\ r.key \in keys}}

Comparison(before, after) ==
  LET matched == Keys(before) \cap Keys(after)
      good == Successes(before, matched)
      better == Successes(after, matched)
  IN [matched |-> matched,
      complete |-> matched # {} /\ matched = Keys(before) \cup Keys(after),
      wins |-> Cardinality(better \ good),
      losses |-> Cardinality(good \ better)]

-----------------------------------------------------------------------------
(* Properties                                                              *)

(* docs/benchmark.md: every repetition starts from a fresh baseline, and   *)
(* holdout tests are never in the agent's workspace. Whatever an earlier   *)
(* trial or an interrupted run left behind, and whatever could not be      *)
(* removed since, an agent only starts on the committed baseline.          *)
AgentSeesTheBaseline == pc = "agent" => tree[place] = "baseline" /\ place \notin exposed

(* A recorded success is one of the agent, was confirmed by the holdout    *)
(* tests of its case on the very tree the agent exported, and left nothing *)
(* behind for the trials that follow.                                      *)
SuccessIsMeasured ==
  pc = "recorded" /\ record.success =>
    /\ outcome.success
    /\ variant.case \in HoldoutCases =>
         verdict = "passed" /\ judged = IF outcome.patch THEN "candidate" ELSE "baseline"
    /\ ~KeepWorkspaces =>
         place \notin exposed /\ tree[place] = IF HasFixture(variant) THEN "none" ELSE "baseline"

(* run() ends whatever fails, with one record for every trial: its report  *)
(* can be compared with any other report of the same protocol, completely, *)
(* and against one without successes it wins as often as it succeeded.     *)
(* There is no report in one case only, where the workspace of a case      *)
(* without fixture is reset and the command's output cannot be decoded.    *)
ReportsAreComparable ==
  LET nothing == [i \in DOMAIN Variants |-> [success |-> FALSE, key |-> Identity(Variants[i])]]
      comparison == Comparison(nothing, report)
      wins == Cardinality({i \in DOMAIN report : report[i].success})
      comparable == Indexed(report) /\ comparison.complete
                      /\ comparison.losses = 0 /\ comparison.wins = wins
  IN <>(\/ pc = "finished" /\ comparable
        \/ pc = "aborted" /\ ~HasFixture(variant) /\ ~KeepWorkspaces)
=============================================================================
