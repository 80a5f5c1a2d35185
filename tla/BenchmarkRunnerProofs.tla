------------------------ MODULE BenchmarkRunnerProofs ------------------------
(***************************************************************************)
(* Theorems about BenchmarkRunner for every list of cases and every        *)
(* combination of failures: where an agent starts, what a recorded success *)
(* was measured on, and that each trial has one record. That the loop ends *)
(* is left to model checking.                                              *)
(***************************************************************************)
EXTENDS BenchmarkRunner, TLAPS, SequenceTheorems

-----------------------------------------------------------------------------
(* The inductive invariant                                                 *)

Trees == {"none", "partial", "copied", "baseline", "candidate"}

Steps == {"prepare", "copy", "commit", "agent", "materialize", "expose", "judge", "hide",
          "hide_and_raise", "raised", "save", "cleanup", "recorded", "aborted", "finished"}

Typed ==
  /\ pc \in Steps
  /\ tree \in [Places -> Trees] /\ exposed \subseteq Places
  /\ pc # "finished" => trial \in DOMAIN Variants
  /\ outcome \in Outcomes

(* The tree as the agent's candidate leaves it. *)
Exported == IF outcome.visible /\ outcome.patch THEN "candidate" ELSE "baseline"

(* The place of the trial under way, step by step. *)
Fresh ==
  /\ pc \in {"copy", "commit", "agent", "materialize", "expose"} => place \notin exposed
  /\ pc \in {"agent", "materialize"} => tree[place] = "baseline"
  /\ pc \in {"expose", "judge", "hide", "hide_and_raise", "save"} => tree[place] = Exported
  /\ pc = "save" => place \notin exposed

(* What the holdout tests said, and of which tree. *)
Measured ==
  /\ pc \in {"agent", "materialize", "expose", "judge", "hide", "hide_and_raise", "save"} => prepared
  /\ pc = "hide" => verdict \in {"passed", "failed"} /\ judged = Exported
  /\ pc \in {"expose", "judge", "hide", "hide_and_raise"} => variant.case \in HoldoutCases
  /\ pc = "save" /\ variant.case \in HoldoutCases =>
       verdict \in {"passed", "failed"} /\ judged = Exported

(* What a record of a success stands for. *)
Recorded ==
  pc \in {"cleanup", "recorded"} =>
    /\ record.key = Identity(variant)
    /\ record.success \in BOOLEAN
    /\ record.success =>
         /\ outcome.success /\ prepared
         /\ variant.case \in HoldoutCases => verdict = "passed" /\ judged = Exported
    /\ pc = "recorded" /\ record.success /\ ~KeepWorkspaces =>
         /\ place \notin exposed
         /\ tree[place] = IF HasFixture(variant) THEN "none" ELSE "baseline"

(* One record for each trial, in the order of the trials. *)
OneRecordEach ==
  /\ report \in Seq([success : BOOLEAN, key : {Identity(Variants[i]) : i \in DOMAIN Variants}])
  /\ trial \in Nat /\ Len(report) = trial - 1
  /\ \A i \in DOMAIN report : report[i].key = Identity(Variants[i])

IInv == Typed /\ Fresh /\ Measured /\ Recorded

-----------------------------------------------------------------------------
(* Lemmas                                                                  *)

LEMMA PlaceIsOne ==
  ASSUME trial \in DOMAIN Variants
  PROVE  place \in Places
BY DEF place, variant, Places, Range

(* An agent that succeeds has passed the visible tests. *)
LEMMA SuccessIsVisible ==
  ASSUME NEW o \in Outcomes
  PROVE  /\ o.success \in BOOLEAN /\ o.visible \in BOOLEAN /\ o.patch \in BOOLEAN
         /\ o.success => o.visible
<1> DEFINE Good(r) == /\ r.success \in BOOLEAN /\ r.visible \in BOOLEAN /\ r.patch \in BOOLEAN
                      /\ r.success => r.visible
<1>1. \A s, v, p \in BOOLEAN : \A status : (s => v) => Good(Result(s, v, p, status))
  BY DEF Result
<1>2. \E s, v, p \in BOOLEAN : \E status : (s => v) /\ o = Result(s, v, p, status)
  BY Zenon DEF Outcomes, NoResult
<1> HIDE DEF Good
<1>3. Good(o)
  BY <1>1, <1>2, Zenon
<1> QED
  BY <1>3 DEF Good

LEMMA InitIInv == Init => IInv
<1> SUFFICES ASSUME Init PROVE IInv
  OBVIOUS
<1> USE DEF Init, StepAt
<1>1. Typed
  BY DEF Typed, Steps, Trees, Outcomes, NoResult
<1>2. Fresh /\ Measured /\ Recorded
  BY DEF Fresh, Measured, Recorded
<1> QED
  BY <1>1, <1>2 DEF IInv

LEMMA NextIInv ==
  ASSUME IInv, [Next]_vars
  PROVE  IInv'
<1> USE DEF IInv, Typed, Fresh, Measured, Recorded, Steps, Trees, resultVars, recordVars
<1>0. pc # "finished" => place \in Places
  BY PlaceIsOne
<1>01. outcome \in Outcomes
  OBVIOUS
<1>1. CASE ResetPlace \/ ResetFails
  <2>1. place' = place /\ variant' = variant /\ Exported' = Exported
    BY <1>1 DEF ResetPlace, ResetFails, Cleared, Put, place, variant, Exported
  <2> QED
    BY <1>0, <1>1, <2>1 DEF ResetPlace, ResetFails, Cleared, Put
<1>2. CASE RemoveStale \/ CopyFixture \/ CopyFails
  <2>1. place' = place /\ variant' = variant /\ Exported' = Exported
    BY <1>2 DEF RemoveStale, CopyFixture, CopyFails, Cleared, Put, place, variant, Exported
  <2> QED
    BY <1>0, <1>2, <2>1 DEF RemoveStale, CopyFixture, CopyFails, Cleared, Put
<1>3. CASE CommitBaseline \/ CommitFails
  <2>1. place' = place /\ variant' = variant /\ Exported' = Exported
    BY <1>3 DEF CommitBaseline, CommitFails, Put, place, variant, Exported
  <2> QED
    BY <1>0, <1>3, <2>1 DEF CommitBaseline, CommitFails, Put
<1>4. CASE RunAgent
  <2>1. place' = place /\ variant' = variant
    BY <1>4 DEF RunAgent, place, variant
  <2> QED
    BY <1>0, <1>4, <2>1 DEF RunAgent
<1>5. CASE Materialize \/ MaterializeFails
  <2>1. place' = place /\ variant' = variant /\ Exported' = Exported
    BY <1>5 DEF Materialize, MaterializeFails, Put, place, variant, Exported
  <2>2. CASE Materialize
    BY <1>0, <2>1, <2>2 DEF Materialize, Put, Exported
  <2>3. CASE MaterializeFails
    BY <1>0, <2>1, <2>3 DEF MaterializeFails, Put
  <2> QED
    BY <1>5, <2>2, <2>3
<1>6. CASE Expose \/ Judge \/ Hide
  <2>1. place' = place /\ variant' = variant /\ Exported' = Exported
    BY <1>6 DEF Expose, Judge, Hide, place, variant, Exported
  <2>2. CASE Expose
    BY <1>0, <2>1, <2>2 DEF Expose
  <2>3. CASE Judge
    BY <1>0, <2>1, <2>3 DEF Judge
  <2>4. CASE Hide
    BY <1>0, <2>1, <2>4 DEF Hide
  <2> QED
    BY <1>6, <2>2, <2>3, <2>4
<1>7. CASE BuildRecord \/ SaveFails \/ RunnerError
  <2>1. place' = place /\ variant' = variant /\ Exported' = Exported
    BY <1>7 DEF BuildRecord, SaveFails, RunnerError, place, variant, Exported
  <2>2. outcome.success \in BOOLEAN
    BY <1>01, SuccessIsVisible
  <2>3. CASE BuildRecord
    BY <1>0, <2>1, <2>2, <2>3 DEF BuildRecord
  <2>4. CASE SaveFails
    BY <1>0, <2>1, <2>4 DEF SaveFails
  <2>5. CASE RunnerError
    BY <1>0, <2>1, <2>5 DEF RunnerError
  <2> QED
    BY <1>7, <2>3, <2>4, <2>5
<1>8. CASE KeepPlace \/ Cleanup \/ CleanupFails \/ CleanupAborts
  <2>1. place' = place /\ variant' = variant /\ Exported' = Exported
    BY <1>8 DEF KeepPlace, Cleanup, CleanupFails, CleanupAborts, Cleared, Put, place, variant,
       Exported
  <2>2. CASE KeepPlace
    BY <1>0, <2>1, <2>2 DEF KeepPlace
  <2>3. CASE Cleanup
    BY <1>0, <2>1, <2>3 DEF Cleanup, Cleared, Put
  <2>4. CASE CleanupFails
    BY <1>0, <2>1, <2>4 DEF CleanupFails, Put
  <2>5. CASE CleanupAborts
    BY <1>0, <2>1, <2>5 DEF CleanupAborts, Put
  <2> QED
    BY <1>8, <2>2, <2>3, <2>4, <2>5
<1>9. CASE NextTrial
  <2>1. NoResult \in Outcomes
    BY DEF Outcomes
  <2> QED
    BY <1>9, <2>1 DEF NextTrial, StepAt
<1>10. CASE UNCHANGED vars
  BY <1>10 DEF vars, place, variant, Exported
<1> QED
  BY <1>1, <1>2, <1>3, <1>4, <1>5, <1>6, <1>7, <1>8, <1>9, <1>10 DEF Next

LEMMA Invariance == Spec => []IInv
BY InitIInv, NextIInv, PTL DEF Spec

-----------------------------------------------------------------------------
(* Theorems                                                                *)

(* IsolatedWorkspaceFactory.prepare() and _run_prepared_workspace(): an    *)
(* agent only starts on a committed baseline without holdout tests.        *)
THEOREM AgentStartsFresh == Spec => []AgentSeesTheBaseline
<1>1. IInv => AgentSeesTheBaseline
  BY DEF IInv, Fresh, AgentSeesTheBaseline
<1> QED
  BY <1>1, Invariance, PTL

(* build_run_record() and _cleanup_variant(): a success that is recorded   *)
(* was measured on the tree the agent exported, and left nothing behind.   *)
THEOREM SuccessMeasured == Spec => []SuccessIsMeasured
<1>1. IInv => SuccessIsMeasured
  BY SuccessIsVisible DEF IInv, Typed, Recorded, SuccessIsMeasured, Exported
<1> QED
  BY <1>1, Invariance, PTL

(* run(): whatever fails, there is exactly one record for each trial that  *)
(* is over, under the identity of that trial, and in their order.          *)
THEOREM TrialsAreRecorded == Spec => []OneRecordEach
<1>1. Init => OneRecordEach
  BY DEF Init, OneRecordEach
<1>2. IInv /\ OneRecordEach /\ [Next]_vars => OneRecordEach'
  <2> SUFFICES ASSUME IInv, OneRecordEach, [Next]_vars PROVE OneRecordEach'
    OBVIOUS
  <2>1. CASE NextTrial
    <3> DEFINE R == [success : BOOLEAN, key : {Identity(Variants[i]) : i \in DOMAIN Variants}]
               r == [success |-> record.success, key |-> record.key]
    <3>1. r \in R /\ r.key = Identity(Variants[trial])
      BY <2>1 DEF NextTrial, IInv, Typed, Recorded, variant
    <3>2. report \in Seq(R) /\ report' = Append(report, r) /\ trial' = trial + 1
      BY <2>1 DEF NextTrial, OneRecordEach
    <3>3. /\ report' \in Seq(R) /\ Len(report') = Len(report) + 1
          /\ DOMAIN report' = 1..Len(report')
          /\ \A i \in 1..Len(report) : report'[i] = report[i]
          /\ report'[Len(report) + 1] = r
      BY <3>1, <3>2, AppendProperties
    <3>4. trial \in Nat /\ Len(report) = trial - 1 /\ Len(report) \in Nat
          /\ \A i \in 1..Len(report) : report[i].key = Identity(Variants[i])
      BY <3>2 DEF OneRecordEach
    <3>5. trial' \in Nat /\ Len(report') = trial' - 1
      BY <3>2, <3>3, <3>4
    <3>6. \A i \in DOMAIN report' : report'[i].key = Identity(Variants[i])
      BY <3>1, <3>3, <3>4
    <3> QED
      BY <3>3, <3>5, <3>6 DEF OneRecordEach
  <2>2. CASE UNCHANGED <<report, trial>>
    BY <2>2 DEF OneRecordEach
  <2> QED
    BY <2>1, <2>2 DEF Next, vars, recordVars, ResetPlace, ResetFails, RemoveStale, CopyFixture,
       CopyFails, CommitBaseline, CommitFails, RunAgent, Materialize, MaterializeFails, Expose,
       Judge, Hide, BuildRecord, SaveFails, RunnerError, KeepPlace, Cleanup, CleanupFails,
       CleanupAborts
<1> QED
  BY <1>1, <1>2, Invariance, PTL DEF Spec
=============================================================================
