---------------------------- MODULE TestEvidence ----------------------------
(***************************************************************************)
(* What a run of the visible test commands tells the repair engine:        *)
(* execution/test_runner.py runs the configured commands in order and      *)
(* stops at the first that fails; context/pytest_summary.py reads the      *)
(* "FAILED <node>" lines of the joined output; trace.py compares two such  *)
(* readings and names the outcome of an attempt.                           *)
(*                                                                         *)
(* A repository content is abstracted to what its tests do: whether pytest *)
(* gets as far as running them, and which of them fail.                    *)
(***************************************************************************)
EXTENDS Naturals, Sequences

CONSTANTS Node,      \* test node ids
          Content,   \* the contents the workspace may have
          Commands,  \* the configured test commands: the nodes each one runs
          Fails,     \* Fails[c]: the nodes that fail when they run on c
          Collects   \* Collects[c]: pytest collects the tests of c

ASSUME EvidenceAssumption ==
  /\ Commands \in Seq(SUBSET Node)
  /\ Commands # << >>
  /\ Fails \in [Content -> SUBSET Node]
  /\ Collects \in [Content -> BOOLEAN]

(* A command exits nonzero when collection fails or one of its tests does. *)
CommandFails(c, k) == ~Collects[c] \/ Commands[k] \cap Fails[c] # {}

Passes(c) == \A k \in DOMAIN Commands : ~CommandFails(c, k)

(* The loop over the commands breaks at the first nonzero exit code. *)
FirstFailing(c) ==
  CHOOSE k \in DOMAIN Commands :
    CommandFails(c, k) /\ \A j \in 1..(k - 1) : ~CommandFails(c, j)

(* The nodes on FAILED lines. A collection error prints ERROR lines only,  *)
(* and the commands after the first failing one never run.                 *)
Printed(c) ==
  IF Passes(c) \/ ~Collects[c] THEN {} ELSE Commands[FirstFailing(c)] \cap Fails[c]

-----------------------------------------------------------------------------

Exits == {"ok", "failed", "timeout", "infrastructure"}

Run == [exit : Exits, printed : SUBSET Node]

Completed(c) == [exit |-> IF Passes(c) THEN "ok" ELSE "failed", printed |-> Printed(c)]

(* Any run may hit its time limit (exit 124, killed before the summary) or *)
(* fail outside the tests (infrastructure_error).                          *)
Runs(c) == {Completed(c)} \cup [exit : {"timeout", "infrastructure"}, printed : {{}}]

-----------------------------------------------------------------------------

FailureDelta(before, after) ==
  [fixed |-> before \ after, remaining |-> before \cap after, new |-> after \ before]

(* Mutant: a fixed test hides a new failure. *)
FailureTypeFixedFirst(run, before) ==
  LET delta == FailureDelta(before, run.printed)
  IN  IF run.exit = "ok" THEN "success"
      ELSE IF run.exit = "timeout" THEN "timeout"
      ELSE IF delta.fixed # {} THEN "incomplete_fix"
      ELSE IF delta.new # {} THEN "regression"
      ELSE "no_progress"

(* failure_type of an attempt that was applied and tested. *)
FailureType(run, before) ==
  LET delta == FailureDelta(before, run.printed)
  IN  IF run.exit = "ok" THEN "success"
      ELSE IF run.exit = "timeout" THEN "timeout"
      ELSE IF delta.new # {} THEN "regression"
      ELSE IF delta.fixed # {} THEN "incomplete_fix"
      ELSE "no_progress"

-----------------------------------------------------------------------------

(* Not in the code: the tests that do not pass on c, whatever is printed.  *)
(* The properties compare contents by it.                                  *)
NotPassing(c) ==
  LET selected == UNION {Commands[k] : k \in DOMAIN Commands}
  IN  IF Collects[c] THEN selected \cap Fails[c] ELSE selected
=============================================================================
