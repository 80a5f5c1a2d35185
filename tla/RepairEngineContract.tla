------------------------ MODULE RepairEngineContract ------------------------
(***************************************************************************)
(* RepairEngine, in isolated runs, implements RepairContract: HEAD of the  *)
(* temporary worktree is the content kept, and the run holds a candidate   *)
(* once visible_success is set and HEAD passes.                            *)
(***************************************************************************)
EXTENDS RepairEngine

PassingContent == {c \in Content : Passes(c)}

Verdict ==
  IF pc = "raised" THEN "aborted"
  ELSE IF pc # "done" THEN "open"
  ELSE IF Status = "passed" THEN "success"
  ELSE IF Status = "error" THEN "failed"
  ELSE Status

Contract ==
  INSTANCE RepairContract
    WITH Passing   <- PassingContent,
         kept      <- head,
         holding   <- visible /\ Passes(head),
         verdict   <- Verdict,
         delivered <- IF pc = "done" THEN Patched(report.candidate) ELSE Original

(* Every run of the engine is a run the contract allows: what it keeps     *)
(* never degrades after a visible pass, and what it hands over with a      *)
(* verdict is what it kept.                                                *)
ImplementsContract == Contract!ContractSpec
=============================================================================
