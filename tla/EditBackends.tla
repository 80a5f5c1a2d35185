---------------------------- MODULE EditBackends ----------------------------
(***************************************************************************)
(* repair/backends/patch.py and replacement.py: one edit of the worktree,  *)
(* from the model's output to the ApplyResult that RepairEngine acts on.   *)
(* Files are written one by one, and any write or git command may fail.    *)
(***************************************************************************)
EXTENDS PatchTools

CONSTANTS Base,          \* content of each file before the edit
          EditLists,     \* replacements the model may propose
          RawPatches,    \* patches the model may propose
          Texts,         \* texts to compare the search with the reference on
          GitFails       \* git commands may exceed their time limit

(* Texts and patches are sequences, of characters and of blocks.           *)
ASSUME BackendAssumption ==
  /\ Base = [f \in Path |-> Base[f]]
  /\ \A patch \in RawPatches : IsSequence(patch.blocks)
  /\ \A text \in Texts : IsSequence(text)
  /\ \A edits \in EditLists : \A n \in DOMAIN edits : IsSequence(edits[n].old)

VARIABLES
  pc,          \* step of the backend
  tree,        \* files of the worktree
  proposal,    \* [mode, edits, patch]: the model's output
  planned,     \* planned_changes
  unwritten,   \* files of planned_changes still to be written
  result       \* the ApplyResult, in RetryPolicy's terms

backendVars == <<pc, tree, proposal, planned, unwritten, result>>

NoResult == [mode |-> "none"]

Proposals ==
  [mode : {"replacement"}, edits : EditLists, patch : {NoPatchText}]
    \cup [mode : {"patch"}, edits : {<<>>}, patch : RawPatches]

BackendInit ==
  /\ pc = "apply" /\ tree = Base
  /\ proposal \in Proposals
  /\ planned = Base /\ unwritten = {} /\ result = NoResult

Finish(stage, lost) ==
  /\ result' = [mode |-> proposal.mode, stage |-> stage, lost |-> lost,
                touched |-> stage \in {"diff", "ok"}]
  /\ pc' = IF stage = "ok" THEN "edited" ELSE "refused"

-----------------------------------------------------------------------------
(* ReplacementBackend.apply *)

ParseFails ==
  /\ pc = "apply" /\ proposal.mode = "replacement"
  /\ \E n \in DOMAIN proposal.edits : ~WellFormedEdit(proposal.edits[n])
  /\ Finish("parse", FALSE)
  /\ UNCHANGED <<tree, proposal, planned, unwritten>>

Parses ==
  /\ pc = "apply" /\ proposal.mode = "replacement"
  /\ \A n \in DOMAIN proposal.edits : WellFormedEdit(proposal.edits[n])

(* Mutant: each edit is written before the next is looked at. *)
PlanFailsLate ==
  /\ Parses
  /\ Planned(tree, proposal.edits).error # "none"
  /\ Finish("apply", Planned(tree, proposal.edits).error = "lost")
  /\ tree' = Plan(tree, proposal.edits).files
  /\ UNCHANGED <<proposal, planned, unwritten>>

PlanFails ==
  /\ Parses
  /\ Planned(tree, proposal.edits).error # "none"
  /\ Finish("apply", Planned(tree, proposal.edits).error = "lost")
  /\ UNCHANGED <<tree, proposal, planned, unwritten>>

PlanEdits ==
  /\ Parses
  /\ Planned(tree, proposal.edits).error = "none"
  /\ planned' = Planned(tree, proposal.edits).files
  /\ unwritten' = EditPaths(proposal.edits)
  /\ pc' = "write"
  /\ UNCHANGED <<tree, proposal, result>>

WriteFile ==
  /\ pc = "write" /\ unwritten # {}
  /\ \E f \in unwritten :
       /\ tree' = [tree EXCEPT ![f] = planned[f]]
       /\ unwritten' = unwritten \ {f}
  /\ UNCHANGED <<pc, proposal, planned, result>>

(* An OSError of a write, or of removing stale bytecode after it. *)
WriteFails ==
  /\ pc = "write" /\ unwritten # {}
  /\ Finish("apply", FALSE)
  /\ \E f \in unwritten : tree' \in {tree, [tree EXCEPT ![f] = planned[f]]}
  /\ UNCHANGED <<proposal, planned, unwritten>>

Written ==
  /\ pc = "write" /\ unwritten = {} /\ pc' = "diff"
  /\ UNCHANGED <<tree, proposal, planned, unwritten, result>>

-----------------------------------------------------------------------------
(* PatchBackend.apply: save, check, apply *)

CheckFails ==
  /\ pc = "apply" /\ proposal.mode = "patch"
  /\ GitFails \/ ~Accepted(tree, Clean(proposal.patch))
  /\ Finish("check", FALSE)
  /\ UNCHANGED <<tree, proposal, planned, unwritten>>

ApplyPatch ==
  /\ pc = "apply" /\ proposal.mode = "patch"
  /\ Accepted(tree, Clean(proposal.patch))
  /\ tree' = GitApply(tree, Clean(Clean(proposal.patch))).files
  /\ pc' = "diff"
  /\ UNCHANGED <<proposal, planned, unwritten, result>>

(* git apply exceeds its time limit, perhaps half way. *)
ApplyExpires ==
  /\ pc = "apply" /\ proposal.mode = "patch" /\ GitFails
  /\ Accepted(tree, Clean(proposal.patch))
  /\ tree' \in ApplyKilled(tree, Clean(Clean(proposal.patch)))
  /\ Finish("apply", FALSE)
  /\ UNCHANGED <<proposal, planned, unwritten>>

(* get_git_diff(), then the patch file is written *)
DiffTaken ==
  /\ pc = "diff"
  /\ Finish("ok", FALSE)
  /\ UNCHANGED <<tree, proposal, planned, unwritten>>

DiffFails ==
  /\ pc = "diff" /\ GitFails
  /\ Finish("diff", FALSE)
  /\ UNCHANGED <<tree, proposal, planned, unwritten>>

BackendNext ==
  \/ ParseFails \/ PlanFails \/ PlanEdits \/ WriteFile \/ WriteFails \/ Written
  \/ CheckFails \/ ApplyPatch \/ ApplyExpires
  \/ DiffTaken \/ DiffFails

-----------------------------------------------------------------------------
(* Properties                                                              *)

Engine == INSTANCE RetryPolicy

(* RepairEngine's picture of an edit is right: the result is one it knows, *)
(* and unless it says "applied" or failed while applying, the worktree is  *)
(* untouched, although edits before the failing one could be applied.      *)
ResultsMatchEngine ==
  result # NoResult =>
    /\ result \in Engine!ApplyResult
    /\ ~result.touched /\ (result.stage # "apply" \/ result.lost) => tree = Base

(* However an edit fails half way, it changes allowed files only, and no   *)
(* more of them than max_files.                                            *)
OnlyAllowedEdited ==
  pc \in {"apply", "write", "diff", "refused"} =>
    PathsAllowed({f \in Path : tree[f] # Base[f]})

(* Whatever text is searched, a place is chosen exactly if it is unique or *)
(* uniquely nearest.                                                       *)
PlacesAreExact ==
  pc = "apply" => \A text \in Texts : \A n \in DOMAIN proposal.edits :
                     WellFormedEdit(proposal.edits[n]) => PlaceIsExact(text, proposal.edits[n])
=============================================================================
