------------------------ MODULE WorkspaceTransaction ------------------------
(***************************************************************************)
(* execution/workspace_transaction.py at the grain of its git commands,    *)
(* with execution/workspace_session.py and workspace.py: one temporary     *)
(* worktree from begin() to close(). Each command may succeed, fail, or    *)
(* exceed its time limit, and then its effect may or may not have          *)
(* happened. Between commands nothing runs: the engine is one thread, and  *)
(* test processes have ended. After an exception the engine only exports   *)
(* and closes.                                                             *)
(***************************************************************************)
CONSTANTS Files, Contents, Absent,
          Ignored,        \* files that .gitignore covers
          Base,           \* the starting revision
          NotExported

ASSUME TransactionAssumption ==
  /\ Absent \notin Contents
  /\ Ignored \subseteq Files
  /\ Base \in [Files -> Contents \cup {Absent}]
  /\ NotExported \notin [Files -> Contents \cup {Absent}]

VARIABLES
  pc,          \* command under way
  tree,        \* files of the worktree
  index, head, \* its index and its HEAD commit
  temp,        \* the temporary directory exists
  repo,        \* the worktree directory in it exists
  entry,       \* the repository lists the worktree
  patch,       \* what export_final_patch wrote
  saved,       \* history: content of the last checkpoint() that returned, or
               \* that raised after the commit may have landed
  before,      \* history: the tree at the start of the call under way
  failed       \* history: the git commands of _remove_worktree that failed

gitVars == <<tree, index, head>>
diskVars == <<temp, repo, entry>>
vars == <<pc, gitVars, diskVars, patch, saved, before, failed>>

Tree == [Files -> Contents \cup {Absent}]

Init ==
  /\ pc = "prepare"
  /\ tree = Base /\ index = Base /\ head = Base
  /\ temp = FALSE /\ repo = FALSE /\ entry = FALSE
  /\ patch = NotExported /\ saved = Base /\ before = Base /\ failed = {}

-----------------------------------------------------------------------------
(* Commands of git                                                         *)

Tracked(f) == index[f] # Absent

(* git add -A: everything but untracked ignored files. *)
Added == [f \in Files |-> IF f \in Ignored /\ ~Tracked(f) THEN Absent ELSE tree[f]]

(* git reset --hard HEAD leaves untracked files alone. *)
ResetTree == [f \in Files |-> IF Tracked(f) \/ head[f] # Absent THEN head[f] ELSE tree[f]]

(* git clean -fd leaves ignored files alone. *)
CleanTree == [f \in Files |-> IF Tracked(f) \/ f \in Ignored THEN tree[f] ELSE Absent]

-----------------------------------------------------------------------------
(* WorkspaceSession.prepare: inspect_workspace finds a workspace that is   *)
(* missing, not in git, without a commit, or not clean although the CLI    *)
(* requires it. Without that requirement a dirty checkout is accepted: the *)
(* worktree has the commit, not the changes.                               *)
Refuse ==
  /\ pc = "prepare" /\ pc' = "refused"
  /\ UNCHANGED <<gitVars, diskVars, patch, saved, before, failed>>

BeginAdd ==
  /\ pc = "prepare" /\ pc' = "worktree_add" /\ temp' = TRUE
  /\ UNCHANGED <<gitVars, repo, entry, patch, saved, before, failed>>

WorktreeAdd ==
  /\ pc = "worktree_add"
  /\ repo' = TRUE /\ entry' = TRUE /\ pc' \in {"idle", "no_subdir"}
  /\ UNCHANGED <<gitVars, temp, patch, saved, before, failed>>

WorktreeAddFails ==
  /\ pc = "worktree_add"
  /\ temp' = FALSE /\ pc' = "refused"
  /\ UNCHANGED <<gitVars, repo, entry, patch, saved, before, failed>>

(* The selected directory is not part of the revision. An error of         *)
(* _remove_worktree is ignored here, and so is that of git worktree prune: *)
(* the entry may outlive a removal that fails.                             *)
NoSubdirectory ==
  /\ pc = "no_subdir"
  /\ failed' \in SUBSET {"remove", "prune"}
  /\ entry' \in BOOLEAN /\ (entry' => "remove" \in failed')
  /\ repo' = FALSE /\ temp' = FALSE /\ pc' = "refused"
  /\ UNCHANGED <<gitVars, patch, saved, before>>

(* A time-out of git, or an error of rmtree. _temporary_root is not set    *)
(* yet, so that close() has nothing to remove.                             *)
BeginRaises ==
  /\ pc \in {"worktree_add", "no_subdir"}
  /\ repo' \in BOOLEAN /\ entry' \in BOOLEAN /\ pc' = "begin_raised"
  /\ UNCHANGED <<gitVars, temp, patch, saved, before, failed>>

-----------------------------------------------------------------------------
(* The engine's calls. *)

(* An edit, and what test runs write: any file. *)
Write ==
  /\ pc = "idle"
  /\ \E f \in Files, c \in Contents \cup {Absent} : tree' = [tree EXCEPT ![f] = c]
  /\ UNCHANGED <<pc, index, head, diskVars, patch, saved, before, failed>>

Call(first) ==
  /\ pc = "idle" /\ pc' = first /\ before' = tree
  /\ UNCHANGED <<gitVars, diskVars, patch, saved, failed>>

(* The command under way succeeds with the given effect. *)
Command(at, effect, next) ==
  /\ pc = at /\ effect /\ pc' = next
  /\ UNCHANGED <<diskVars, patch, before, failed>>

(* Mutant: git add without -A, which leaves new files alone. *)
StageTracked ==
  Command("add", /\ index' = [f \in Files |-> IF Tracked(f) THEN tree[f] ELSE Absent]
                 /\ UNCHANGED <<tree, head, saved>>, "diff_cached")

(* checkpoint() *)
StageAll ==
  Command("add", index' = Added /\ UNCHANGED <<tree, head, saved>>, "diff_cached")

NothingStaged ==
  Command("diff_cached", index = head /\ UNCHANGED <<gitVars, saved>>, "rev_parse")

SomethingStaged ==
  Command("diff_cached", index # head /\ UNCHANGED <<gitVars, saved>>, "commit")

Commit ==
  Command("commit", head' = index /\ saved' = index /\ UNCHANGED <<tree, index>>, "rev_parse")

(* _head(): a failure yields None, not an error. *)
ReadHead == Command("rev_parse", UNCHANGED <<gitVars, saved>>, "idle")

(* rollback() *)
Reset ==
  Command("reset", tree' = ResetTree /\ index' = head /\ UNCHANGED <<head, saved>>, "clean")

(* Mutant: git clean is left out. *)
CleanNothing == Command("clean", UNCHANGED <<gitVars, saved>>, "idle")

Clean ==
  Command("clean", tree' = CleanTree /\ UNCHANGED <<index, head, saved>>, "idle")

(* A return code that is checked raises RuntimeError: no effect. *)
CommandFails ==
  /\ pc \in {"add", "diff_cached", "commit", "reset", "clean"}
  /\ pc' = "ending"
  /\ UNCHANGED <<gitVars, diskVars, patch, saved, before, failed>>

(* TimeoutExpired: git was killed before or after it took effect. *)
CommandExpires ==
  /\ pc \in {"add", "diff_cached", "commit", "rev_parse", "reset", "clean"}
  /\ \/ UNCHANGED <<gitVars, saved>>
     \/ pc = "add" /\ index' = Added /\ UNCHANGED <<tree, head, saved>>
     \/ pc = "commit" /\ head' = index /\ saved' = index /\ UNCHANGED <<tree, index>>
     \/ pc = "reset" /\ index' = head /\ UNCHANGED <<head, saved>>
                     /\ tree' \in {[f \in Files |-> IF f \in done THEN ResetTree[f] ELSE tree[f]] :
                                     done \in SUBSET Files}
     \/ pc = "clean" /\ UNCHANGED <<index, head, saved>>
                     /\ tree' \in {[f \in Files |-> IF f \in done THEN CleanTree[f] ELSE tree[f]] :
                                     done \in SUBSET Files}
  /\ pc' = "ending"
  /\ UNCHANGED <<diskVars, patch, before, failed>>

-----------------------------------------------------------------------------
(* The end of the run *)

(* Mutant: the patch is taken from the files of the worktree. *)
ExportTree ==
  /\ pc \in {"idle", "ending"} /\ pc' = "exported"
  /\ patch' = tree
  /\ UNCHANGED <<gitVars, diskVars, saved, before, failed>>

(* export_final_patch: the diff from the starting revision to HEAD, here   *)
(* the content it leads to.                                                *)
Export ==
  /\ pc \in {"idle", "ending"} /\ pc' = "exported"
  /\ patch' = head
  /\ UNCHANGED <<gitVars, diskVars, saved, before, failed>>

(* git diff fails, or the patch file cannot be written; the engine does    *)
(* not close then (see RepairEngine.ExportFails).                          *)
ExportFails ==
  /\ pc \in {"idle", "ending"} /\ pc' = "raised"
  /\ UNCHANGED <<gitVars, diskVars, patch, saved, before, failed>>

(* close() and _remove_worktree *)
WorktreeRemove ==
  /\ pc = "exported" /\ repo' = FALSE /\ entry' = FALSE /\ pc' = "prune"
  /\ UNCHANGED <<gitVars, temp, patch, saved, before, failed>>

(* It may have removed the files or the entry. *)
WorktreeRemoveFails ==
  /\ pc = "exported" /\ repo' \in BOOLEAN /\ entry' \in BOOLEAN /\ pc' = "prune"
  /\ failed' = failed \cup {"remove"}
  /\ UNCHANGED <<gitVars, temp, patch, saved, before>>

(* A failed removal is an error of close() only if the directory is there. *)
Pruned == pc' = IF repo THEN "erase_and_raise" ELSE "erase"

(* Mutant: no prune. *)
PruneNothing ==
  /\ pc = "prune" /\ Pruned
  /\ UNCHANGED <<gitVars, diskVars, patch, saved, before, failed>>

(* git worktree prune drops the entry of a directory that is gone. *)
Prune ==
  /\ pc = "prune" /\ entry' = (entry /\ repo) /\ Pruned
  /\ UNCHANGED <<gitVars, temp, repo, patch, saved, before, failed>>

(* Its exit status is ignored. *)
PruneFails ==
  /\ pc = "prune" /\ Pruned
  /\ failed' = failed \cup {"prune"}
  /\ UNCHANGED <<gitVars, diskVars, patch, saved, before>>

Erase ==
  /\ pc \in {"erase", "erase_and_raise"}
  /\ temp' = FALSE /\ repo' = FALSE
  /\ pc' = IF pc = "erase" THEN "closed" ELSE "raised"
  /\ UNCHANGED <<gitVars, entry, patch, saved, before, failed>>

(* A time-out of either command, or an error of rmtree. *)
CloseRaises ==
  /\ pc \in {"exported", "prune", "erase", "erase_and_raise"} /\ pc' = "raised"
  /\ repo' \in {repo, FALSE} /\ entry' \in {entry, FALSE}
  /\ UNCHANGED <<gitVars, temp, patch, saved, before, failed>>

Over == {"refused", "begin_raised", "closed", "raised"}

Terminated == pc \in Over /\ UNCHANGED vars

Next ==
  \/ Refuse \/ BeginAdd \/ WorktreeAdd \/ WorktreeAddFails \/ NoSubdirectory \/ BeginRaises
  \/ Write \/ Call("add") \/ Call("reset")
  \/ StageAll \/ NothingStaged \/ SomethingStaged \/ Commit \/ ReadHead \/ Reset \/ Clean
  \/ CommandFails \/ CommandExpires
  \/ Export \/ ExportFails
  \/ WorktreeRemove \/ WorktreeRemoveFails \/ Prune \/ PruneFails \/ Erase \/ CloseRaises
  \/ Terminated

Spec == Init /\ [][Next]_vars

-----------------------------------------------------------------------------
(* Properties                                                              *)

Pcs == {"prepare", "worktree_add", "no_subdir", "idle", "add", "diff_cached", "commit",
        "rev_parse", "reset", "clean", "ending", "exported", "prune", "erase",
        "erase_and_raise"} \cup Over

(* While the transaction is open there is a worktree to work in. *)
TypeOK ==
  /\ pc \in Pcs
  /\ pc \notin {"prepare", "worktree_add", "prune", "erase", "erase_and_raise"} \cup Over
       => temp /\ repo /\ entry
  /\ tree \in Tree /\ index \in Tree /\ head \in Tree
  /\ saved \in Tree /\ before \in Tree
  /\ temp \in BOOLEAN /\ repo \in BOOLEAN /\ entry \in BOOLEAN
  /\ patch \in Tree \cup {NotExported}
  /\ failed \subseteq {"remove", "prune"}

(* The exported patch is that of the last checkpoint, whatever was edited, *)
(* staged, half reset or half cleaned when a command failed.               *)
ExportIsLastCheckpoint == patch # NotExported => patch = saved

(* Files that are not ignored, as the engine sees them. *)
Visible(t) == [f \in Files |-> IF f \in Ignored THEN Absent ELSE t[f]]

(* When checkpoint() returns, HEAD holds every file there was when it was  *)
(* called, those the tests wrote included and only ignored ones excepted,  *)
(* whether or not there was anything to commit; and when either call       *)
(* returns, nothing is half staged and HEAD is the last checkpoint.        *)
CallsAreWhole ==
  [][pc' = "idle" /\ pc \in {"rev_parse", "clean"} =>
       /\ index' = head' /\ head' = saved'
       /\ pc = "rev_parse" => tree' = before /\ Visible(head') = Visible(before)]_vars

(* When rollback() returns, the files that are not ignored are those of    *)
(* the last checkpoint, whatever edits and tests had written since.        *)
RollbackRestores ==
  [][pc = "clean" /\ pc' = "idle" => Visible(tree') = Visible(saved)]_vars

(* close() without an error leaves neither directory behind, not even if   *)
(* git worktree remove failed half way, and git's entry for the worktree   *)
(* only if both git worktree remove and the prune after it failed. begin() *)
(* that fails by itself leaves no directory either, and no entry unless    *)
(* the removal failed. What a time-out of begin() leaves stays.            *)
NothingIsLeftBehind ==
  /\ pc \in {"refused", "closed"} => ~temp /\ ~repo
  /\ pc = "closed" /\ entry => failed = {"remove", "prune"}
  /\ pc = "refused" /\ entry => "remove" \in failed

(* How far a call of the contract is. *)
Phase ==
  IF pc \in {"prepare", "worktree_add", "no_subdir"} THEN "none"
  ELSE IF pc = "idle" THEN "open"
  ELSE IF pc \in {"add", "diff_cached", "commit", "rev_parse"} THEN "saving"
  ELSE IF pc \in {"reset", "clean"} THEN "restoring"
  ELSE IF pc \in Over THEN "over"
  ELSE "ending"

(* The transaction is the atomic one that RepairEngine assumes.            *)
Contract == INSTANCE TransactionContract WITH
  Tree <- {Visible(t) : t \in Tree},
  BaseTree <- Visible(Base),
  Nothing <- NotExported,
  phase <- Phase,
  work <- Visible(IF pc \in {"reset", "clean"} THEN before ELSE tree),
  saved <- Visible(head),
  out <- IF patch = NotExported THEN patch ELSE Visible(patch)

ImplementsContract == Contract!Spec
=============================================================================
