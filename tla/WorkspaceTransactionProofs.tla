---------------------- MODULE WorkspaceTransactionProofs ----------------------
(***************************************************************************)
(* Theorems about WorkspaceTransaction for any files, contents, ignored    *)
(* files and starting revision.                                            *)
(***************************************************************************)
EXTENDS WorkspaceTransaction, TLAPS

(* The same files, apart from ignored ones. *)
Same(s, t) == \A f \in Files \ Ignored : s[f] = t[f]

(* What each command of a call may rely on after the one before it. *)
Staged ==
  /\ head = saved
  /\ pc \in {"prepare", "worktree_add", "idle", "add", "rev_parse", "reset", "clean"}
       => index = head
  /\ pc \in {"diff_cached", "commit"} => Same(index, tree)
  /\ pc \in {"add", "diff_cached", "commit", "rev_parse"} => tree = before
  /\ pc = "rev_parse" => Same(head, tree)
  /\ pc = "clean" => \A f \in Files : head[f] # Absent => tree[f] = head[f]

(* No patch before the end, and then that of the last checkpoint. *)
Exported ==
  /\ pc \notin {"exported", "prune", "erase", "erase_and_raise"} \cup Over => patch = NotExported
  /\ ExportIsLastCheckpoint

(* What is on disk after each step of begin() and close(). *)
Disk ==
  /\ pc = "prepare" => ~temp /\ ~repo /\ ~entry
  /\ pc = "worktree_add" => temp /\ ~repo /\ ~entry
  /\ pc \notin {"prune", "erase", "erase_and_raise"} \cup Over => failed = {}
  /\ pc = "prune" /\ entry => failed = {"remove"}
  /\ pc = "erase" => ~repo /\ (entry => failed = {"remove", "prune"})
  /\ NothingIsLeftBehind

TInv == TypeOK /\ Staged /\ Exported /\ Disk

-----------------------------------------------------------------------------
(* Each command of git maps trees to trees. *)
LEMMA CommandsTyped ==
  ASSUME TypeOK
  PROVE  Added \in Tree /\ ResetTree \in Tree /\ CleanTree \in Tree
BY TransactionAssumption DEF TypeOK, Tree, Added, ResetTree, CleanTree

(* A command that is killed may have changed some of its files. *)
LEMMA PartlyTyped ==
  ASSUME NEW s \in Tree, NEW t \in Tree, NEW done \in SUBSET Files
  PROVE  [f \in Files |-> IF f \in done THEN s[f] ELSE t[f]] \in Tree
BY DEF Tree

LEMMA ExpiredTyped ==
  ASSUME TypeOK, CommandExpires
  PROVE  tree' \in Tree
<1>1. tree \in Tree
  BY DEF TypeOK
<1>2. CASE tree' = tree
  BY <1>1, <1>2
<1>3. CASE \E done \in SUBSET Files :
             tree' = [f \in Files |-> IF f \in done THEN ResetTree[f] ELSE tree[f]]
  BY <1>1, <1>3, CommandsTyped, PartlyTyped, Zenon
<1>4. CASE \E done \in SUBSET Files :
             tree' = [f \in Files |-> IF f \in done THEN CleanTree[f] ELSE tree[f]]
  BY <1>1, <1>4, CommandsTyped, PartlyTyped, Zenon
<1> QED
  BY <1>2, <1>3, <1>4 DEF CommandExpires, gitVars

(* git add -A stages every file that is not ignored. *)
LEMMA AddStagesAll ==
  ASSUME TypeOK
  PROVE  Same(Added, tree)
BY DEF Same, Added

(* git reset --hard and git clean -fd together restore the commit, ignored *)
(* files apart.                                                            *)
LEMMA CleanRestores ==
  ASSUME TypeOK, Staged, pc = "clean"
  PROVE  Same(CleanTree, head)
BY DEF TypeOK, Tree, Staged, Same, CleanTree, Tracked

LEMMA VisibleSame ==
  ASSUME NEW s, NEW t, Same(s, t)
  PROVE  Visible(s) = Visible(t)
BY DEF Same, Visible

LEMMA InitInv == Init => TInv
<1> SUFFICES ASSUME Init PROVE TInv
  OBVIOUS
<1>1. TypeOK
  BY TransactionAssumption DEF Init, TypeOK, Tree, Pcs, Over
<1>2. Staged /\ Exported /\ Disk
  BY DEF Init, Staged, Exported, ExportIsLastCheckpoint, Disk, NothingIsLeftBehind, Over
<1> QED
  BY <1>1, <1>2 DEF TInv

LEMMA NextTyped ==
  ASSUME TInv, [Next]_vars
  PROVE  TypeOK'
<1> USE DEF TInv, TypeOK, Pcs, Over, vars, gitVars, diskVars
<1>1. CASE Refuse \/ BeginAdd \/ WorktreeAdd \/ WorktreeAddFails \/ NoSubdirectory \/ BeginRaises
  BY <1>1 DEF Refuse, BeginAdd, WorktreeAdd, WorktreeAddFails, NoSubdirectory, BeginRaises,
              Disk
<1>2. CASE Write
  BY <1>2 DEF Write, Tree
<1>3. CASE Call("add") \/ Call("reset")
  BY <1>3 DEF Call
<1>4. CASE StageAll \/ NothingStaged \/ SomethingStaged \/ Commit \/ ReadHead
  BY <1>4, CommandsTyped DEF StageAll, NothingStaged, SomethingStaged, Commit, ReadHead, Command
<1>5. CASE Reset \/ Clean
  BY <1>5, CommandsTyped DEF Reset, Clean, Command
<1>6. CASE CommandFails
  BY <1>6 DEF CommandFails
<1>7. CASE CommandExpires
  <2>1. index' \in Tree /\ head' \in Tree /\ saved' \in Tree
    BY <1>7, CommandsTyped DEF CommandExpires
  <2>2. tree' \in Tree
    BY <1>7, ExpiredTyped
  <2> QED
    BY <1>7, <2>1, <2>2 DEF CommandExpires
<1>8. CASE Export \/ ExportFails
  BY <1>8 DEF Export, ExportFails
<1>9. CASE WorktreeRemove \/ WorktreeRemoveFails \/ Prune \/ PruneFails \/ Erase \/ CloseRaises
  BY <1>9 DEF WorktreeRemove, WorktreeRemoveFails, Prune, PruneFails, Pruned, Erase, CloseRaises
<1>10. CASE UNCHANGED vars
  BY <1>10
<1> QED
  BY <1>1, <1>2, <1>3, <1>4, <1>5, <1>6, <1>7, <1>8, <1>9, <1>10 DEF Next, Terminated

LEMMA NextStaged ==
  ASSUME TInv, [Next]_vars
  PROVE  Staged'
<1> USE DEF TInv, Staged, vars, gitVars, diskVars
<1>1. CASE Refuse \/ BeginAdd \/ WorktreeAdd \/ WorktreeAddFails \/ NoSubdirectory \/ BeginRaises
  <2>1. CASE Refuse \/ BeginAdd
    BY <2>1 DEF Refuse, BeginAdd
  <2>2. CASE WorktreeAdd
    BY <2>2 DEF WorktreeAdd
  <2>3. CASE WorktreeAddFails \/ NoSubdirectory \/ BeginRaises
    BY <2>3 DEF WorktreeAddFails, NoSubdirectory, BeginRaises
  <2> QED
    BY <1>1, <2>1, <2>2, <2>3
<1>2. CASE Write
  BY <1>2 DEF Write
<1>3. CASE Call("add") \/ Call("reset")
  BY <1>3 DEF Call
<1>4. CASE StageAll
  <2>1. Same(index', tree')
    BY <1>4, AddStagesAll DEF StageAll, Command, Same
  <2> QED
    BY <1>4, <2>1 DEF StageAll, Command
<1>5. CASE NothingStaged \/ SomethingStaged \/ Commit \/ ReadHead
  BY <1>5 DEF NothingStaged, SomethingStaged, Commit, ReadHead, Command, Same
<1>6. CASE Reset
  <2>1. \A f \in Files : head[f] # Absent => ResetTree[f] = head[f]
    BY DEF ResetTree
  <2> QED
    BY <1>6, <2>1 DEF Reset, Command
<1>7. CASE Clean
  BY <1>7 DEF Clean, Command
<1>8. CASE CommandFails
  BY <1>8 DEF CommandFails
<1>9. CASE CommandExpires
  BY <1>9 DEF CommandExpires
<1>10. CASE Export \/ ExportFails
  BY <1>10 DEF Export, ExportFails
<1>11. CASE WorktreeRemove \/ WorktreeRemoveFails \/ Prune \/ PruneFails \/ Erase \/ CloseRaises
  BY <1>11 DEF WorktreeRemove, WorktreeRemoveFails, Prune, PruneFails, Pruned, Erase, CloseRaises
<1>12. CASE UNCHANGED vars
  BY <1>12 DEF Same
<1> QED
  BY <1>1, <1>2, <1>3, <1>4, <1>5, <1>6, <1>7, <1>8, <1>9, <1>10, <1>11, <1>12
     DEF Next, Terminated

LEMMA NextExported ==
  ASSUME TInv, [Next]_vars
  PROVE  Exported'
<1> USE DEF TInv, Staged, Exported, ExportIsLastCheckpoint, Over, vars, gitVars, diskVars
<1>1. CASE Refuse \/ BeginAdd \/ WorktreeAdd \/ WorktreeAddFails \/ NoSubdirectory \/ BeginRaises
  BY <1>1 DEF Refuse, BeginAdd, WorktreeAdd, WorktreeAddFails, NoSubdirectory, BeginRaises
<1>2. CASE Write \/ Call("add") \/ Call("reset")
  BY <1>2 DEF Write, Call
<1>3. CASE StageAll \/ NothingStaged \/ SomethingStaged \/ Commit \/ ReadHead \/ Reset \/ Clean
  BY <1>3 DEF StageAll, NothingStaged, SomethingStaged, Commit, ReadHead, Reset, Clean, Command
<1>4. CASE CommandFails \/ CommandExpires
  BY <1>4 DEF CommandFails, CommandExpires
<1>5. CASE Export \/ ExportFails
  BY <1>5 DEF Export, ExportFails
<1>6. CASE WorktreeRemove \/ WorktreeRemoveFails \/ Prune \/ PruneFails \/ Erase \/ CloseRaises
  BY <1>6 DEF WorktreeRemove, WorktreeRemoveFails, Prune, PruneFails, Pruned, Erase, CloseRaises
<1>7. CASE UNCHANGED vars
  BY <1>7
<1> QED
  BY <1>1, <1>2, <1>3, <1>4, <1>5, <1>6, <1>7 DEF Next, Terminated

LEMMA NextDisk ==
  ASSUME TInv, [Next]_vars
  PROVE  Disk'
<1> USE DEF TInv, TypeOK, Disk, NothingIsLeftBehind, Over, vars, gitVars, diskVars
<1>1. CASE Refuse \/ BeginAdd \/ WorktreeAdd \/ WorktreeAddFails \/ NoSubdirectory \/ BeginRaises
  <2>1. CASE Refuse
    BY <2>1 DEF Refuse
  <2>2. CASE BeginAdd
    BY <2>2 DEF BeginAdd
  <2>3. CASE WorktreeAdd
    BY <2>3 DEF WorktreeAdd
  <2>4. CASE WorktreeAddFails
    BY <2>4 DEF WorktreeAddFails
  <2>5. CASE NoSubdirectory
    <3>1. ~temp' /\ ~repo' /\ pc' = "refused" /\ (entry' => "remove" \in failed')
      BY <2>5 DEF NoSubdirectory
    <3> QED
      BY <3>1
  <2>6. CASE BeginRaises
    BY <2>6 DEF BeginRaises
  <2> QED
    BY <1>1, <2>1, <2>2, <2>3, <2>4, <2>5, <2>6
<1>2. CASE Write \/ Call("add") \/ Call("reset")
  BY <1>2 DEF Write, Call
<1>3. CASE StageAll \/ NothingStaged \/ SomethingStaged \/ Commit \/ ReadHead \/ Reset \/ Clean
  BY <1>3 DEF StageAll, NothingStaged, SomethingStaged, Commit, ReadHead, Reset, Clean, Command
<1>4. CASE CommandFails \/ CommandExpires
  BY <1>4 DEF CommandFails, CommandExpires
<1>5. CASE Export \/ ExportFails
  BY <1>5 DEF Export, ExportFails
<1>6. CASE WorktreeRemove \/ WorktreeRemoveFails
  BY <1>6 DEF WorktreeRemove, WorktreeRemoveFails
<1>7. CASE Prune
  BY <1>7 DEF Prune, Pruned
<1>8. CASE PruneFails
  BY <1>8 DEF PruneFails, Pruned
<1>9. CASE Erase
  BY <1>9 DEF Erase
<1>10. CASE CloseRaises
  BY <1>10 DEF CloseRaises
<1>11. CASE UNCHANGED vars
  BY <1>11
<1> QED
  BY <1>1, <1>2, <1>3, <1>4, <1>5, <1>6, <1>7, <1>8, <1>9, <1>10, <1>11 DEF Next, Terminated

LEMMA Invariance == Spec => []TInv
<1>1. TInv /\ [Next]_vars => TInv'
  BY NextTyped, NextStaged, NextExported, NextDisk DEF TInv
<1> QED
  BY <1>1, InitInv, PTL DEF Spec

-----------------------------------------------------------------------------

(* Whatever was written, staged, half reset or half cleaned when a command *)
(* failed or was killed, the exported patch is that of the last checkpoint.*)
THEOREM ExportsLastCheckpoint == Spec => []ExportIsLastCheckpoint
<1>1. TInv => ExportIsLastCheckpoint
  BY DEF TInv, Exported
<1> QED
  BY <1>1, Invariance, PTL

(* A checkpoint or rollback that returns has done all of its work: HEAD,   *)
(* index and last checkpoint agree, and after a checkpoint HEAD holds every*)
(* file that is not ignored as it was when checkpoint() was called.        *)
THEOREM CallsWhole == Spec => CallsAreWhole
<1> DEFINE Whole == pc' = "idle" /\ pc \in {"rev_parse", "clean"} =>
       /\ index' = head' /\ head' = saved'
       /\ pc = "rev_parse" => tree' = before /\ Visible(head') = Visible(before)
<1>1. TInv /\ [Next]_vars => [Whole]_vars
  <2> SUFFICES ASSUME TInv, Next, pc' = "idle", pc \in {"rev_parse", "clean"}
               PROVE  Whole
    OBVIOUS
  <2>1. ReadHead \/ Clean
    BY DEF Next, Refuse, BeginAdd, WorktreeAdd, WorktreeAddFails, NoSubdirectory, BeginRaises,
           Write, Call, StageAll, NothingStaged, SomethingStaged, Commit, Reset, Command,
           CommandFails, CommandExpires, Export, ExportFails, WorktreeRemove,
           WorktreeRemoveFails, Prune, PruneFails, Pruned, Erase, CloseRaises, Terminated, Over
  <2>2. CASE ReadHead
    <3>1. Visible(head) = Visible(tree) /\ tree = before
      BY <2>2, VisibleSame DEF ReadHead, Command, TInv, Staged
    <3> QED
      BY <2>2, <3>1 DEF ReadHead, Command, gitVars, TInv, Staged
  <2>3. CASE Clean
    BY <2>3 DEF Clean, Command, TInv, Staged
  <2> QED
    BY <2>1, <2>2, <2>3
<1> QED
  BY <1>1, Invariance, PTL DEF Spec, CallsAreWhole

(* close() that returns leaves no directory, and no entry unless two git   *)
(* commands failed; begin() that fails by itself leaves no directory.      *)
THEOREM LeavesNothing == Spec => []NothingIsLeftBehind
<1>1. TInv => NothingIsLeftBehind
  BY DEF TInv, Disk
<1> QED
  BY <1>1, Invariance, PTL

(* A rollback that returns has restored every file that git does not       *)
(* ignore to the last checkpoint, whatever edits and tests had written.    *)
THEOREM RollbackRestored == Spec => RollbackRestores
<1> DEFINE Restores == pc = "clean" /\ pc' = "idle" => Visible(tree') = Visible(saved)
<1>1. TInv /\ [Next]_vars => [Restores]_vars
  <2> SUFFICES ASSUME TInv, Next, pc = "clean", pc' = "idle"
               PROVE  Visible(tree') = Visible(saved)
    OBVIOUS
  <2>1. Clean
    BY DEF Next, Refuse, BeginAdd, WorktreeAdd, WorktreeAddFails, NoSubdirectory,
           BeginRaises, Write, Call, StageAll, NothingStaged, SomethingStaged, Commit,
           ReadHead, Reset, Command, CommandFails, CommandExpires, Export, ExportFails,
           WorktreeRemove, WorktreeRemoveFails, Prune, PruneFails, Pruned, Erase, CloseRaises, Terminated, Over
  <2>2. tree' = CleanTree
    BY <2>1 DEF Clean, Command
  <2> QED
    BY <2>2, CleanRestores, VisibleSame DEF TInv, Staged
<1> QED
  BY <1>1, Invariance, PTL DEF Spec, RollbackRestores

-----------------------------------------------------------------------------
(* Refinement of TransactionContract                                       *)

LEMMA VisibleTyped ==
  ASSUME NEW t \in Tree
  PROVE  Visible(t) \in {Visible(s) : s \in Tree}
OBVIOUS

(* begin() and the edits between calls. *)
LEMMA OpeningMaps ==
  ASSUME TInv,
         \/ Refuse \/ BeginAdd \/ WorktreeAdd \/ WorktreeAddFails \/ NoSubdirectory
         \/ BeginRaises \/ Write
  PROVE  [Contract!Next]_(Contract!vars)
<1> USE DEF TInv, TypeOK, Phase, Over, Contract!vars, Contract!Next, gitVars, diskVars
<1>1. CASE Refuse \/ BeginAdd
  BY <1>1 DEF Refuse, BeginAdd, Contract!Begin
<1>2. CASE WorktreeAdd
  BY <1>2 DEF WorktreeAdd, Contract!Begin
<1>3. CASE WorktreeAddFails \/ BeginRaises
  BY <1>3 DEF WorktreeAddFails, BeginRaises, Contract!Begin
<1>4. CASE NoSubdirectory
  BY <1>4 DEF NoSubdirectory, Contract!Begin
<1>5. CASE Write
  <2>1. tree' \in Tree
    BY <1>5 DEF Write, Tree
  <2> QED
    BY <1>5, <2>1, VisibleTyped DEF Write, Contract!Edit
<1> QED
  BY <1>1, <1>2, <1>3, <1>4, <1>5

(* A checkpoint or rollback whose commands succeed. *)
LEMMA CallsMap ==
  ASSUME TInv,
         \/ Call("add") \/ Call("reset") \/ StageAll \/ NothingStaged \/ SomethingStaged
         \/ Commit \/ ReadHead \/ Reset \/ Clean
  PROVE  [Contract!Next]_(Contract!vars)
<1> USE DEF TInv, TypeOK, Phase, Over, Contract!vars, Contract!Next, gitVars, diskVars
<1>1. CASE Call("add") \/ Call("reset")
  BY <1>1 DEF Call, Contract!Call
<1>2. CASE StageAll \/ NothingStaged \/ SomethingStaged
  BY <1>2 DEF StageAll, NothingStaged, SomethingStaged, Command
<1>3. CASE Commit
  <2>1. Visible(index) = Visible(tree)
    BY <1>3, VisibleSame DEF Commit, Command, Staged
  <2> QED
    BY <1>3, <2>1 DEF Commit, Command, Contract!Save
<1>4. CASE ReadHead
  <2>1. Visible(head) = Visible(tree)
    BY <1>4, VisibleSame DEF ReadHead, Command, Staged
  <2> QED
    BY <1>4, <2>1 DEF ReadHead, Command, Contract!Saved
<1>5. CASE Reset
  BY <1>5 DEF Reset, Command
<1>6. CASE Clean
  <2>1. Visible(CleanTree) = Visible(head)
    BY <1>6, CleanRestores, VisibleSame DEF Clean, Command
  <2> QED
    BY <1>6, <2>1 DEF Clean, Command, Contract!Restored
<1> QED
  BY <1>1, <1>2, <1>3, <1>4, <1>5, <1>6

(* A command that fails or is killed. *)
LEMMA BreaksMap ==
  ASSUME TInv, CommandFails \/ CommandExpires
  PROVE  [Contract!Next]_(Contract!vars)
<1> USE DEF TInv, TypeOK, Phase, Over, Contract!vars, Contract!Next, gitVars, diskVars
<1>1. CASE CommandFails
  <2>1. Visible(tree) \in {Visible(t) : t \in Tree}
    BY VisibleTyped
  <2> QED
    BY <1>1, <2>1 DEF CommandFails, Contract!Break
<1>2. CASE CommandExpires
  <2>1. tree' \in Tree
    BY <1>2, ExpiredTyped
  <2>2. Visible(tree') \in {Visible(t) : t \in Tree}
    BY <2>1, VisibleTyped
  <2>3. head' = head \/ (pc = "commit" /\ head' = index)
    BY <1>2 DEF CommandExpires
  <2>4. pc = "commit" => Visible(index) = Visible(tree)
    BY VisibleSame DEF Staged
  <2>5. /\ pc \in {"add", "diff_cached", "commit", "rev_parse", "reset", "clean"}
        /\ pc' = "ending" /\ patch' = patch
    BY <1>2 DEF CommandExpires
  <2>6. Contract!Break
    BY <2>2, <2>3, <2>4, <2>5 DEF Contract!Break
  <2> QED
    BY <2>6
<1> QED
  BY <1>1, <1>2

(* Export and close(). *)
LEMMA ClosingMaps ==
  ASSUME TInv,
         \/ Export \/ ExportFails \/ WorktreeRemove \/ WorktreeRemoveFails \/ Prune \/ PruneFails
         \/ Erase \/ CloseRaises
  PROVE  [Contract!Next]_(Contract!vars)
<1> USE DEF TInv, TypeOK, Phase, Over, Contract!vars, Contract!Next, gitVars, diskVars
<1>1. CASE Export
  <2>1. head # NotExported
    BY TransactionAssumption DEF Tree
  <2> QED
    BY <1>1, <2>1 DEF Export, Contract!Export
<1>2. CASE ExportFails
  BY <1>2 DEF ExportFails, Contract!Close
<1>3. CASE WorktreeRemove \/ WorktreeRemoveFails \/ Prune \/ PruneFails
  BY <1>3 DEF WorktreeRemove, WorktreeRemoveFails, Prune, PruneFails, Pruned
<1>4. CASE Erase \/ CloseRaises
  BY <1>4 DEF Erase, CloseRaises, Contract!Close
<1> QED
  BY <1>1, <1>2, <1>3, <1>4

(* For RepairEngine a checkpoint is one step and a rollback another: the   *)
(* sequences of git commands, with their failures and time-outs, implement *)
(* the atomic transaction, for the files that git does not ignore.         *)
THEOREM ContractImplemented == Spec => ImplementsContract
<1>1. Init => Contract!Init
  BY DEF Init, Contract!Init, Phase
<1>2. TInv /\ [Next]_vars => [Contract!Next]_(Contract!vars)
  <2> SUFFICES ASSUME TInv, [Next]_vars
               PROVE  [Contract!Next]_(Contract!vars)
    OBVIOUS
  <2>1. CASE UNCHANGED vars
    BY <2>1 DEF vars, gitVars, diskVars, Contract!vars, Phase, Visible
  <2> QED
    BY <2>1, OpeningMaps, CallsMap, BreaksMap, ClosingMaps DEF Next, Terminated
<1> QED
  BY <1>1, <1>2, Invariance, PTL DEF Spec, ImplementsContract, Contract!Spec
=============================================================================
