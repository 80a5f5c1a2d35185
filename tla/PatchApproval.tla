---------------------------- MODULE PatchApproval ----------------------------
(***************************************************************************)
(* From an edit of the worktree to the checkout: the backend edits, the    *)
(* tests may write files, the patch is exported, and pyfixagent-apply      *)
(* (apply.py) shows it and, asked again with its digest, applies it. The   *)
(* digest stands for the cleaned patch. Meanwhile somebody edits or        *)
(* commits the checkout, or puts another file in the place of the patch.   *)
(***************************************************************************)
EXTENDS EditBackends

CONSTANTS NoDigest, MaxChanges, MaxCommands

VARIABLES
  exported,     \* the patch file
  checkout,     \* files of the selected workspace
  commit,       \* files at its HEAD
  gate,         \* step of the command that runs
  asked,        \* the digest given with --approve
  approval,     \* cleaned_patch of the PatchApproval
  shown,        \* digests printed so far, each with the commit it was shown for
  exit,         \* exit code of the last command
  changes, commands

gateVars == <<exported, checkout, commit, gate, asked, approval, shown, exit, changes, commands>>
vars == <<backendVars, gateVars>>

Init ==
  /\ BackendInit
  /\ exported = NoPatchText /\ checkout = Base /\ commit = Base
  /\ gate = "idle" /\ asked = NoDigest /\ approval = NoPatchText
  /\ shown = {} /\ exit = 0 /\ changes = 0 /\ commands = 0

Edit == BackendNext /\ UNCHANGED gateVars

(* The tests leave a file behind, which git add -A will find. *)
TestsWrite ==
  /\ pc = "edited"
  /\ \E f \in Path : /\ Base[f] = Unreadable /\ tree[f] = Unreadable
                     /\ tree' = [tree EXCEPT ![f] = << >>]
  /\ UNCHANGED <<pc, proposal, planned, unwritten, result, gateVars>>

(* export_patch() *)
Export ==
  /\ pc = "edited" /\ Diff(Base, tree).blocks # <<>>
  /\ exported' = Diff(Base, tree)
  /\ pc' = "exported"
  /\ UNCHANGED <<tree, proposal, planned, unwritten, result,
                 checkout, commit, gate, asked, approval, shown, exit, changes, commands>>

-----------------------------------------------------------------------------
(* The world around the command                                            *)

Change == changes < MaxChanges /\ pc = "exported" /\ changes' = changes + 1

EditCheckout ==
  /\ Change
  /\ \E f \in Path, text \in Texts : checkout' = [checkout EXCEPT ![f] = text]
  /\ UNCHANGED <<backendVars, exported, commit, gate, asked, approval, shown, exit, commands>>

CommitCheckout ==
  /\ Change /\ commit' = checkout
  /\ UNCHANGED <<backendVars, exported, checkout, gate, asked, approval, shown, exit, commands>>

ReplacePatch ==
  /\ Change
  /\ \E patch \in RawPatches : exported' = patch
  /\ UNCHANGED <<backendVars, checkout, commit, gate, asked, approval, shown, exit, commands>>

-----------------------------------------------------------------------------
(* main()                                                                  *)

Ends(code) == gate' = "idle" /\ exit' = code

StartCommand ==
  /\ pc = "exported" /\ gate = "idle" /\ commands < MaxCommands
  /\ asked' \in {NoDigest} \cup {s.digest : s \in shown}
  /\ gate' = "workspace" /\ commands' = commands + 1
  /\ UNCHANGED <<backendVars, exported, checkout, commit, approval, shown, exit, changes>>

(* inspect_workspace(), whose git commands may fail. *)
Inspect(next) ==
  \/ checkout = commit /\ gate' = next /\ exit' = exit
  \/ (checkout # commit \/ GitFails) /\ Ends(1)

(* inspect_exported_patch(): the checkout is clean ... *)
InspectWorkspace ==
  /\ gate = "workspace" /\ Inspect("patch")
  /\ UNCHANGED <<backendVars, exported, checkout, commit, asked, approval, shown, changes, commands>>

(* ... and the patch it reads is well formed, allowed and applicable. Its  *)
(* digest is printed before an approval is looked at.                      *)
InspectPatch ==
  /\ gate = "patch"
  /\ \/ /\ Accepted(checkout, Clean(exported))
        /\ approval' = Clean(exported)
        /\ shown' = shown \cup {[digest |-> Clean(exported), commit |-> commit]}
        /\ IF asked = NoDigest THEN Ends(2) ELSE gate' = "digest" /\ exit' = exit
     \/ /\ ~Accepted(checkout, Clean(exported)) \/ GitFails
        /\ Ends(1) /\ UNCHANGED <<approval, shown>>
  /\ UNCHANGED <<backendVars, exported, checkout, commit, asked, changes, commands>>

(* apply_approved_patch() *)
(* Mutant: any digest will do. *)
CompareNothing ==
  /\ gate = "digest"
  /\ gate' = "again" /\ exit' = exit
  /\ UNCHANGED <<backendVars, exported, checkout, commit, asked, approval, shown, changes, commands>>

CompareDigest ==
  /\ gate = "digest"
  /\ IF asked = approval THEN gate' = "again" /\ exit' = exit ELSE Ends(1)
  /\ UNCHANGED <<backendVars, exported, checkout, commit, asked, approval, shown, changes, commands>>

InspectAgain ==
  /\ gate = "again" /\ Inspect("apply")
  /\ UNCHANGED <<backendVars, exported, checkout, commit, asked, approval, shown, changes, commands>>

ApplyApproved ==
  /\ gate = "apply"
  /\ IF Accepted(checkout, approval)
     THEN checkout' = GitApply(checkout, Clean(approval)).files /\ Ends(0)
     ELSE checkout' = checkout /\ Ends(1)
  /\ UNCHANGED <<backendVars, exported, commit, asked, approval, shown, changes, commands>>

(* git apply exceeds its time limit, perhaps half way: an error, but what  *)
(* it has written stays.                                                   *)
ApplyApprovedExpires ==
  /\ gate = "apply" /\ GitFails /\ Accepted(checkout, approval)
  /\ checkout' \in ApplyKilled(checkout, Clean(approval)) /\ Ends(1)
  /\ UNCHANGED <<backendVars, exported, commit, asked, approval, shown, changes, commands>>

Command ==
  \/ StartCommand \/ InspectWorkspace \/ InspectPatch
  \/ CompareDigest \/ InspectAgain \/ ApplyApproved \/ ApplyApprovedExpires

Next ==
  \/ Edit \/ TestsWrite \/ Export
  \/ EditCheckout \/ CommitCheckout \/ ReplacePatch
  \/ Command

Spec == Init /\ [][Next]_vars

-----------------------------------------------------------------------------
(* Properties                                                              *)

(* Whatever happens to the patch file and to the checkout meanwhile, a     *)
(* command that ends with success, or that writes anything, was asked for  *)
(* a digest that a command had shown, and writes that very patch, on files *)
(* it may change: all of it if it reports success; if it reports an error, *)
(* git was killed, and each file is as before, as patched, or removed.     *)
AppliedIsApproved ==
  [][Command /\ (checkout' # checkout \/ (gate # "idle" /\ gate' = "idle" /\ exit' = 0)) =>
       LET target == GitApply(checkout, asked).files
       IN  /\ \E s \in shown : s.digest = asked
           /\ exit' = 0 => checkout' = target
           /\ \A f \in Path : checkout'[f] \in {checkout[f], target[f], Unreadable}
           /\ PathsAllowed({f \in Path : checkout'[f] # checkout[f]})]_vars

(* Nothing in the patch is lost on its way through the gate. *)
Carried(patch) ==
  /\ ~patch.blank
  /\ \A n \in DOMAIN patch.blocks :
       /\ patch.blocks[n].kind = "change"
       /\ Read(patch.blocks[n].from) = patch.blocks[n].from
       /\ Read(patch.blocks[n].to) = patch.blocks[n].to

(* An edit within the limits is accepted by the gate and reproduces the    *)
(* candidate, unless files were created, line ends are not "\n", or the    *)
(* patch ends with an empty context line.                                  *)
ExportIsAccepted ==
  pc = "exported" /\ exported = Diff(Base, tree)
    /\ Carried(exported) /\ LinesAllowed(PatchLines(exported)) =>
       /\ Accepted(Base, exported)
       /\ GitApply(Base, Clean(exported)).files = tree

(* README.md:104: "To apply an exported patch, first preview it. This      *)
(* validates the clean workspace, edit policy, and patch, then prints a    *)
(* digest": the patch of an edit within the limits passes. Violated:       *)
(* clean_patch_text() drops carriage returns and an empty last line, and   *)
(* git apply --check refuses what is left.                                 *)
EditsCanBeApplied ==
  pc = "exported" /\ exported = Diff(Base, tree) /\ LinesAllowed(PatchLines(exported))
    /\ (\A n \in DOMAIN exported.blocks : exported.blocks[n].kind = "change") =>
       Accepted(Base, exported)
=============================================================================
