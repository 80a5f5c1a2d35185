------------------------- MODULE TransactionContract -------------------------
(***************************************************************************)
(* What RepairEngine assumes of a workspace transaction: checkpoints and   *)
(* rollbacks are atomic; a call that fails ends the work, and may have     *)
(* saved what it was about to save; the patch is that of the last content  *)
(* saved.                                                                  *)
(***************************************************************************)
CONSTANTS Tree,           \* contents of a workspace
          BaseTree,       \* the starting revision
          Nothing         \* no patch was exported

VARIABLES phase, work, saved, out

vars == <<phase, work, saved, out>>

Init == phase = "none" /\ work = BaseTree /\ saved = BaseTree /\ out = Nothing

Begin ==
  /\ phase = "none" /\ phase' \in {"open", "over"}
  /\ UNCHANGED <<work, saved, out>>

Edit == phase = "open" /\ work' \in Tree /\ UNCHANGED <<phase, saved, out>>

Call == phase = "open" /\ phase' \in {"saving", "restoring"} /\ UNCHANGED <<work, saved, out>>

(* A checkpoint takes effect somewhere between its call and its return. *)
Save == phase = "saving" /\ saved' = work /\ UNCHANGED <<phase, work, out>>

Saved == phase = "saving" /\ saved = work /\ phase' = "open" /\ UNCHANGED <<work, saved, out>>

Restored == phase = "restoring" /\ work' = saved /\ phase' = "open" /\ UNCHANGED <<saved, out>>

Break ==
  /\ phase \in {"saving", "restoring"} /\ phase' = "ending"
  /\ work' \in Tree /\ saved' \in {saved} \cup IF phase = "saving" THEN {work} ELSE {}
  /\ UNCHANGED out

Export ==
  /\ phase \in {"open", "ending"} /\ phase' = "ending"
  /\ out' = saved /\ UNCHANGED <<work, saved>>

Close ==
  /\ phase \in {"open", "ending"} /\ phase' = "over"
  /\ UNCHANGED <<work, saved, out>>

Next ==
  \/ Begin \/ Edit \/ Call \/ Save \/ Saved \/ Restored \/ Break
  \/ Export \/ Close

Spec == Init /\ [][Next]_vars
=============================================================================
