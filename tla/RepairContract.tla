--------------------------- MODULE RepairContract ---------------------------
(***************************************************************************)
(* What an isolated repair run promises to whoever called it, without      *)
(* iterations, backends or reviews. The run keeps one content of the       *)
(* repository. It may replace it while it is searching; once it holds a    *)
(* content that passes the visible tests it never goes back to one that    *)
(* does not. It ends exactly once, and only a run that holds a passing     *)
(* content may end as a success or ask for review, delivering that very    *)
(* content.                                                                *)
(***************************************************************************)
CONSTANTS Content,   \* repository contents
          Original,  \* the starting one, a member of Content
          Passing    \* those of them that pass the visible tests

VARIABLES kept,       \* what an export would deliver now
          holding,    \* the run knows that kept passes
          verdict,    \* "open" until the run ends
          delivered   \* content of the exported candidate

contractVars == <<kept, holding, verdict, delivered>>

Verdicts == {"success", "needs_review", "failed", "aborted"}

ContractInit ==
  /\ kept = Original /\ holding = FALSE
  /\ verdict = "open" /\ delivered = Original

(* Keep a content that may still fail, while there is nothing to lose. *)
Advance ==
  /\ verdict = "open" /\ ~holding
  /\ kept' \in Content
  /\ UNCHANGED <<holding, verdict, delivered>>

(* Keep a passing content, the first or a better one. *)
Hold ==
  /\ verdict = "open"
  /\ kept' \in Passing /\ holding' = TRUE
  /\ UNCHANGED <<verdict, delivered>>

(* A failed run may deliver what it kept, or nothing; an aborted one never *)
(* delivers.                                                               *)
End(v) ==
  /\ verdict = "open"
  /\ v \in {"success", "needs_review"} => holding
  /\ verdict' = v
  /\ delivered' \in IF v = "failed" THEN {kept, Original}
                    ELSE {IF v = "aborted" THEN Original ELSE kept}
  /\ UNCHANGED <<kept, holding>>

ContractNext == Advance \/ Hold \/ \E v \in Verdicts : End(v)

ContractSpec ==
  ContractInit /\ [][ContractNext]_contractVars /\ WF_contractVars(\E v \in Verdicts : End(v))
=============================================================================
