---------------------- MODULE MCWorkspaceTransaction ----------------------
(* A source file, a file that tests may write, and an ignored one. *)
EXTENDS WorkspaceTransaction

MCFiles == {"src", "new", "cache"}
MCBase == [f \in MCFiles |-> IF f = "src" THEN "c1" ELSE Absent]
=============================================================================
