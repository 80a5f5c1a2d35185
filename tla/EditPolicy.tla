----------------------------- MODULE EditPolicy -----------------------------
(***************************************************************************)
(* tools/edit_policy.py: which files an edit may change, and how much. A   *)
(* path is a model value; what the policy looks at is given by sets. Paths *)
(* have no blanks (the header pattern of paths_from_patch needs that) and  *)
(* are written in one way.                                                 *)
(***************************************************************************)
EXTENDS Naturals, FiniteSets

CONSTANTS Path,
          Safe,          \* relative paths without ".." and ".git"
          Python,        \* suffix .py
          Tests,         \* below a directory "tests"
          AllowedPath,   \* below one of allowed_paths, all if there are none
          MaxFiles, MaxChangedLines

ASSUME PolicyAssumption ==
  /\ IsFiniteSet(Path)
  /\ Safe \subseteq Path /\ Python \subseteq Path
  /\ Tests \subseteq Path /\ AllowedPath \subseteq Path
  /\ MaxFiles \in Nat \ {0} /\ MaxChangedLines \in Nat \ {0}

Allowed == (Safe \cap Python \cap AllowedPath) \ Tests

(* validate_paths() finds nothing to object to. *)
PathsAllowed(paths) == Cardinality(paths) <= MaxFiles /\ paths \subseteq Allowed

(* validate_changed_lines() *)
LinesAllowed(n) == n <= MaxChangedLines
=============================================================================
