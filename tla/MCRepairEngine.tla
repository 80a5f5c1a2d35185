--------------------------- MODULE MCRepairEngine ---------------------------
(***************************************************************************)
(* Instances of RepairEngine for TLC: two tests, and the contents that the *)
(* engine can tell apart by running them, a second passing content and a   *)
(* content whose tests cannot be collected included.                       *)
(***************************************************************************)
EXTENDS RepairEngineContract

Both     == [name |-> "both_fail",  fails |-> {"t1", "t2"}, collects |-> TRUE]
First    == [name |-> "t1_fails",   fails |-> {"t1"},       collects |-> TRUE]
Second   == [name |-> "t2_fails",   fails |-> {"t2"},       collects |-> TRUE]
Good     == [name |-> "passes",     fails |-> {},           collects |-> TRUE]
Revised  == [name |-> "passes_too", fails |-> {},           collects |-> TRUE]
Unloadable == [name |-> "no_tests", fails |-> {},           collects |-> FALSE]

MCNode == {"t1", "t2"}
MCImportable == {Both, First, Second, Good, Revised}
MCContent == MCImportable \cup {Unloadable}
MCFails == [c \in Content |-> c.fails]
MCCollects == [c \in Content |-> c.collects]

OneCommand == << {"t1", "t2"} >>
TwoCommands == << {"t1"}, {"t2"} >>
=============================================================================
