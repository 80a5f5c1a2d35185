-------------------------- MODULE MCContainerSandbox --------------------------
(***************************************************************************)
(* Instances of ContainerSandbox for TLC: a command that runs, one that    *)
(* selects a test with a dangerous name, one that selects "confirm" and    *)
(* asks for a report with -rf, and two that are not admitted.              *)
(***************************************************************************)
EXTENDS ContainerSandbox

MCCommands ==
  { [exe |-> "python", module |-> "pytest", words |-> {"pytest"}, rmrf |-> FALSE],
    [exe |-> "pytest", module |-> "none",   words |-> {"-k", "format"}, rmrf |-> FALSE],
    [exe |-> "pytest", module |-> "none",   words |-> {"-k", "confirm", "-rf"}, rmrf |-> TRUE],
    [exe |-> "python", module |-> "pip",    words |-> {"pip"}, rmrf |-> FALSE],
    [exe |-> "pytest", module |-> "none",   words |-> {"&&"}, rmrf |-> FALSE] }
MCDangerous == {"rm", "format", "del"}
MCShell == {"&&", "|"}
=============================================================================
