-------------------------- MODULE ContainerSandbox --------------------------
(***************************************************************************)
(* sandbox/container_sandbox.py: one command after another, each checked,  *)
(* run in a container of its own by BoundedProcess, and turned into a      *)
(* CommandResult. The answer of the daemon to the first command is kept    *)
(* for all later ones and handed to the sandboxes derived from this one.   *)
(***************************************************************************)
EXTENDS BoundedProcess, CommandPolicy

CONSTANTS Commands,       \* argument lists, see CommandPolicy
          NoCommand,
          MaxCommands     \* bound on the commands run

VARIABLES
  command,     \* the command that runs
  ready,       \* _runtime_ready: "unknown", "yes", "no"
  daemon,      \* the daemon "answers", is "silent", or its client is "absent"
  result,      \* the last CommandResult
  ran          \* commands so far

sandboxVars == <<command, ready, daemon, result, ran>>
vars == <<boundedVars, sandboxVars>>

Daemon == {"answers", "silent", "absent"}

NoResult == [code |-> 0, timeout |-> FALSE, violation |-> "none", infrastructure |-> FALSE, truncated |-> FALSE]

Init ==
  /\ Idle
  /\ command = NoCommand /\ ready = "unknown" /\ daemon \in Daemon
  /\ result = NoResult /\ ran = 0

Returns(code_, timeout_, violation_, infrastructure_, truncated_) ==
  /\ result' = [code |-> code_, timeout |-> timeout_, violation |-> violation_,
                infrastructure |-> infrastructure_, truncated |-> truncated_]
  /\ main' = "idle"

Begins(c) == command = NoCommand /\ main = "idle" /\ ran < MaxCommands /\ command' = c /\ ran' = ran + 1

-----------------------------------------------------------------------------
(* run()                                                                   *)

(* Test commands come from the configuration, which admits pytest only. *)
Start ==
  /\ \E c \in Commands : Admitted(c) /\ Begins(c)
  /\ main' = "validate" /\ result' = NoResult
  /\ UNCHANGED <<ready, daemon, processVars, readerVars, timedOut, violation, exitCode, expired>>

InfrastructureResult(c) ==
  /\ Returns(c, FALSE, "none", TRUE, FALSE)
  /\ command' = NoCommand
  /\ UNCHANGED <<daemon, ran, processVars, readerVars, timedOut, violation, exitCode, expired>>

(* _validate_command() *)
Refuse ==
  /\ main = "validate" /\ ~Runs(command)
  /\ InfrastructureResult(126) /\ UNCHANGED ready

(* _runtime_error() looks for the client each time ... *)
NotInstalled ==
  /\ main = "validate" /\ Runs(command) /\ daemon = "absent"
  /\ InfrastructureResult(127) /\ UNCHANGED ready

Installed == main = "validate" /\ Runs(command) /\ daemon # "absent"

(* ... and asks the daemon once: _preflight_runtime(). *)
Preflight ==
  /\ Installed /\ ready = "unknown"
  /\ ready' = IF daemon = "answers" THEN "yes" ELSE "no"
  /\ UNCHANGED <<command, daemon, result, ran, boundedVars>>

Unavailable ==
  /\ Installed /\ ready = "no"
  /\ InfrastructureResult(125) /\ UNCHANGED ready

(* The workspace is missing or belongs to root; the client cannot start. *)
NoWorkspace ==
  /\ Installed /\ ready = "yes"
  /\ \E c \in {1, 125} : InfrastructureResult(c)
  /\ UNCHANGED ready

Run ==
  /\ Installed /\ ready = "yes"
  /\ Popen
  /\ UNCHANGED sandboxVars

(* Mutant: what the checks during the run found is trusted. *)
CommandResultTrusting ==
  /\ main = "collected"
  /\ Returns(IF violation # "none" THEN 125 ELSE exitCode, timedOut, violation,
             exitCode \in {125, 126, 127} \/ violation # "none", limit)
  /\ command' = NoCommand
  /\ UNCHANGED <<ready, daemon, ran, processVars, readerVars, timedOut, violation, exitCode, expired>>

(* _command_result(), after a last measurement of the workspace *)
CommandResult ==
  /\ main = "collected"
  /\ LET final == IF violation # "none" THEN violation
                  ELSE IF ~timedOut /\ Measured THEN "growth" ELSE "none"
     IN  Returns(IF final # "none" THEN 125 ELSE exitCode, timedOut, final,
                 exitCode \in {125, 126, 127} \/ final # "none", limit)
  /\ command' = NoCommand
  /\ UNCHANGED <<ready, daemon, ran, processVars, readerVars, timedOut, violation, exitCode, expired>>

(* with_workspace() and environment_metadata() change none of this. *)
DaemonChanges ==
  /\ command = NoCommand /\ ran > 0 /\ ran < MaxCommands
  /\ daemon' \in Daemon \ {daemon}
  /\ UNCHANGED <<boundedVars, command, ready, result, ran>>

Next ==
  \/ Start \/ Refuse \/ NotInstalled \/ Preflight \/ Unavailable \/ NoWorkspace \/ Run
  \/ CommandResult \/ DaemonChanges
  \/ MainStep /\ UNCHANGED sandboxVars
  \/ Around /\ UNCHANGED sandboxVars
  \/ (\E s \in Stream : ReaderStep(s)) /\ UNCHANGED sandboxVars

(* The threads run and time passes; the container need not end.            *)
Fairness ==
  /\ WF_vars(MainStep /\ UNCHANGED sandboxVars)
  /\ WF_vars(Refuse \/ NotInstalled \/ Preflight \/ Unavailable \/ NoWorkspace \/ Run \/ CommandResult)
  /\ \A s \in Stream : WF_vars(ReaderStep(s) /\ UNCHANGED sandboxVars)
  /\ WF_vars(DeadlinePasses /\ UNCHANGED sandboxVars)

Spec == Init /\ [][Next]_vars /\ Fairness

-----------------------------------------------------------------------------
(* Properties                                                              *)

(* However the two readers take turns, they keep no more than              *)
(* max_output_bytes together, and drop nothing while there is room.        *)
OutputIsBounded ==
  /\ Sum(captured) <= MaxOutput
  /\ Sum(captured) < Sum(taken) => limit /\ Sum(captured) = MaxOutput

(* A result that speaks of no time-out, violation or infrastructure error, *)
(* which RepairEngine takes for the outcome of the tests, is one: the      *)
(* container was not stopped by anybody here but ended with that code (if  *)
(* the kernel killed the command, that of the kill), nothing of its output *)
(* is missing, and the workspace is within its growth at the end. Files    *)
(* deleted between two looks may have exceeded it (docs/limitations.md:9). *)
QuietResultIsComplete ==
  main = "idle" /\ client # "none" /\ ~result.infrastructure /\ ~result.timeout =>
    /\ result.violation = "none" /\ ~result.truncated
    /\ result.code = code /\ code \in Codes /\ container = "ended"
    /\ captured = written
    /\ grown <= GrowthLimit

(* docs/v0.7.1.md:8: the container is gone when its result is returned,    *)
(* whichever limit stopped it, unless removing it failed.                  *)
ContainerIsRemoved ==
  main = "idle" => container \notin {"starting", "running"}

(* Every command returns, although the container may run on for ever, the  *)
(* client survive its kill, and removing the container fail.               *)
CommandsReturn == command # NoCommand ~> command = NoCommand
=============================================================================
