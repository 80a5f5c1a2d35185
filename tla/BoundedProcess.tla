--------------------------- MODULE BoundedProcess ---------------------------
(***************************************************************************)
(* sandbox/bounded_process.py: a client process relays the output of a     *)
(* container through two pipes to two reader threads that share one        *)
(* budget, while the main thread watches the process, the output limit,    *)
(* the growth of the workspace and the deadline, and stops the process     *)
(* when one of them is exceeded. Output and growth are counted in units.   *)
(* A reader is assumed to need less than the five seconds it is given once *)
(* the process is gone; the client has no descendants that keep the pipes. *)
(***************************************************************************)
EXTENDS Naturals

CONSTANTS MaxOutput,      \* max_output_bytes
          GrowthLimit,    \* WorkspaceBudget.allowed_growth
          Codes,          \* exit codes of the command, and of the kernel for it
          Unkillable,     \* the client may survive kill() for five seconds
          OutputBound,    \* bound: the container writes no more than this
          GrowthBound     \* bound: the workspace grows by no more than this

ASSUME BudgetAssumption ==
  /\ MaxOutput \in Nat /\ GrowthLimit \in Nat /\ OutputBound \in Nat /\ GrowthBound \in Nat
  /\ Codes \subseteq 0..255

Stream == {"stdout", "stderr"}
KilledCode == 137

VARIABLES
  main,        \* step of run_bounded_process
  client,      \* the process: "none", "running", "exited"
  code,        \* its exit code
  container,   \* "none", "starting", "running", "stuck" (removing it failed),
               \* "ended" (its command ended), "gone" (removed, or not started)
  written,     \* units written to each pipe
  taken,       \* units read from each pipe
  captured,    \* units kept of each stream
  limit,       \* limit_reached, set together with truncated
  reader,      \* the reader threads
  grown,       \* growth of the workspace
  expired,     \* the deadline has passed
  timedOut, violation,
  exitCode     \* exit_code

processVars == <<client, code, container, written, grown>>
readerVars == <<taken, captured, limit, reader>>
mainVars == <<main, timedOut, violation, exitCode>>
boundedVars == <<processVars, readerVars, mainVars, expired>>

NoUnits == [s \in Stream |-> 0]
Sum(units) == units["stdout"] + units["stderr"]

Idle ==
  /\ main = "idle" /\ client = "none" /\ code = 0 /\ container = "none"
  /\ written = NoUnits /\ taken = NoUnits /\ captured = NoUnits /\ limit = FALSE
  /\ reader = [s \in Stream |-> "none"] /\ grown = 0 /\ expired = FALSE
  /\ timedOut = FALSE /\ violation = "none" /\ exitCode = 0

(* Popen, the readers and the deadline *)
Popen ==
  /\ main' = "poll" /\ client' = "running" /\ container' = "starting" /\ code' = 0
  /\ written' = NoUnits /\ taken' = NoUnits /\ captured' = NoUnits /\ limit' = FALSE
  /\ reader' = [s \in Stream |-> "reading"] /\ grown' = 0 /\ expired' = FALSE
  /\ timedOut' = FALSE /\ violation' = "none" /\ exitCode' = 0

-----------------------------------------------------------------------------
(* The container, its client, and time                                     *)

Live == container \in {"running", "stuck"}

ContainerStarts ==
  /\ container = "starting" /\ client = "running" /\ container' = "running"
  /\ UNCHANGED <<client, code, written, grown, readerVars, mainVars, expired>>

(* docker run reports a container that it cannot create, or a command that *)
(* it cannot run or find in it.                                            *)
StartFails ==
  /\ container = "starting" /\ client = "running"
  /\ container' = "gone" /\ client' = "exited" /\ code' \in {125, 126, 127}
  /\ UNCHANGED <<written, grown, readerVars, mainVars, expired>>

WriteOutput(s) ==
  /\ Live /\ client = "running" /\ Sum(written) < OutputBound
  /\ written' = [written EXCEPT ![s] = @ + 1]
  /\ UNCHANGED <<client, code, container, grown, readerVars, mainVars, expired>>

(* Files are written and deleted. *)
Grow ==
  /\ Live /\ grown' \in (0..GrowthBound) \ {grown}
  /\ UNCHANGED <<client, code, container, written, readerVars, mainVars, expired>>

(* The command ends with a code of its own, or the kernel kills it for lack *)
(* of memory; its container is removed, and the client ends with its code. *)
CommandEnds ==
  /\ Live /\ client = "running"
  /\ container' = "ended" /\ client' = "exited" /\ code' \in Codes
  /\ UNCHANGED <<written, grown, readerVars, mainVars, expired>>

(* A client whose container was removed ends, too. *)
ClientEnds ==
  /\ container = "gone" /\ client = "running"
  /\ client' = "exited" /\ code' = KilledCode
  /\ UNCHANGED <<container, written, grown, readerVars, mainVars, expired>>

DeadlinePasses ==
  /\ main \in {"poll", "limit", "growth", "deadline"} /\ ~expired
  /\ expired' = TRUE
  /\ UNCHANGED <<processVars, readerVars, mainVars>>

-----------------------------------------------------------------------------
(* The readers: _drain_stream() and _OutputCapture.append(), which holds   *)
(* the lock from reading the budget to setting the event.                  *)

Smaller(a, b) == IF a < b THEN a ELSE b

(* Mutant: each stream has the whole budget for itself. *)
AcceptedUnshared(s, n) == Smaller(MaxOutput - captured[s], n)

Accepted(s, n) == Smaller(MaxOutput - Sum(captured), n)

ReadChunk(s) ==
  /\ reader[s] = "reading"
  /\ \E n \in 1..(written[s] - taken[s]) :
       /\ taken' = [taken EXCEPT ![s] = @ + n]
       /\ captured' = [captured EXCEPT ![s] = @ + Accepted(s, n)]
       /\ limit' = (limit \/ Accepted(s, n) < n)
  /\ UNCHANGED <<reader, processVars, mainVars, expired>>

EndOfStream(s) ==
  /\ reader[s] = "reading" /\ client = "exited" /\ taken[s] = written[s]
  /\ reader' = [reader EXCEPT ![s] = "done"]
  /\ UNCHANGED <<taken, captured, limit, processVars, mainVars, expired>>

-----------------------------------------------------------------------------
(* The main thread                                                         *)

Goto(step) == main' = step /\ UNCHANGED <<exitCode, processVars, readerVars, expired>>

Poll ==
  /\ main = "poll"
  /\ Goto(IF client = "exited" THEN "join" ELSE "limit")
  /\ UNCHANGED <<timedOut, violation>>

CheckLimit ==
  /\ main = "limit"
  /\ IF limit THEN violation' = "output" /\ Goto("join")
              ELSE violation' = "none" /\ Goto("growth")
  /\ UNCHANGED timedOut

(* WorkspaceBudget.check() measures twice a second at most. *)
Measured == grown > GrowthLimit
CheckResult == IF Measured THEN {"none", "growth"} ELSE {"none"}

CheckGrowth ==
  /\ main = "growth"
  /\ violation' \in CheckResult
  /\ Goto(IF violation' = "none" THEN "deadline" ELSE "join")
  /\ UNCHANGED timedOut

CheckDeadline ==
  /\ main = "deadline"
  /\ timedOut' = expired
  /\ Goto(IF expired THEN "join" ELSE "poll")
  /\ UNCHANGED violation

AllRead == \A s \in Stream : reader[s] = "done"

JoinReaders ==
  /\ main = "join" /\ (client = "exited" => AllRead)
  /\ Goto("recheck")
  /\ UNCHANGED <<timedOut, violation>>

Recheck ==
  /\ main = "recheck"
  /\ IF violation # "none" THEN violation' = violation
     ELSE IF limit THEN violation' = "output"
     ELSE IF timedOut THEN violation' = "none" ELSE violation' \in CheckResult
  /\ Goto("stop")
  /\ UNCHANGED timedOut

Stopping == timedOut \/ violation # "none"

(* Mutant: only the client is stopped. *)
TerminateNothing ==
  /\ main = "stop"
  /\ main' = "kill"
  /\ UNCHANGED <<exitCode, timedOut, violation, processVars, readerVars, expired>>

(* terminate(): the container is removed by force, which fails, too, while *)
(* there is none yet.                                                      *)
Terminate ==
  /\ main = "stop"
  /\ \/ ~Stopping /\ container' = container
     \/ Stopping /\ container' = IF container = "ended" THEN "ended" ELSE "gone"
     \/ Stopping /\ container \in {"starting", "running"} /\ container' = "stuck"
  /\ main' = "kill"
  /\ UNCHANGED <<exitCode, timedOut, violation, client, code, written, grown, readerVars, expired>>

Kill ==
  /\ main = "kill"
  /\ \/ (~Stopping \/ client = "exited" \/ Unkillable) /\ UNCHANGED <<client, code>>
     \/ Stopping /\ client = "running" /\ client' = "exited" /\ code' = KilledCode
  /\ main' = "wait"
  /\ UNCHANGED <<exitCode, timedOut, violation, container, written, grown, readerVars, expired>>

(* Mutant: process.wait() without a time limit. *)
WaitForever ==
  /\ main = "wait"
  /\ exitCode' = IF timedOut THEN 124 ELSE IF violation # "none" THEN 125 ELSE code
  /\ client = "exited"
  /\ main' = "collect"
  /\ UNCHANGED <<timedOut, violation, processVars, readerVars, expired>>

(* process.wait(timeout=5) *)
Wait ==
  /\ main = "wait"
  /\ exitCode' = IF timedOut THEN 124 ELSE IF violation # "none" THEN 125 ELSE code
  /\ client = "exited" \/ (Stopping /\ Unkillable)
  /\ main' = "collect"
  /\ UNCHANGED <<timedOut, violation, processVars, readerVars, expired>>

Collect ==
  /\ main = "collect" /\ (AllRead \/ client = "running")
  /\ Goto("collected")
  /\ UNCHANGED <<timedOut, violation>>

MainStep ==
  \/ Poll \/ CheckLimit \/ CheckGrowth \/ CheckDeadline
  \/ JoinReaders \/ Recheck \/ Terminate \/ Kill \/ Wait \/ Collect

Around ==
  \/ \E s \in Stream : WriteOutput(s)
  \/ ContainerStarts \/ StartFails \/ Grow \/ CommandEnds \/ ClientEnds \/ DeadlinePasses

ReaderStep(s) == ReadChunk(s) \/ EndOfStream(s)
=============================================================================
