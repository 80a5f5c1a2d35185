----------------------- MODULE ContainerSandboxProofs -----------------------
(***************************************************************************)
(* Safety of ContainerSandbox for any limits, commands and interleaving of *)
(* the two readers, the main thread, the container and its client.         *)
(***************************************************************************)
EXTENDS ContainerSandbox, TLAPS

(* Steps up to terminate(), and after it. *)
Watching == {"poll", "limit", "growth", "deadline", "join", "recheck", "stop"}
Stopped == {"kill", "wait", "collect", "collected"}

TypesOK ==
  /\ main \in Watching \cup Stopped \cup {"idle", "validate"}
  /\ client \in {"none", "running", "exited"}
  /\ container \in {"none", "starting", "running", "stuck", "ended", "gone"}
  /\ limit \in BOOLEAN /\ timedOut \in BOOLEAN
  /\ written \in [Stream -> Nat] /\ taken \in [Stream -> Nat] /\ captured \in [Stream -> Nat]
  /\ reader \in [Stream -> {"none", "reading", "done"}]
  /\ grown \in Nat /\ expired \in BOOLEAN /\ exitCode \in Nat /\ code \in Nat
  /\ violation \in {"none", "output", "growth"}
  /\ result \in [code : Nat, timeout : BOOLEAN, violation : {"none", "output", "growth"},
                 infrastructure : BOOLEAN, truncated : BOOLEAN]

(* What is read was written, what is kept was read, and a reader that has  *)
(* ended has read all that there will be.                                  *)
Counts ==
  /\ \A s \in Stream : captured[s] <= taken[s] /\ taken[s] <= written[s]
  /\ \A s \in Stream : reader[s] = "done" => client = "exited" /\ taken[s] = written[s]
  /\ OutputIsBounded

(* The command ended unstopped, or its container could not be started. *)
Ended ==
  /\ client = "exited"
  /\ \/ container = "ended" /\ code \in Codes
     \/ container = "gone" /\ code \in {125, 126, 127}

(* Nothing is stopped but for a reason, which stays known; without one the *)
(* command has ended, both readers have, and the limit was not reached.    *)
Reasons ==
  /\ main \in Watching =>
       (client = "running" /\ container \in {"starting", "running"}) \/ Ended
  /\ main \in {"join", "recheck", "stop"} \cup Stopped => Stopping \/ Ended
  /\ main \in {"recheck", "stop"} \cup Stopped => Stopping \/ AllRead
  /\ main \in {"stop"} \cup Stopped => Stopping \/ ~limit
  /\ main \in {"collect", "collected"} => Stopping \/ exitCode = code
  /\ main \in Stopped \cup {"idle", "validate"} => container \notin {"starting", "running"}

(* A result that tells of no trouble. *)
Quiet == main = "idle" /\ client # "none" /\ ~result.infrastructure /\ ~result.timeout

Complete ==
  /\ Ended /\ container = "ended" /\ AllRead
  /\ result.violation = "none" /\ ~result.truncated
  /\ result.code = code /\ code \in Codes /\ captured = written /\ grown <= GrowthLimit

Results == Quiet => Complete

SInv == TypesOK /\ Counts /\ Reasons /\ Results

-----------------------------------------------------------------------------

LEMMA InitInv == Init => SInv
<1> SUFFICES ASSUME Init PROVE SInv
  OBVIOUS
<1> USE BudgetAssumption DEF Init, Idle, NoUnits, Stream
<1>1. TypesOK
  BY DEF TypesOK, Watching, Stopped, NoResult
<1>2. Counts
  BY DEF Counts, OutputIsBounded, Sum
<1>3. Reasons /\ Results
  BY DEF Reasons, Results, Quiet, Watching, Stopped
<1> QED
  BY <1>1, <1>2, <1>3 DEF SInv

(* One chunk: the lock makes reading the budget and taking from it a step. *)
LEMMA ChunkCounts ==
  ASSUME SInv, NEW s \in Stream, ReadChunk(s)
  PROVE  /\ taken' \in [Stream -> Nat] /\ captured' \in [Stream -> Nat] /\ limit' \in BOOLEAN
         /\ Counts'
<1> USE DEF SInv, TypesOK, Counts
<1>1. PICK n \in 1..(written[s] - taken[s]) :
        /\ taken' = [taken EXCEPT ![s] = @ + n]
        /\ captured' = [captured EXCEPT ![s] = @ + Accepted(s, n)]
        /\ limit' = (limit \/ Accepted(s, n) < n)
  BY DEF ReadChunk
<1>2. UNCHANGED <<written, reader, client>> /\ reader[s] = "reading"
  BY DEF ReadChunk, processVars
<1>3. n \in Nat /\ n >= 1 /\ taken[s] + n <= written[s]
  BY <1>1
<1>4. Sum(captured) \in Nat /\ Sum(captured) <= MaxOutput
  BY DEF Sum, Stream, OutputIsBounded
<1>5. /\ Accepted(s, n) \in Nat /\ Accepted(s, n) <= n
      /\ Sum(captured) + Accepted(s, n) <= MaxOutput
      /\ Accepted(s, n) < n => Sum(captured) + Accepted(s, n) = MaxOutput
  BY <1>3, <1>4, BudgetAssumption DEF Accepted, Smaller
<1>6. taken' \in [Stream -> Nat] /\ captured' \in [Stream -> Nat] /\ limit' \in BOOLEAN
  BY <1>1, <1>3, <1>5
<1>7. \A t \in Stream : /\ captured'[t] <= taken'[t] /\ taken'[t] <= written'[t]
                        /\ reader'[t] = "done" => client' = "exited" /\ taken'[t] = written'[t]
  BY <1>1, <1>2, <1>3, <1>5
<1>8. Sum(captured') = Sum(captured) + Accepted(s, n) /\ Sum(taken') = Sum(taken) + n
  BY <1>1, <1>3, <1>5 DEF Sum, Stream
<1>9. Sum(captured) <= Sum(taken) /\ Sum(taken) \in Nat
  BY DEF Sum, Stream
<1>10. OutputIsBounded'
  <2>1. Sum(captured') <= MaxOutput
    BY <1>5, <1>8
  <2>2. ASSUME Sum(captured') < Sum(taken')
        PROVE  limit' /\ Sum(captured') = MaxOutput
    <3>1. CASE Accepted(s, n) < n
      BY <1>1, <1>5, <1>8, <3>1
    <3>2. CASE Accepted(s, n) = n
      <4>1. Sum(captured) < Sum(taken)
        BY <1>3, <1>4, <1>8, <1>9, <2>2, <3>2
      <4>2. limit /\ Sum(captured) = MaxOutput
        BY <4>1 DEF OutputIsBounded
      <4> QED
        BY <1>1, <1>3, <1>4, <1>5, <3>2, <4>2, BudgetAssumption
    <3> QED
      BY <1>3, <1>5, <3>1, <3>2
  <2> QED
    BY <2>1, <2>2 DEF OutputIsBounded
<1> QED
  BY <1>6, <1>7, <1>10 DEF Counts

(* Every step keeps each part of the invariant: its types, ...             *)
LEMMA NextTypes ==
  ASSUME SInv, [Next]_vars
  PROVE  TypesOK'
<1> USE DEF SInv, TypesOK, Watching, Stopped,
        vars, boundedVars, processVars, readerVars, mainVars, sandboxVars
<1>1. CASE Start
  BY <1>1 DEF Start, Begins, NoResult
<1>2. CASE Refuse
  BY <1>2 DEF Refuse, InfrastructureResult, Returns
<1>3. CASE Unavailable
  BY <1>3 DEF Unavailable, Installed, InfrastructureResult, Returns
<1>4. CASE NoWorkspace
  BY <1>4 DEF NoWorkspace, Installed, InfrastructureResult, Returns
<1>5. CASE Preflight
  BY <1>5 DEF Preflight, Installed
<1>6. CASE Run
  BY <1>6 DEF Run, Installed, Popen, NoUnits, Stream
<1>7. CASE CommandResult
  BY <1>7 DEF CommandResult, Returns, Measured
<1>8. CASE DaemonChanges
  BY <1>8 DEF DaemonChanges
<1>9. CASE (ContainerStarts \/ StartFails) /\ UNCHANGED sandboxVars
  BY <1>9 DEF ContainerStarts, StartFails
<1>10. CASE (Poll \/ CheckLimit) /\ UNCHANGED sandboxVars
  BY <1>10 DEF Poll, CheckLimit, Goto
<1>11. CASE CheckGrowth /\ UNCHANGED sandboxVars
  BY <1>11 DEF CheckGrowth, Goto, CheckResult, Measured
<1>12. CASE CheckDeadline /\ UNCHANGED sandboxVars
  BY <1>12 DEF CheckDeadline, Goto
<1>13. CASE (JoinReaders \/ Recheck) /\ UNCHANGED sandboxVars
  BY <1>13 DEF JoinReaders, Recheck, Goto, CheckResult, Measured
<1>14. CASE (Terminate \/ Kill) /\ UNCHANGED sandboxVars
  BY <1>14 DEF Terminate, Kill, KilledCode
<1>15. CASE (Wait \/ Collect) /\ UNCHANGED sandboxVars
  BY <1>15 DEF Wait, Collect, Goto
<1>16. ASSUME NEW s \in Stream, WriteOutput(s), UNCHANGED sandboxVars
       PROVE  TypesOK'
  BY <1>16 DEF WriteOutput, Live
<1>17. CASE Grow /\ UNCHANGED sandboxVars
  BY <1>17 DEF Grow, Live
<1>18. CASE (CommandEnds \/ ClientEnds) /\ UNCHANGED sandboxVars
  <2>1. code' \in Nat
    <3> HIDE DEF TypesOK, SInv
    <3>1. Codes \subseteq Nat /\ KilledCode \in Nat
      BY BudgetAssumption DEF KilledCode
    <3> QED
      BY <1>18, <3>1 DEF CommandEnds, ClientEnds
  <2> QED
    BY <1>18, <2>1 DEF CommandEnds, ClientEnds, Live
<1>19. CASE DeadlinePasses /\ UNCHANGED sandboxVars
  BY <1>19 DEF DeadlinePasses
<1>20. ASSUME NEW s \in Stream, ReadChunk(s), UNCHANGED sandboxVars
       PROVE  TypesOK'
  <2>1. taken' \in [Stream -> Nat] /\ captured' \in [Stream -> Nat] /\ limit' \in BOOLEAN
    BY <1>20, ChunkCounts
  <2>2. UNCHANGED <<reader, processVars, mainVars, expired, result>>
    BY <1>20 DEF ReadChunk
  <2> QED
    BY <2>1, <2>2
<1>21. ASSUME NEW s \in Stream, EndOfStream(s), UNCHANGED sandboxVars
       PROVE  TypesOK'
  BY <1>21 DEF EndOfStream
<1>22. CASE UNCHANGED vars
  BY <1>22
<1>23. CASE NotInstalled
  BY <1>23 DEF NotInstalled, InfrastructureResult, Returns
<1> QED
  BY <1>1, <1>2, <1>3, <1>4, <1>5, <1>6, <1>7, <1>8, <1>9, <1>10, <1>11, <1>12, <1>13,
     <1>14, <1>15, <1>16, <1>17, <1>18, <1>19, <1>20, <1>21, <1>22, <1>23
     DEF Next, MainStep, Around, ReaderStep

(* ... the relations between the units written, read and kept, ...         *)
LEMMA NextCounts ==
  ASSUME SInv, [Next]_vars
  PROVE  Counts'
<1> USE DEF SInv, Counts, OutputIsBounded, TypesOK,
        vars, boundedVars, processVars, readerVars, mainVars, sandboxVars
<1>1. CASE Start
  BY <1>1 DEF Start, Begins, NoResult
<1>2. CASE Refuse
  BY <1>2 DEF Refuse, InfrastructureResult, Returns
<1>3. CASE Unavailable
  BY <1>3 DEF Unavailable, Installed, InfrastructureResult, Returns
<1>4. CASE NoWorkspace
  BY <1>4 DEF NoWorkspace, Installed, InfrastructureResult, Returns
<1>5. CASE Preflight
  BY <1>5 DEF Preflight, Installed
<1>6. CASE Run
  BY <1>6, BudgetAssumption DEF Run, Popen, NoUnits, Stream, Sum
<1>7. CASE CommandResult
  BY <1>7 DEF CommandResult, Returns, Measured
<1>8. CASE DaemonChanges
  BY <1>8 DEF DaemonChanges
<1>9. CASE (ContainerStarts \/ StartFails) /\ UNCHANGED sandboxVars
  BY <1>9 DEF ContainerStarts, StartFails
<1>10. CASE (Poll \/ CheckLimit) /\ UNCHANGED sandboxVars
  BY <1>10 DEF Poll, CheckLimit, Goto
<1>11. CASE CheckGrowth /\ UNCHANGED sandboxVars
  BY <1>11 DEF CheckGrowth, Goto, CheckResult, Measured
<1>12. CASE CheckDeadline /\ UNCHANGED sandboxVars
  BY <1>12 DEF CheckDeadline, Goto
<1>13. CASE (JoinReaders \/ Recheck) /\ UNCHANGED sandboxVars
  BY <1>13 DEF JoinReaders, Recheck, Goto, CheckResult, Measured
<1>14. CASE (Terminate \/ Kill) /\ UNCHANGED sandboxVars
  BY <1>14 DEF Terminate, Kill
<1>15. CASE (Wait \/ Collect) /\ UNCHANGED sandboxVars
  BY <1>15 DEF Wait, Collect, Goto
<1>16. ASSUME NEW s \in Stream, WriteOutput(s), UNCHANGED sandboxVars
       PROVE  Counts'
  BY <1>16 DEF WriteOutput, Live, Sum, Stream
<1>17. CASE Grow /\ UNCHANGED sandboxVars
  BY <1>17 DEF Grow, Live
<1>18. CASE (CommandEnds \/ ClientEnds) /\ UNCHANGED sandboxVars
  BY <1>18 DEF CommandEnds, ClientEnds, Live
<1>19. CASE DeadlinePasses /\ UNCHANGED sandboxVars
  BY <1>19 DEF DeadlinePasses
<1>20. ASSUME NEW s \in Stream, ReadChunk(s), UNCHANGED sandboxVars
       PROVE  Counts'
  BY <1>20, ChunkCounts DEF ReadChunk
<1>21. ASSUME NEW s \in Stream, EndOfStream(s), UNCHANGED sandboxVars
       PROVE  Counts'
  BY <1>21 DEF EndOfStream
<1>22. CASE UNCHANGED vars
  BY <1>22
<1>23. CASE NotInstalled
  BY <1>23 DEF NotInstalled, InfrastructureResult, Returns
<1> QED
  BY <1>1, <1>2, <1>3, <1>4, <1>5, <1>6, <1>7, <1>8, <1>9, <1>10, <1>11, <1>12, <1>13,
     <1>14, <1>15, <1>16, <1>17, <1>18, <1>19, <1>20, <1>21, <1>22, <1>23
     DEF Next, MainStep, Around, ReaderStep

(* ... the reasons for stopping, and ...                                   *)
LEMMA NextReasons ==
  ASSUME SInv, [Next]_vars
  PROVE  Reasons'
<1> USE DEF SInv, Reasons, TypesOK, Counts, Ended, Stopping, AllRead, Watching, Stopped,
        vars, boundedVars, processVars, readerVars, mainVars, sandboxVars
<1>1. CASE Start
  BY <1>1 DEF Start, Begins, NoResult
<1>2. CASE Refuse
  BY <1>2 DEF Refuse, InfrastructureResult, Returns
<1>3. CASE Unavailable
  BY <1>3 DEF Unavailable, Installed, InfrastructureResult, Returns
<1>4. CASE NoWorkspace
  BY <1>4 DEF NoWorkspace, Installed, InfrastructureResult, Returns
<1>5. CASE Preflight
  BY <1>5 DEF Preflight, Installed
<1>6. CASE Run
  BY <1>6 DEF Run, Installed, Popen, NoUnits, Stream
<1>7. CASE CommandResult
  BY <1>7 DEF CommandResult, Returns, Measured
<1>8. CASE DaemonChanges
  BY <1>8 DEF DaemonChanges
<1>9. CASE (ContainerStarts \/ StartFails) /\ UNCHANGED sandboxVars
  BY <1>9 DEF ContainerStarts, StartFails
<1>10. CASE (Poll \/ CheckLimit) /\ UNCHANGED sandboxVars
  BY <1>10 DEF Poll, CheckLimit, Goto
<1>11. CASE CheckGrowth /\ UNCHANGED sandboxVars
  BY <1>11 DEF CheckGrowth, Goto, CheckResult, Measured
<1>12. CASE CheckDeadline /\ UNCHANGED sandboxVars
  BY <1>12 DEF CheckDeadline, Goto
<1>13. CASE (JoinReaders \/ Recheck) /\ UNCHANGED sandboxVars
  BY <1>13 DEF JoinReaders, Recheck, Goto, CheckResult, Measured
<1>14. CASE (Terminate \/ Kill) /\ UNCHANGED sandboxVars
  BY <1>14 DEF Terminate, Kill
<1>15. CASE (Wait \/ Collect) /\ UNCHANGED sandboxVars
  BY <1>15 DEF Wait, Collect, Goto
<1>16. ASSUME NEW s \in Stream, WriteOutput(s), UNCHANGED sandboxVars
       PROVE  Reasons'
  BY <1>16 DEF WriteOutput, Live
<1>17. CASE Grow /\ UNCHANGED sandboxVars
  BY <1>17 DEF Grow, Live
<1>18. CASE (CommandEnds \/ ClientEnds) /\ UNCHANGED sandboxVars
  BY <1>18 DEF CommandEnds, ClientEnds, Live, KilledCode
<1>19. CASE DeadlinePasses /\ UNCHANGED sandboxVars
  BY <1>19 DEF DeadlinePasses
<1>20. ASSUME NEW s \in Stream, ReadChunk(s), UNCHANGED sandboxVars
       PROVE  Reasons'
  BY <1>20, ChunkCounts DEF ReadChunk
<1>21. ASSUME NEW s \in Stream, EndOfStream(s), UNCHANGED sandboxVars
       PROVE  Reasons'
  BY <1>21 DEF EndOfStream
<1>22. CASE UNCHANGED vars
  BY <1>22
<1>23. CASE NotInstalled
  BY <1>23 DEF NotInstalled, InfrastructureResult, Returns
<1> QED
  BY <1>1, <1>2, <1>3, <1>4, <1>5, <1>6, <1>7, <1>8, <1>9, <1>10, <1>11, <1>12, <1>13,
     <1>14, <1>15, <1>16, <1>17, <1>18, <1>19, <1>20, <1>21, <1>22, <1>23
     DEF Next, MainStep, Around, ReaderStep

(* While a quiet result stands, nothing moves around the main thread. *)
LEMMA NothingMoves ==
  ASSUME TypesOK, Complete
  PROVE  /\ ~Grow /\ ~CommandEnds /\ ~ClientEnds /\ ~ContainerStarts /\ ~StartFails
         /\ \A s \in Stream : ~WriteOutput(s) /\ ~ReadChunk(s) /\ ~EndOfStream(s)
BY DEF Complete, Ended, AllRead, Grow, CommandEnds, ClientEnds, ContainerStarts, StartFails, WriteOutput,
       ReadChunk, EndOfStream, Live

(* ... what a quiet result says.                                           *)
LEMMA NextResults ==
  ASSUME SInv, [Next]_vars
  PROVE  Results'
<1> SUFFICES ASSUME Quiet'
             PROVE  Complete'
  BY DEF Results
<1> USE DEF SInv, TypesOK, Quiet, vars, boundedVars, processVars, readerVars, mainVars, sandboxVars
<1>1. CASE CommandResult
  <2>1. ~timedOut /\ violation = "none" /\ ~Measured /\ exitCode \notin {125, 126, 127}
    BY <1>1 DEF CommandResult, Returns
  <2>2. /\ result'.violation = "none" /\ result'.truncated = limit /\ result'.code = exitCode
        /\ UNCHANGED <<client, code, container, written, grown, taken, captured, reader>>
        /\ main = "collected"
    BY <1>1, <2>1 DEF CommandResult, Returns
  <2>3. Ended /\ AllRead /\ ~limit /\ exitCode = code
    BY <2>1, <2>2 DEF Reasons, Stopping, Stopped
  <2>4. code \in Codes /\ container = "ended"
    BY <2>1, <2>3 DEF Ended
  <2>5. grown <= GrowthLimit
    BY <2>1, BudgetAssumption DEF Measured
  <2>6. captured = written
    <3>1. Sum(captured) = Sum(taken)
      BY <2>3 DEF Counts, OutputIsBounded, Sum, Stream
    <3>2. /\ captured \in [Stream -> Nat] /\ taken \in [Stream -> Nat] /\ written \in [Stream -> Nat]
          /\ \A s \in Stream : captured[s] <= taken[s]
          /\ \A s \in Stream : reader[s] = "done" => taken[s] = written[s]
      BY DEF Counts
    <3> HIDE DEF TypesOK, SInv
    <3>3. captured["stdout"] = taken["stdout"] /\ captured["stderr"] = taken["stderr"]
      BY <3>1, <3>2 DEF Sum, Stream
    <3>4. \A s \in Stream : taken[s] = written[s]
      BY <2>3, <3>2 DEF AllRead
    <3> QED
      BY <3>2, <3>3, <3>4 DEF Stream
  <2> QED
    BY <2>2, <2>3, <2>4, <2>5, <2>6 DEF Complete, Ended, AllRead
<1>2. CASE DaemonChanges
  BY <1>2 DEF DaemonChanges, Results, Complete, Ended, AllRead
<1>3. CASE Start \/ Refuse \/ NotInstalled \/ Preflight \/ Unavailable \/ NoWorkspace \/ Run
  BY <1>3 DEF Start, Begins, Refuse, NotInstalled, Installed, Preflight, Unavailable,
              NoWorkspace, Run, Popen, InfrastructureResult, Returns
<1>4. CASE MainStep
  BY <1>4 DEF MainStep, Poll, CheckLimit, CheckGrowth, CheckDeadline, JoinReaders, Recheck,
              Terminate, Kill, Wait, Collect, Goto
<1>5. CASE /\ ContainerStarts \/ StartFails \/ Grow \/ CommandEnds \/ ClientEnds \/ DeadlinePasses
           /\ UNCHANGED sandboxVars
  <2>1. Quiet /\ ~DeadlinePasses
    BY <1>5 DEF ContainerStarts, StartFails, Grow, CommandEnds, ClientEnds, DeadlinePasses
  <2> QED
    BY <1>5, <2>1, NothingMoves DEF Results
<1>6. ASSUME NEW s \in Stream, WriteOutput(s) \/ ReadChunk(s) \/ EndOfStream(s), UNCHANGED sandboxVars
      PROVE  FALSE
  <2>1. Quiet
    BY <1>6 DEF WriteOutput, ReadChunk, EndOfStream
  <2> QED
    BY <1>6, <2>1, NothingMoves DEF Results
<1>7. CASE UNCHANGED vars
  BY <1>7 DEF Results, Complete, Ended, AllRead
<1> QED
  BY <1>1, <1>2, <1>3, <1>4, <1>5, <1>6, <1>7 DEF Next, Around, ReaderStep

LEMMA Invariance == Spec => []SInv
<1>1. SInv /\ [Next]_vars => SInv'
  BY NextTypes, NextCounts, NextReasons, NextResults DEF SInv
<1> QED
  BY <1>1, InitInv, PTL DEF Spec

-----------------------------------------------------------------------------

(* The two readers keep no more than max_output_bytes together and drop    *)
(* nothing while there is room, however they take turns.                   *)
THEOREM OutputBounded == Spec => []OutputIsBounded
<1>1. SInv => OutputIsBounded
  BY DEF SInv, Counts
<1> QED
  BY <1>1, Invariance, PTL

(* No container runs on once its command has returned, unless removing it  *)
(* failed.                                                                 *)
THEOREM ContainerRemoved == Spec => []ContainerIsRemoved
<1>1. SInv => ContainerIsRemoved
  BY DEF SInv, Reasons, ContainerIsRemoved
<1> QED
  BY <1>1, Invariance, PTL

(* A result without a time-out, a violation or an infrastructure error is  *)
(* that of the tests: the container ended with this code without having    *)
(* been stopped, all its output has been kept, and the workspace is within *)
(* its growth when the result is returned.                                 *)
THEOREM QuietResultComplete == Spec => []QuietResultIsComplete
<1>1. SInv => QuietResultIsComplete
  BY DEF SInv, Results, Quiet, Complete, Ended, QuietResultIsComplete
<1> QED
  BY <1>1, Invariance, PTL
=============================================================================
