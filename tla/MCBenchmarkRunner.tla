-------------------------- MODULE MCBenchmarkRunner --------------------------
(* A case with fixture and holdout tests in two repository modes, and a    *)
(* case with a workspace to reset, run for each mode too.                  *)
EXTENDS BenchmarkRunner

MCCaseList == <<"isolated", "legacy">>
MCStrategiesOf == [c \in {"isolated", "legacy"} |-> <<"traceback">>]
MCModes == <<"legacy", "repository">>
=============================================================================
