---------------------------- MODULE CommandPolicy ----------------------------
(***************************************************************************)
(* Which commands are run: execution/test_policy.py admits the configured  *)
(* ones, sandbox/policy.py and the container's dependency policy have the  *)
(* last word. A command is [exe, module, words, rmrf]: the program, what   *)
(* follows python -m (or "none"), the lower-case names among its arguments *)
(* and whether "rm -rf" occurs in the arguments joined by blanks.          *)
(***************************************************************************)
CONSTANTS Dangerous,    \* DANGEROUS_TOKENS
          Shell         \* _SHELL_TOKENS

(* TestCommandPolicy.validate() *)
Admitted(c) ==
  /\ c.words \cap Shell = {}
  /\ c.exe = "pytest" \/ (c.exe = "python" /\ c.module = "pytest")

(* is_command_allowed(): python may run anything, but no argument may have *)
(* the name of a dangerous program, not even the name of a test, and none  *)
(* that ends in "rm" may come before the option -rf of pytest.             *)
Allowed(c) ==
  /\ ~c.rmrf
  /\ c.exe \in {"pytest", "python"} /\ ({c.exe} \cup c.words) \cap Dangerous = {}

(* _is_dependency_install() *)
Installs(c) == c.exe \in {"pip", "pip3", "poetry", "uv"} \/ (c.exe = "python" /\ c.module = "pip")

Runs(c) == Allowed(c) /\ ~Installs(c)
=============================================================================
