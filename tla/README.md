# A TLA+ model of PyFixAgent

PyFixAgent repairs a Python project whose tests fail: it runs the tests, asks a
model for an edit, applies it, runs the tests again, keeps or undoes the edit,
and lets a second model review what passes. A second command shows the exported
patch and applies it to a checkout, and a benchmark grades the agent on a list
of cases. These modules model all of that, state what it must never do, check
it on small instances with TLC, and prove the properties that matter most for
every instance with TLAPS. Paths below are relative to `src/pyfixagent/` unless
they start with `docs/` or `README.md`, which are the repository's.

## The system

| Component | State it keeps | Operations | What makes it correct | Modules |
|---|---|---|---|---|
| Repair engine, `core/engine.py` | `AgentState`, `RepairRuntime` | `run`: prepare, iterate, review, report, close | ends; reports only what it can hand over; never loses a passing candidate | `RepairEngine`, `RepairContract`, `RepairEngineContract` |
| Retry policy and context expansion, `repair/retry_policy.py`, `context/policy.py` | edit mode, two failure counters, level | `after_model_error`, `after_apply`, `after_test_failure`, `expand`, `plan` | rolls back what did not help, alternates backends, stays in range | `RetryPolicy`, `RepositoryContext` (`plan`) |
| Test evidence, `execution/test_runner.py`, `context/pytest_summary.py`, `trace.py` | none | run commands in order, read FAILED lines, compare two readings | an attempt is classified by what it did to the tests | `TestEvidence` |
| Review decision, `review/policy.py` | none | `decide` | fails closed, bounded revisions | `ReviewPolicy`, `ReviewParser` |
| Semantic reviewer, `review/reviewer.py`, `parser.py`, `context.py`, `feedback.py` | calls of one review | collect, call, retry, parse, validate, select feedback | every path ends in an outcome or an error; feedback rests on evidence | `SemanticReviewer`, `ReviewParser` |
| Risk scanner, `review/risk_scanner.py` | none | cues for a source | cues are exact where the code says they are | `RiskScanner` |
| Workspace transaction, `execution/workspace_*.py` | temporary worktree, index, HEAD | `begin`, `checkpoint`, `rollback`, `final_diff`, `close` | the exported patch is the last checkpoint; nothing is left behind | `WorkspaceTransaction`, `TransactionContract` |
| Edit backends, `repair/backends/`, `tools/` | files of the workspace | parse, check, plan, write, diff | only allowed files change; failures are reported as what they are | `EditPolicy`, `ReplacementTools`, `PatchTools`, `EditBackends` |
| Patch approval, `apply.py` | digest shown to the user | inspect, compare, apply | what is applied is what was shown | `PatchApproval` |
| Container sandbox, `sandbox/` | process, reader threads, budgets, cached preflight | validate, start, watch, stop, remove | limits hold in every interleaving; results say what happened; containers go away | `BoundedProcess`, `ContainerSandbox` |
| Test command policy, `execution/test_policy.py`, `sandbox/policy.py` | none | admit, allow | | `CommandPolicy` |
| Local sandbox, `sandbox/local_sandbox.py` | none | run a command | | outcomes in `TestEvidence`, `RepairEngine` |
| Repository index, `repository/` | memory and disk cache | fingerprint, load, build, save | a stale entry is never used | `RepositoryIndexer`, `RepositoryContext` |
| Context selection, `context/` | none | seeds, walk of the import graph, budget | bounded, complete within its depth, true to the sources | `RepositoryContext` |
| Benchmark, `benchmarking/` | workspaces of the cases, report | prepare, run, grade, clean up, compare | every trial starts from its baseline; every trial is recorded once | `BenchmarkRunner` |
| Models, prompts, command line, reports | | I/O and wording | | not modelled |

The engine asks the context provider for a prompt, the model for an edit, a
backend to apply it, the test runner for evidence, the retry policy for a
decision, the transaction to checkpoint or roll back, and the reviewer for a
verdict. All of that happens in one thread: what is hard is that any call can
fail between two assignments, that a decision depends on evidence kept from an
earlier attempt, and that a run which holds a good candidate goes on to look
for a better one. Threads run only in the container sandbox, where two readers,
the main thread, the client process and the container race. The user's checkout,
the patch file, the cache directory and the benchmark directories are shared
with the outside: they change between two looks at them, or hold what an
interrupted run left.

## How the modules fit together

Each module is faithful to its part of the source at the grain at which that
part can go wrong; the part above uses an abstraction of it, and the step
between the two is checked where the two modules meet:

    RepairContract  <--implements--  RepairEngine  (TestEvidence, RetryPolicy, ReviewPolicy)
                                      |      |      |        |
      TransactionContract <-----------+      |      |        +--> ContainerSandbox results
        ^ implements                         |      |             (QuietResultIsComplete)
      WorkspaceTransaction                   |      +--> ReviewPolicy = SemanticReviewer's
                                             |           decision (DecisionAgrees)
                                  ApplyResult of EditBackends
                                  (ResultsMatchEngine)

* `RepairEngine` takes checkpoints and rollbacks as atomic. `WorkspaceTransaction`
  goes through the git commands one by one, each of which may succeed, fail or be
  killed by its time limit before or after it took effect, and implements
  `TransactionContract`, which states that atomicity.
* `RepairEngine` takes the result of an edit from the set `ApplyResult` of
  `RetryPolicy`. `EditBackends` writes files one after another and runs git; its
  property `ResultsMatchEngine` says that every result is in that set and that
  the worktree is untouched when the engine believes so.
* `RepairEngine` uses `ReviewPolicy` on the kinds of the risks of an outcome.
  `SemanticReviewer` has risks with evidence, examples and ids, and
  `DecisionAgrees` says that both decide alike.
* `RepairEngine` trusts a test result that reports no time-out and no
  infrastructure error. `QuietResultIsComplete` says that the container sandbox
  produces such a result only for a command that really ended that way.
* `PatchApproval` composes `EditBackends`, the export and `apply.py`.
* `BenchmarkRunner` takes the agent as its outcome; `RepairContract` says which
  outcomes there are.

Next to some definitions stands an altered copy, introduced by a comment that
starts with "Mutant". Specifications do not use them. Each is the definition as
a plausible bug would leave it, and `PROJECT.json` says which property then
fails: it documents what the property is good for.

## Correspondence of actions

### `RepairEngine`

`pc` is the place in `run()`; `wt` is the content of the workspace, `head` that
of the worktree's HEAD; the remaining variables are fields of `AgentState`,
`RepairRuntime` and `RetryPolicy` with the code's names, except that `current`
pairs `current_test_output` with the content it came from, `feedback` says what
the feedback text talks about, and `reviewed` remembers the diff the reviewer
saw. `raising` is an exception on its way out of `run()`.

| Action | Code |
|---|---|
| `PrepareFails`, `Prepare`, `PrepareExpires` | `WorkspaceSession.prepare`, `WorkspaceTransaction.begin`, `inspect_workspace` |
| `RunBaseline` | rest of `_prepare` |
| `ModelFails` | `_handle_model_error` |
| `Attempt` | `_plan_and_generate`, `_apply` |
| `HandleApplyFailure`, `Verify`, `RetryAfterTestFailure` | handlers of the same names |
| `CheckpointCandidate` | `_checkpoint_visible_candidate` |
| `ReviewCandidate` with `Accept`, `Revise`, `Refuse` | `_run_semantic_review`, `_record_review`, `_apply_review_decision` |
| `IterationLimit` | `_mark_iteration_limit` |
| `Report`, `ExportFails`, `Close`, `CloseFails` | the `finally` block |
| `CallRaises` | the `except` clause of `run` |
| `GitExpires`, `TestTimeoutRaises` | exceptions the clause does not list |

The environment (both models, pytest, git) answers freely. An edit may produce
any content. A test run gives the content's result, a time-out, or an
infrastructure error. `TestEvidence` abstracts a content to what its tests do:
`Printed` is what pytest lists as failed (nothing if the tests cannot be
collected, and only the failures of the first failing command); `NotPassing` is
what is really broken, which is not in the code and is there to compare with.
The constant `Faults` says which calls may go wrong beyond that: writes that
stop half way, calls that raise `OSError`, `RuntimeError` or `ValueError`, git
commands that exceed their time limit, and local test runs whose time-out
carries undecoded output.

### `WorkspaceTransaction`

`tree`, `index` and `head` map files to contents; `temp`, `repo` and `entry` say
whether the temporary directory, the worktree in it and git's entry for it
exist; `pc` names the git command that is next. `close` ignores the exit status
of `git worktree prune` (`PruneFails`); `failed` remembers which of the two
commands that remove git's entry have failed.

| Action | Code |
|---|---|
| `Refuse`, `BeginAdd`, `WorktreeAdd`, `WorktreeAddFails`, `NoSubdirectory`, `BeginRaises` | `WorkspaceSession.prepare`, `begin` |
| `Write` | edits and tests between two calls |
| `Call("add")`, `StageAll`, `NothingStaged`, `SomethingStaged`, `Commit`, `ReadHead` | `checkpoint` |
| `Call("reset")`, `Reset`, `Clean` | `rollback` |
| `CommandFails`, `CommandExpires` | `_git` raising |
| `Export`, `ExportFails` | `final_diff` |
| `WorktreeRemove`, `WorktreeRemoveFails`, `Prune`, `PruneFails`, `Erase`, `CloseRaises` | `close` |

### `SemanticReviewer`, `ReviewParser`, `RiskScanner`

`BuildContext` is `ReviewContextBuilder.build` with the scan of the changed
files that fit; `ModelAnswers` and `ModelFails` are one call in the loop of
retries; `AcceptAnswer` and `RejectAnswer` are the parse with the validation of
the evidence; `Decided` is `decide` with `build_revision_feedback`, which records the
ids of the whole feedback (`named`) and cuts its text at `max_feedback_chars`, so
that the repair model may be told of some of the risks only (`told`, one of the
`FeedbackTexts`). `calls` is a history of which calls failed. An answer of the model is a record of what the
parser looks at, entry by entry (its wording is "ok", "missing" or "long"). A
source is the set of facts the scanner looks for: if statements with the
comparisons anywhere in their conditions, how these are joined, and where below
it they raise (`Guards` is `_has_non_positive_guard`, which takes any of the
comparisons and any of the raises); substitutions with their quantifier. The
module also defines what guards reject and what `re.sub` returns, so that the
cues can be compared with the meaning of the code they are about.

### `EditBackends`, `PatchApproval`

A text is a sequence of characters, line ends included, a replacement is a
record with two texts and a line, and a diff is a list of blocks, each the
change of one file. `ParseFails`, `PlanFails`, `PlanEdits`, `WriteFile`,
`WriteFails`, `Written` are `ReplacementBackend`; `ParseFails`, `CheckFails`,
`ApplyPatch`, `ApplyExpires` are `PatchBackend`; `DiffTaken` and `DiffFails` end
both. `PatchApproval` adds `TestsWrite` and `Export`, the steps of `apply.py`
(`StartCommand`, `InspectWorkspace`, `InspectPatch`, `CompareDigest`,
`InspectAgain`, `ApplyApproved`, and `ApplyApprovedExpires`, where `git apply` is
killed and each of its files is as before, as patched, or removed) and somebody who edits or commits the checkout
or replaces the patch file between any two of them.

### `BoundedProcess`, `ContainerSandbox`

`BoundedProcess` has the main thread (`MainStep`), two readers (`ReaderStep`) and
what is around them (`Around`: the container writes, grows and ends, the client
ends, the deadline passes). Captured output and growth are counted in units;
growth goes up and down, since files are written and deleted (`Grow`), and is seen
when it is measured. The command ends with any code of `Codes`, that of a kill by
the kernel included (`CommandEnds`), or the client fails before it
starts it, with 125, 126 or 127 (`StartFails`).
`ContainerSandbox` adds what happens before and after: `Refuse` (validation of
the command), `NotInstalled` (no client on the path), `Preflight` and
`Unavailable` (the cached answer of the runtime), `NoWorkspace`, `Run`,
`CommandResult`, and a daemon that comes and goes.

### `RepositoryContext`, `RepositoryIndexer`

`SelectSeeds` and `SelectionFails` are `ContextSelector` (it raises on a file it
opens but cannot decode: a seed, a failing test or, with the full context, any
file), `FindIndex`, `LoadRaises`, `BuildIndex` and `SaveFails` are `RepositoryIndexService.get` with the store,
`Visit` handles one file of the queue in `_rank_neighbors`, and `Expand` is the
rest of `RepositoryContextExpander`. A line is its length. `EditAndAsk` changes
the workspace and asks again, from this process or after a restart; `Damage`
makes a cache file unreadable, puts another one or a value that is no object in
its place, or takes its list of edges away (`Emptied`).

### `BenchmarkRunner`

`ResetPlace`, `ResetFails`, `RemoveStale`, `CopyFixture`, `CopyFails`,
`CommitBaseline`, `CommitFails` are `IsolatedWorkspaceFactory.prepare`;
`RunAgent`, `Materialize`, `MaterializeFails`, `Expose`, `Judge`, `Hide` are
`_run_prepared_workspace` with the holdout evaluator; `BuildRecord`, `SaveFails`,
`RunnerError` make the record; `KeepPlace`, `Cleanup`, `CleanupFails` are
`_cleanup_variant`, and `CleanupAborts` is the exception it lets through, which
ends the whole run. `Comparison` is `compare_reports`.

## What the runs show

Passing runs:

| Run | Question | Instance |
|---|---|---|
| `isolated` | What may an isolated run with review end with? | two commands, six contents, 4 iterations, 2 revisions, all faults |
| `progress` | When are checkpoints and prompts trustworthy, and does a run end? | one command, importable contents, slow git |
| `reviewer` | What does a review cost, and what does its verdict rest on? | answers with up to two risks, right or wrong in one way each, one named like a cue; 3 parses of 2 calls; every guard over `<`, `<=`, `>`, `>=` and bounds -1 to 1, alone or two joined by `and`, `or`, under `not`, with raises on either side; substitutions with `+`, `*`, `?` and no quantifier |
| `transaction` | Are checkpoint, rollback and export what the engine takes them for? | a tracked, a new and an ignored file, two contents; any git command failing or killed |
| `editing` | What does an edit change, and what does the apply command accept? | 4 files, 15 lists of replacements, 9 patches, 2 commands, 2 changes from outside |
| `sandbox` | Who wins the races, and what does the result say? | 2 commands, exit codes 0, 2 and 137, output limit 2 of at most 3, growth limit 0 of at most 1 |
| `context` | Is the context bounded, complete and current? | 5 files, a root `__init__.py` among them, in 6 states, 4 kinds of evidence, 3 levels, 3 events |
| `benchmark` | Is every trial fresh, and every report comparable? | an isolated case with holdout tests and a resettable case, 2 modes |

What the properties are about:

* `CandidateSurvives` is the heart of the engine. It holds because of a detail
  that is easy to lose: when a revision is requested, the output it will be
  compared with becomes that of the candidate, which lists no failure. Nothing
  that follows can then look like partial progress, so nothing replaces the
  candidate but another candidate.
* `SuccessIsEarned` ties a reported success to a patch that passes and that the
  reviewer saw; `NeedsReviewHasCandidate`, `FailureIsExplained` and
  `ExportImpliesApplied` say what the other endings mean, `RevisionsAreActedOn`
  that the last iteration grants no revision. `ImplementsContract` puts it
  together as the contract a caller relies on.
* `PromptMatchesWorkspace`, `CheckpointsMakeProgress` and `WorktreeRemoved` hold
  under the conditions of `progress`; the runs that find a disagreement show why
  the conditions are needed.
* `CallBudget`, `OnlyExhaustionIsAnError` and `RetryExplainsLastAnswer` are about
  a loop of retries inside a loop of retries. `RevisionIsGrounded` says that a
  revision is recorded with exactly the ids the decision rests on, and that the
  repair model is told of nothing else: of proved risks and of cues that were
  found, however the text is cut. Its one exception is a warning that the reviewer
  named like a cue. `GuardCueIsExact` and `RepeatCueIsExact` compare cues with
  the meaning of the code scanned. The first says that wrong bounds and flipped
  sides are never taken for guards, and that a missing cue means rejection where
  conditions are joined by `or` and raise directly; for other conditions that is
  false (below). The second says which substitutions are missed: those without
  `+` that replace the delimiter, too.
* `ExportIsLastCheckpoint`, `CallsAreWhole`, `RollbackRestores`,
  `NothingIsLeftBehind` and the refinement of `TransactionContract` cover every
  sequence of git commands with one that fails. `CallsAreWhole` compares the
  HEAD of a checkpoint that returns with the tree at its start: every file that
  is not ignored is in it, written by the edit or by a test. `NothingIsLeftBehind`
  says that git's entry outlives `close` only if both the removal and the prune
  failed, and the directories never.
* `PlacesAreExact` compares the search for a replacement with a reference
  definition, `OnlyAllowedEdited` and `ExportIsAccepted` follow an edit from the
  model to the apply command, `AppliedIsApproved` says that only what was shown
  is written, wholly if the command reports success, and that a killed `git
  apply` is an error which leaves each file as before, as patched, or removed.
* `OutputIsBounded`, `QuietResultIsComplete`, `ContainerIsRemoved` and
  `CommandsReturn` hold for every interleaving of the threads. A quiet result is
  that of a command which ended by itself or by the kernel, with its own code and
  all of its output, in a workspace within its growth at the end; a burst of files
  that is deleted before a measurement goes unnoticed, as `docs/limitations.md:9`
  says.
* `IndexIsCurrent`: no stale or exchanged cache entry is used; only a file that
  lost one of its lists is taken as it is. `CandidatesAreNeighbours` compares the
  breadth-first walk with reachability, and what is recorded of each file with the
  best that any path to it offers. `ContextIsFaithful` says that the budget is
  kept and that every snippet shows the lines it names; one that the budget cuts
  within its first line shows a part of that.
* `AgentSeesTheBaseline`, `SuccessIsMeasured` and `ReportsAreComparable`: leftovers
  of an earlier trial reach neither an agent nor a success, and a run ends with a
  report that has every trial once, unless the cleanup of a resettable case raises.

Runs that find a disagreement between the code and what is written about it:

| Run | Finding |
|---|---|
| `unloadable_progress` | An edit after which pytest cannot collect tests makes all failures disappear from the summary and is checkpointed as partial progress (`docs/design.md:74`). |
| `export_failure` | A failing export leaves the worktree behind (`docs/limitations.md:23`). |
| `slow_tests` | A local test run that times out after writing output raises `TypeError` out of `run()` (`docs/design.md:80`). |
| `exported_patches` | The patch of an edit with CRLF line ends, or one that ends with an empty context line, is refused by `pyfixagent-apply` (`README.md:104`). |

### Bounds

*Engine.* Two tests are enough to be fixed, broken, both or neither, and to lie
in different commands. The contents are all combinations of two failing tests,
a second passing content (so that a revision can really replace a candidate),
and one whose tests cannot be collected. Four iterations with two revisions
allow every order of failed attempt, partial progress, candidate, revision,
failed revision and second candidate; the backends need two failures in a row
to switch and have room to switch back. Expansion levels 0 to 2 are all the
code distinguishes.

*Transaction.* git treats tracked, untracked and ignored files differently and
all files of a kind alike, so one of each is enough; two contents tell a
changed file from an unchanged one. Any number of checkpoints and rollbacks may
follow each other: the run needs no bound on them.

*Reviewer.* Two risks let one decide and the other not, share an id or differ;
each is good or bad in exactly one way, since the parser stops at the first.
Three parses of two calls leave room for failed calls before, between and after
unparsable answers.

*Editing.* The texts repeat themselves within five characters, so that a
replacement matches nowhere, once, twice at different distances, or overlaps
itself. `MaxCommands = 2` is a preview and an approval; `MaxChanges = 2` lets the
checkout and the patch file both change in between.

*Sandbox.* Three units of output against a limit of two let either reader meet
the limit, fill it exactly or stay below; the second command meets what the
first left (the cached preflight, a stuck client). One code stands for success,
one for pytest's other codes, and 137 for a kill by the kernel, which the client
reports for a container it removed as well. A growth of one unit over a limit of
none appears and disappears at any moment.

*Context.* `MaxSeeds`, `MaxRelated`, `MaxChars` and `MaxSnippet` are each smaller
than what some workspace offers, so that each of these cuts happens (the limit
`MaxFiles` of the index is not reached: it only takes files out of the
snapshot); the root package file brings a package without a name, whose relative
imports the code resolves differently; `MaxEvents = 3` allows an edit, a damaged cache file and the return to an earlier state.

*Benchmark.* Two cases, one of each kind, and two modes put two trials of a
resettable case into one workspace, one after the other. Repetitions are
further trials of the same kind.

### Fairness and deadlock

`RepairEngine` and `BenchmarkRunner` assume `WF_vars(Next)`: each is one thread,
and each call it makes returns, raises or is cut off by a time limit (git 15 to
60 seconds, test commands by the sandbox). Model calls are assumed to return;
their time limit is the client library's. In `ContainerSandbox` the main thread
and both readers run (`WF` for each) and time passes (`WF` of the deadline);
nothing is assumed of the container or the client, which need not end. A
time-out of the preflight is one of its answers. The other specifications have
no liveness property.

Deadlock is checked wherever the program either goes on or is over (then it
stutters by `Terminated`). It is switched off for `PatchApproval`,
`ContainerSandbox`, `RepositoryContext` and `BenchmarkRunner`, which stop when
their bounded list of commands, events or trials is used up; `CommandsReturn`
and `ReportsAreComparable` show that the second and the last do not stop before
that.

## What is proved

The theorems hold for all values of the constants that satisfy the named
assumptions of the modules. Each inductive invariant was checked with TLC
before it was proved. All properties of the passing runs but three, and the
liveness part of the engine's contract, are stated by theorems; these are named
at the end.

### The engine: `RepairEngineProofs`

From `EvidenceAssumption` and `EngineAssumption`:

* `TypeCorrect`. Its strengthening `WithinBudget` says that an iteration under
  way has not used up the last one.
* `CandidateKept` and, for isolated runs, `ReviewedCandidatePasses` rest on one
  invariant `IInv`, because neither is inductive alone. `RunsAreUsed` carries the
  result of a test run to the step that relies on it. `CandidateIsBaseline` is
  the detail named above: while the loop goes on with a candidate, HEAD passes
  and the output in the prompt lists no failure. `NothingListedRollsBack` then
  says that a failing attempt is rolled back, and `KeptEditsPrecedeCandidates`
  that an edit kept after a failure is older than any candidate. `DeliversHead`
  connects HEAD with the exported patch.
* `SuccessEarned` has an invariant of its own, `SuccessInv`, that also covers runs
  in place: a success is only set after a run of the final tests that passed
  (`SuccessFollowsPass`), and what earned it is not touched before the run is
  done (`EarnedUntilDone`).
* `FailureExplained` and `RevisionsActedOn` need no further assumption;
  `ExportApplied` is for isolated runs (in place, a partial write is exported
  although the edit was reported as not applied), and says that a patch is exported
  only if some edit was reported as applied. It does not say that half-written
  edits stay out of it: the next checkpoint takes them along (below); `PromptsMatch` for isolated
  runs without partial writes (after one, the prompt shows the output of the
  content before); `WorktreeGone` for runs in which no call raises (otherwise
  `export_failure`).
* `ProgressIsMade`: every checkpoint of an isolated run fixes a test and breaks
  none, or passes. Its two conditions, one command and contents whose tests can
  be collected, are those without which it is false (`unloadable_progress`, and
  "fixing the first reveals old failures of the second" below). Partial writes
  and git faults are allowed: the output in the prompt stays that of HEAD
  (`PromptInv`), whatever happens to the workspace.
* `ContractKept`. In isolated runs the initial states are initial states of
  `RepairContract`, and every step is one of its steps or stutters. The invariant
  is the conjunction of `IInv`, `SuccessInv` and `Delivery`.

### The workspace: `WorkspaceTransactionProofs`

`ExportsLastCheckpoint`, `CallsWhole`, `LeavesNothing`, `RollbackRestored`, and
`ContractImplemented`: the sequences of git commands implement the atomic
transaction of `TransactionContract`. The engine's theorems rest on that
atomicity. The invariant `TInv` says what each command may rely on after the one
before it (`Staged`: until a checkpoint returns the tree is the one it was called
on, and its files are what is staged and then committed) and what is on disk
after each step of `begin` and `close` (`Disk`: an entry that is left after the
prune means that both commands failed).

### The sandbox: `ContainerSandboxProofs`

`OutputBounded`, `ContainerRemoved`, `QuietResultComplete`. The invariant `SInv`
counts the output between the pipes and the buffer (`Counts`), says which flag
explains each place of the main thread (`Reasons`), and what a result means
(`Results`). The exit codes are any subset of 0 to 255, and the bounds on output
and growth any numbers; nothing is assumed of how growth changes.

### Recursion: `BoundedRecursion`

Texts, patches, plans and the walk of the import graph are recursive functions
over the first numbers, `f[n \in 0..N]`. The prover knows neither that such a
definition denotes a function with these values nor an induction rule it could
instantiate. `BoundedInduction` states induction with a set in place of a
predicate, from the least element of a set of numbers; `RecursiveFunction` builds
a function that satisfies given recursion equations. With both, a proof first
unfolds a definition (lemmas `...Unfolds`) and then reasons by induction. This
covers recursion over numbers below a bound, and so over the length of a
sequence. Folds of the community modules are recursive operators of another
kind and stay out of reach, which is why the models do not use them.

### Edits and approval: `PatchApprovalProofs`

From `PolicyAssumption` (a finite set of paths), `PatchAssumption` (a listing
names every path once) and `BackendAssumption` (texts and patches are finite
sequences):

* `PlacesAreExactAlways`: the search from the left, which skips what it has
  found, finds every occurrence if the ends of the old text do not repeat
  (`SearchIsComplete`: two occurrences cannot overlap then, `PlacesAreApart`).
* `EngineIsToldTheTruth` and `EditsStayAllowed` rest on `BackendInv`: it says,
  step by step, which files can differ from the base, and that these are among
  the files of a plan that was within the limits, or of a patch that was
  accepted. For a patch the second follows from `CleanSettles`: a block that
  survives cleaning names one path in its header and in its `---`/`+++` lines, so
  that the paths the policy saw are those git writes (`GitApplyTouches`).
* `ApprovedPatchIsApplied`: an action property from `GateInv` (what was compared
  with the digest is what is applied), for a `git apply` that is killed, too. The command cleans the patch once to
  show it and once more to apply it: `CleanTwice` says that the second changes
  nothing, so that the digest is that of what is applied.
* `ExportIsAcceptedAlways`: the patch of an edit within the limits passes the
  gate and gives back the candidate if nothing of it is lost in cleaning
  (`Carried`). `DiffRecreates`, that a diff applied to its first state gives the
  second, is the core. The attempt to prove it showed that `Carried` must look at
  the new text of a change too: a replacement may bring carriage returns into a
  file that had none (`write_text(newline="\n")` keeps them,
  `tools/replacement_tools.py:131`), the exported patch loses them
  (`tools/patch_tools.py:54`) and the gate accepts it, with a content other than
  the one tested. The `editing` run has such an edit now.

### Reviews: `SemanticReviewerProofs`

From `ReviewerAssumption`, `ParserAssumption`, `AnswersAssumption` (answers are
finite) and `SourcesAssumption` (what a comparison and a substitution look like):

* `CallsBounded`, `ErrorsAreExhaustion`, `ReviewFailsClosed`, `RetriesExplain`,
  for any budgets and any answers. The invariant `ReviewInv` relates the history
  of calls to the two loop counters (`Spent`, `Failing`) and the last answer to
  the error shown (`Explained`).
* `RevisionsAreGrounded` and `DecisionsAgree`: `Decision` says that a decision
  was made from the outcome and the cues that are still there, and
  `ParsedIsValidated` that a risk of an outcome has gone through the validation;
  the first is proved for every cut of the text (a part of the selected risks).
  The second is what entitles `RepairEngine` to know a review by the kinds of its
  risks.
* `GuardCuesAreExact` and `RepeatCuesAreExact` compare the scanner with the
  meaning of what it scans. A comparison is recognized exactly if it holds of every
  non-positive value; from that the first part of `GuardCueExact` follows for
  conditions of any shape, and the second, that the arguments are rejected, for
  those without `and` and negation. An inserted delimiter is reported exactly if
  some text comes out with a run of it, the missed substitutions apart
  (`AddedStaysSingle` is the step of the induction; the empty matches of `*` and
  `?` are what makes it longer than for `+`). The set `Values` only has to contain
  zero and a value below each bound, and the texts those of two characters.

### Context: `RepositoryContextProofs`

From `ContextAssumption`:

* `IndexIsThatOfTheSources`: the memory holds an index of files with the
  fingerprint it is filed under, the directory may hold a damaged one or that of
  other files under any name (`CachesAreGenuine`); `FingerprintDetermines` says
  that files with one fingerprint have one index, so that the check on loading
  suffices. A list that is lost does not change the fingerprint, hence the
  exception.
* `NeighboursAreExact`: the walk finds the files within `MaxDepth` imports of a
  seed, and records of each the best score, distance and reason that any path
  of at most that length offers. `WalkInv` is the invariant of a breadth-first search,
  relative to the reference sets `Reach[d]`: the queue is ordered by depth and no
  known file is deeper than its front plus one (`QueueIsOrdered`), a known file
  is reached within its depth (`DepthsAreKnown`), and what has left the queue has
  its neighbours known and recorded (`VisitedIsExpanded`, `CandidatesAreRecorded`).
  One step visits a file (`VisitWalks`); what is recorded then is the best of the
  offers made so far (`RecordedIs`), and at the end all have been made
  (`WalkedIsExact`).
* `ContextsAreFaithful`: whatever the budget, the bounds, the sources and the
  symbols chosen, the context keeps within its budget, puts the seeds first and
  shows what its ranges say. Its invariant `ContextInv` follows the seeds from
  their selection (`AreShown`: no file twice, and each with the lines it names).
  The related files are those at the first places of a strict order;
  `PlacesAreTaken` says that numbering by that order is a bijection, so that
  each place has a file and no file two. `FitFits` is the induction over the
  budget: what was taken and what is left add up to it, and the snippets taken
  are the first ones, with at most the last of them clipped (`Fitted`). What a
  clipped snippet shows are the first lines of its range, or a part of the first
  line (`FirstShows`, `ShowsPart`).

### Benchmark: `BenchmarkRunnerProofs`

From `BenchmarkAssumption`: `AgentStartsFresh` and `SuccessMeasured`, with the state of the
tree followed through a trial (`Fresh`, `Measured`), and `TrialsAreRecorded`:
every trial that is over has exactly one record. The last is the safety part of
`ReportsAreComparable`.

### Only model-checked

* `Termination`, `CommandsReturn`, `ReportsAreComparable` and the liveness part
  of `RepairContract` need fairness, which is beyond the prover.

## Known disagreements

Beside the four runs above, the model or the reading of the code for it showed:

*Engine.*
* With two commands, fixing the first reveals old failures of the second as new
  ones, and real progress is rolled back as a regression (`docs/trace.md:57`).
* `visible_success` is set before the checkpoint; if that fails, the "candidate
  patch" is an older, failing one (`docs/v0.6.0.md:11`).
* Records name review feedback that the prompt no longer contained
  (`docs/trace.md:81`).
* `success` is false after a passing final run that the reviewer refused
  (`docs/trace.md:13`).
* In place, a refused revision has no candidate to return to: a result with
  status `needs_review` may hold a failing patch. `docs/limitations.md` announces
  weaker guarantees for that mode.

*Workspace.*
* A time-out of `git worktree add` leaves the temporary directory and perhaps
  git's entry behind (`docs/limitations.md:23`).
* The exit status of `git worktree prune` is ignored
  (`execution/workspace_transaction.py:171`): if the removal fails, too, and takes
  the files but not the entry, `close` returns without an error and the entry stays.
* A half-written replacement is reported as not applied and not rolled back: its
  files are in the tree the next edit starts from, and the next checkpoint's
  `git add -A` takes them along (`execution/workspace_transaction.py:89`).

*Edits and approval.*
* A replacement of one line rewrites a file with CRLF line ends wholly, because
  it is read with universal newlines (`tools/replacement_tools.py:91`, `:131`).
* A commit between preview and approval does not invalidate the digest, which is
  that of the patch alone (`docs/design.md:167`).
* A replacement with carriage returns in its new text is exported as a patch
  without them: the apply command accepts it and writes a content that was
  never tested (`tools/patch_tools.py:54`).
* Exported patches that create files are refused by the apply command, also when
  the file was written by a test (`tools/patch_tools.py:99`).

*Review.*
* The context limit decides which changed files are scanned: the cue of a file
  that does not fit is overlooked (`review/context.py:91`, `docs/design.md:92`).
* A `raise` in the `else` branch of a guard counts as its rejection
  (`review/risk_scanner.py:125`), and any comparison of its condition as a guard:
  after `if not (n <= 0): raise` or `if n <= 0 and strict: raise` no cue is left
  although the function takes non-positive values (`docs/design.md:92`).
* A substitution without `+`, such as `re.sub("[^a-z-]?", "-", text)`, can insert
  a delimiter next to one. It is reported if the class spares the delimiter; where
  it replaces the delimiter, too, the scanner says nothing
  (`review/risk_scanner.py:207`).
* A risk may be named like a cue. If only cues decide, such a warning is rendered
  as a "validated blocking risk", without evidence (`review/feedback.py:13`,
  `docs/design.md:94`).
* The feedback text is cut at `max_feedback_chars`, also within a risk; the record
  names all the risks (`review/feedback.py:36`).
* `last_usage` outlives its call: failed calls and answers without usage are
  reported with the tokens of an earlier one (`models/litellm_model.py:39`,
  `docs/benchmark.md:20`).

*Context.*
* `graph_distance` may exceed the real distance: a candidate reached again on a
  longer way with a better score keeps the longer one (`context/repository.py:134`).
* An empty seed is reported with a range of one line (`context/snippet.py:34`);
  `ContextIsFaithful` compares the ranges of files that have lines.
* A file that is not UTF-8 raises `UnicodeDecodeError` out of the selection, as a
  seed, as a failing test or in the full context (`context/selector.py:126`,
  `:144`, `:167`): the handlers around it list `OSError` and `SyntaxError` only.
* The module of a package file at the root has an empty name, so that the base of
  its relative imports starts with a dot, or is empty: `from .x import y` is never
  resolved (`repository/indexer.py:162`).
* A cache file with valid JSON that is no object raises `AttributeError`, in this
  request and in every later one for the same sources (`repository/cache.py:20`).
* A cache file that lost its list of edges, but not its fingerprint, is taken as it
  is, with no edges (`repository/contracts.py:62`, `docs/design.md:130`).

*Benchmark.*
* A cleanup that fails overwrites the failure type, also a `false_accept`.
* Without holdout tests a failed trial can carry the failure type of an iteration
  that passed, `success` or none; the comparison then counts it under "success".
* The record of a runner error lacks `candidate_success` and `agent_accepted`.
* Output of a reset command that is not UTF-8 raises out of the cleanup and ends
  the whole run without a report (`benchmarking/workspace.py:74`; the comment at
  `benchmarking/runner.py:127` promises the opposite).
* A failed copy leaves a part of the directory until the next preparation.
* A manifest may list a strategy twice; the report then has duplicate keys and
  `compare_reports` raises. `BenchmarkAssumption` excludes it.

## Assumptions of the models

* *Texts.* Prompts, wording of feedback, trace layout and logging are left out.
  Paths have no blanks. A patch whose own text contains a JSON object with a
  patch is not modelled. The context of a hunk is the whole file.
* *Tests* are deterministic in their result. They may write files
  (`WorkspaceTransaction.Write`, `PatchApproval.TestsWrite`).
* *Ignored files* survive a rollback in `WorkspaceTransaction`; the contract and
  `RepairEngine` see the others.
* *In-place runs* start from a clean workspace; `require_clean` is one of the
  refusals of `prepare`.
* *max_iterations* is at least one.
* *Review.* "No answer" is none of the answers. A text that is cut holds the first
  of its risks and cues; where exactly within an entry it ends is left out.
* *Edits.* Paths are compared as they are written: two names of one file (by a
  symbolic link, or a prefix that one tool strips and the other keeps) are outside
  the model.
* *Sandbox.* The client has no descendants that keep its pipes, and a reader ends
  within the five seconds it is given; otherwise `output_truncated` could be set
  after the last look at it. A container whose removal failed is not followed
  into the next command. The daemon changes between commands, not during one. Of a
  burst of files between two measurements nothing is claimed.
* *Index.* No two files have one module name.
* *Context.* A line counts its end of line, also where a window consists of one
  empty line only, of which the code shows nothing.
* *Benchmark.* The agent works in a worktree and leaves the benchmark directory
  alone. A reset command that reports success restored everything. Workspaces
  of cases without a fixture are shared by all their trials; a reset that fails makes
  the trial a runner error.

## Not modelled

* Model clients and prompts: wording, and calls of a library. What a call does
  to a repair or a review is in `RepairEngine` and `SemanticReviewer`.
* Command line, traces, reports, redaction: rendering of what a run returned.
* Options of `docker run`, image metadata, validation of configuration values.
* Metrics of the benchmark (rates, intervals, token totals) and the tables of a
  comparison: arithmetic over a report.
* Parsing of pytest output beyond FAILED lines, traceback frames and failing
  test files; scores of symbols (any symbol of a file may be chosen).

## What could follow

* Two benchmark runs at once over one output directory, and two processes that
  share a cache directory (today a restart and a damaged file stand for the
  second process).
* The scores of symbols, to compare the related snippets with the evidence.
