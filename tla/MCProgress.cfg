SPECIFICATION Spec
CONSTANTS
  Node <- MCNode
  Content <- MCImportable
  Fails <- MCFails
  Collects <- MCCollects
  Commands <- OneCommand
  Original <- Both
  NoPatch = NoPatch
  Isolated = TRUE
  ReviewEnabled = TRUE
  InitialMode = "patch"
  MaxIterations = 4
  MaxRevisions = 1
  MaxLevel = 2
  Faults = {"expire"}
INVARIANTS
  PromptMatchesWorkspace
  WorktreeRemoved
PROPERTIES
  CheckpointsMakeProgress
  Termination
