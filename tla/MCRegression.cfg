SPECIFICATION Spec
CONSTANTS
  Node <- MCNode
  Content <- MCContent
  Fails <- MCFails
  Collects <- MCCollects
  Commands <- OneCommand
  Original <- First
  NoPatch = NoPatch
  Isolated = TRUE
  ReviewEnabled = TRUE
  InitialMode = "replacement"
  MaxIterations = 3
  MaxRevisions = 1
  MaxLevel = 2
  Faults = {}
PROPERTIES
  RegressionsAreRolledBack
