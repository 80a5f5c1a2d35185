SPECIFICATION Spec
CONSTANTS
  Node <- MCNode
  Content <- MCContent
  Fails <- MCFails
  Collects <- MCCollects
  Commands <- TwoCommands
  Original <- Both
  NoPatch = NoPatch
  Isolated = TRUE
  ReviewEnabled = TRUE
  InitialMode = "replacement"
  MaxIterations = 4
  MaxRevisions = 2
  MaxLevel = 2
  Faults = {"partial_write", "raise", "expire", "undecoded"}
INVARIANTS
  TypeOK
  CandidateSurvives
  NeedsReviewHasCandidate
  SuccessIsEarned
  FailureIsExplained
  ExportImpliesApplied
  RevisionsAreActedOn
PROPERTIES
  ImplementsContract
