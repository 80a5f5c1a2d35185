SPECIFICATION Spec
CONSTANTS
  Lines <- MCLines
  Answers <- MCAnswers
  Sources <- MCSources
  Chars <- MCChars
  MaxText = 4
  Values <- MCValues
  Items <- MCItems
  MaxChars = 8
  MaxRisks = 2
  MaxContracts = 1
  MaxEvidence = 1
  MaxExamples = 1
  MaxParseRetries = 2
  MaxModelRetries = 1
  MaxRevisions = 1
INVARIANTS
  FailsClosed
  RevisionIsGrounded
  DecisionAgrees
  CallBudget
  OnlyExhaustionIsAnError
  RetryExplainsLastAnswer
  GuardCueIsExact
  RepeatCueIsExact
