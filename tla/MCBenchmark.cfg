SPECIFICATION Spec
CONSTANTS
  CaseList <- MCCaseList
  StrategiesOf <- MCStrategiesOf
  Modes <- MCModes
  Repeat = 1
  FixtureCases = {"isolated"}
  HoldoutCases = {"isolated"}
  KeepWorkspaces = FALSE
INVARIANTS
  AgentSeesTheBaseline
  SuccessIsMeasured
PROPERTIES
  ReportsAreComparable
CHECK_DEADLOCK FALSE
