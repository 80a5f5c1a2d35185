SPECIFICATION Spec
CONSTANTS
  MaxOutput = 2
  GrowthLimit = 0
  Codes = {0, 2, 137}
  Unkillable = TRUE
  OutputBound = 3
  GrowthBound = 1
  Commands <- MCCommands
  NoCommand = NoCommand
  Dangerous <- MCDangerous
  Shell <- MCShell
  MaxCommands = 2
INVARIANTS
  OutputIsBounded
  QuietResultIsComplete
  ContainerIsRemoved
PROPERTIES
  CommandsReturn
CHECK_DEADLOCK FALSE
