SPECIFICATION Spec
CONSTANTS
  Path <- MCPath
  Safe <- MCSafe
  Python <- MCPython
  Tests <- MCTests
  AllowedPath <- MCPath
  MaxFiles = 2
  MaxChangedLines = 3
  Unreadable = Unreadable
  NoPath = NoPath
  Order <- MCOrder
  Base <- MCBase
  EditLists <- MCEditLists
  RawPatches <- MCRawPatches
  Texts <- MCTexts
  GitFails = TRUE
  NoDigest = NoDigest
  MaxChanges = 2
  MaxCommands = 2
INVARIANTS
  EditsCanBeApplied
CHECK_DEADLOCK FALSE
