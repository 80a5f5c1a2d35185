SPECIFICATION Spec
CONSTANTS
  Order <- MCOrder
  ModuleOf <- MCModuleOf
  Packages = {"__init__.py"}
  Absent = Absent
  Unreadable = Unreadable
  MaxFiles = 4
  MaxLines = 5
  Workspaces <- MCWorkspaces
  Evidence <- MCEvidence
  MaxSeeds = 1
  LineWindow = 0
  MaxDepth = 2
  MaxRelated = 2
  MaxChars = 8
  MaxSnippet = 2
  CacheInside = FALSE
  NoIndex = NoIndex
  NotAnObject = NotAnObject
  MaxEvents = 3
INVARIANTS
  IndexIsCurrent
  CandidatesAreNeighbours
  ContextIsFaithful
CHECK_DEADLOCK FALSE
