SPECIFICATION Spec
CONSTANTS
  Files <- MCFiles
  Contents = {"c1", "c2"}
  Absent = Absent
  Ignored = {"cache"}
  Base <- MCBase
  NotExported = NotExported
INVARIANTS
  ExportIsLastCheckpoint
  NothingIsLeftBehind
PROPERTIES
  CallsAreWhole
  RollbackRestores
  ImplementsContract
