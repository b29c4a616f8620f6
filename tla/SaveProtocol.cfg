SPECIFICATION Spec
CONSTANTS
  Callers = {c1, c2}
  NoCaller = NoCaller
  MaxSaves = 2
  MaxAbandons = 1
  MaxSQLite = 1
  MayPanic = FALSE
INVARIANTS
  TypeOK
  AckMatchesSave
  SlotFree
  StopIsLast
  AcksNeverFatal
PROPERTIES
  ImplementsStateCell
