SPECIFICATION Spec
CONSTANTS
  Callers = {c1, c2}
  NoCaller = NoCaller
  MaxSaves = 2
  MaxAbandons = 2
  MaxSQLite = 0
  MayPanic = FALSE
INVARIANTS
  AcksNeverFatal
