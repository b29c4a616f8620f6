SPECIFICATION FairSpec
CONSTANTS
  Callers = {c1}
  NoCaller = NoCaller
  MaxSaves = 2
  MaxAbandons = 2
  MaxSQLite = 0
  MayPanic = TRUE
PROPERTIES
  
  
  StopResolves
