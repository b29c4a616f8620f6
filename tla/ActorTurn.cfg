SPECIFICATION FairSpec
CONSTANTS
  Conns = {c1}
  Sockets = {s1, h1}
  Hibernatable = {h1}
  None = None
  Scenarios <- MCScenarios
  MaxChunks = 3
  MaxYields = 1
  MaxTasks = 1
INVARIANTS
  
  
  CleanStop
  ResponseEndsOnce

  
