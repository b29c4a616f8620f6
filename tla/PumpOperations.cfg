SPECIFICATION FairSpec
CONSTANTS
  Worker = Worker
  NoCall = NoCall
  handler = handler
  stray = stray
  Calls <- MCCalls
  Strays <- MCStrays
  Kinds <- MCKinds
  ReadOnly <- MCReadOnly
  Ids = {1, 2}
  QueueSize = 2
  MaxBatch = 1
  ResultSize = 2
  MaxChunks = 2
  MaxBusy = 1
INVARIANTS TypeOK  HandleClosedLast StopResultAfterSQLite
PROPERTIES ShutdownCompletes
CONSTRAINT FirstId
