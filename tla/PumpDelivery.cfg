SPECIFICATION FairSpec
CONSTANTS
  Worker = Worker
  NoCall = NoCall
  handler = handler
  stray = stray
  Calls <- MCCalls
  Strays <- MCStrays
  Kinds <- MCReadKinds
  ReadOnly <- MCReadOnly
  Ids = {1}
  QueueSize = 2
  MaxBatch = 1
  ResultSize = 1
  MaxChunks = 2
  MaxBusy = 0
PROPERTIES DeliveryProceeds
CHECK_DEADLOCK FALSE
