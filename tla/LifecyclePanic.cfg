SPECIFICATION FairSpec
CONSTANTS
  MaxGens = 2
  MaxCalls = 5
  Kinds = {"Action", "Connection", "Message"}
  Failures = {"error", "panic"}
  MaxTimeouts = 0
  MayOverrun = FALSE
INVARIANTS
  PumpSurvives
  
PROPERTIES
  WorkersFollow
  IntentEndsWorker
