SPECIFICATION Spec
CONSTANTS
  MaxGens = 1
  MaxCalls = 3
  Kinds = {"Action"}
  Failures = {"panic"}
  MaxTimeouts = 1
  MayOverrun = FALSE
INVARIANTS
  PumpSurvives
