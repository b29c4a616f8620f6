SPECIFICATION Spec
CONSTANTS
  MaxGens = 1
  MaxCalls = 3
  Kinds = {"Alarm"}
  Failures = {}
  MaxTimeouts = 1
  MayOverrun = FALSE
INVARIANTS
  AlarmAfterHook
