SPECIFICATION NativeSpec
CONSTANTS
  MaxGens = 2
  MaxCalls = 4
  Kinds = {"Action", "Alarm"}
  Failures = {"error", "panic"}
  MaxTimeouts = 3
  MayOverrun = TRUE
INVARIANTS
  TypeOK
  OwnAnswer
PROPERTIES
  AnsweredOnce
  LoopsGoOn
