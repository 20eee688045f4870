CONSTANTS
  SourceKinds <- MCSourceKinds
  DestKinds <- MCDestKinds
  EofReads <- MCEofReads
  MaxBytes = 3
  BufCap = 2
  HighWater = 2
  MaxPosted = 2
SPECIFICATION Spec
INVARIANTS SuccessIsWhole NothingMissed
PROPERTIES KeepsPromise SourceEndsJob
CHECK_DEADLOCK FALSE
