CONSTANTS
  c1 = c1  c2 = c2  p1 = p1  p2 = p2  a1 = a1  a2 = a2  a3 = a3
  Channel <- MCChannel
  Path <- MCPath
  Addr <- MCAddr
  Slot <- MCSlot
  OpenFlags <- MCOpenFlags
  Root = Root  Empty = Empty  None = None
  ModernQt = FALSE
  ReadDirChunkSize = 1
  PasswordTries = 2
  MaxRequests = 4
SPECIFICATION Spec
SYMMETRY MCSymmetry
INVARIANTS HandleKeepsFile ListingComplete OneUnsavedWrite ChannelsTakeTurns
PROPERTIES RefusedChangesLittle
CHECK_DEADLOCK FALSE
