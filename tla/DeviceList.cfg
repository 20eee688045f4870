CONSTANTS
  i1 = i1  i2 = i2  a1 = a1  a2 = a2  n1 = n1  n2 = n2
  phone = phone  computer = computer
  Id <- MCId
  Address <- MCAddress
  Name <- MCName
  PairState <- MCPairState
  Type <- MCType
  FirstType <- MCFirstType
  MaxChanges = 2
  None = None
SPECIFICATION Spec
SYMMETRY Symmetry
INVARIANTS TypeOK RowsAreTheDaemons PageIsCurrent ViewsObeySettings
CHECK_DEADLOCK FALSE
