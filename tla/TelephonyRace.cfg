CONSTANTS
  path1 = path1 
  Paths <- MCPaths
  MaxEvents = 2
  MaxObjects = 2
  Faults <- MCOutrun
SPECIFICATION TelephonySpec
INVARIANTS CallStatusShared
