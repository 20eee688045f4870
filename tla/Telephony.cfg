CONSTANTS
  path1 = path1 
  Paths <- MCPaths
  MaxEvents = 4
  MaxObjects = 2
  Faults <- MCRefusal
SPECIFICATION TelephonySpec
INVARIANTS TelephonyTypeOK CallStatusShared
PROPERTIES NoStepBack UntoldCancels
