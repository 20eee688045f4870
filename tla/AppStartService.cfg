CONSTANTS
  p1 = p1  p2 = p2
  Processes <- MCProcesses
  MaxCalls = 2
  Faults <- MCFaults
SPECIFICATION Spec
INVARIANTS ServiceFollowsSetting
