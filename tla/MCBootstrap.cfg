CONSTANTS
  p0 = p0
  p1 = p1
  p2 = p2
  p3 = p3
  none = none
  Pids <- MCPids
  Root = p0
  Calls <- MCCalls
  NoModule = none
SPECIFICATION Spec
CHECK_DEADLOCK FALSE
INVARIANTS
  TypeOK

