SPECIFICATION Spec
CONSTANTS
  a = a
  b = b
  c1 = c1
  c2 = c2
  Users <- MCUsers
  BootstrapUser = a
  Calls <- MCCalls
  MaxPerUser = 1
  MaxRequests = 3
  MaxFaults = 1
SYMMETRY MCSymmetry
INVARIANT AlwaysAnAdmin
CHECK_DEADLOCK FALSE
