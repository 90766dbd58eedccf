SPECIFICATION Spec
CONSTANTS
  a = a
  b = b
  c = c
  Calls <- MCCalls
  Owner = Owner
  None = None
  MaxExits = 1
CHECK_DEADLOCK FALSE
INVARIANT NothingIsAbandoned
