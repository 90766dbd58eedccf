SPECIFICATION FairSpec
CONSTANTS
  r1 = r1
  b1 = b1
  c1 = c1
  c2 = c2
  Calls <- MCOneCall
  Bound <- MCNobody
  Conns <- MCConns
  None = None
CHECK_DEADLOCK FALSE
PROPERTY RequestsEnd
