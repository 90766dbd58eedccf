SPECIFICATION Spec
CONSTANTS
  s1 = s1
  s2 = s2
  c1 = c1
  c2 = c2
  Subs <- MCSubs
  Conns <- MCConns
  None = None
  Kinds <- MCOneKind
  MaxNotes = 1
  MaxExits = 1
SYMMETRY MCSymmetry
CHECK_DEADLOCK FALSE
INVARIANT LiveStreamsStayRegistered
