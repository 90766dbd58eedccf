\* Two subscriptions over two connections, with a drop, an exit and every
\* cancellation; fair tasks.
SPECIFICATION FairSpec
CONSTANTS
  s1 = s1
  s2 = s2
  c1 = c1
  c2 = c2
  Subs <- MCSubs
  Conns <- MCConns
  None = None
  Kinds <- MCKinds
  MaxNotes = 2
  MaxExits = 1
CONSTRAINTS
  MCNamedInOrder
  MCFewTogether
CHECK_DEADLOCK FALSE
INVARIANTS
  TypeOK
  NothingLostOrReordered
  OwnConnectionOnly
  OverFreesTheChannel
PROPERTIES
  ForgetsOnlyItself
  DropReleasesEveryone
