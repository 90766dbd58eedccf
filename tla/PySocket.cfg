SPECIFICATION FairSpec
CONSTANTS
  a = a
  b = b
  c = c
  Calls <- MCCalls
  Owner = Owner
  None = None
  MaxExits = 2
CHECK_DEADLOCK FALSE
INVARIANTS
  TypeOK
  NoConnectionOutlivesOwner
  OneDialInFlight
  ClosedByOwnerIsDeserved
  DetachedIsBeingClosed
  ClosedByOneTask
PROPERTIES
  OpenReturnsTheConnectionInUse
  KeepsPromise
  EveryCallEnds
  DetachedIsEventuallyGone
