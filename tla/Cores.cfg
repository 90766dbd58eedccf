SPECIFICATION CoresFairSpec
CONSTANTS
  a = a
  b = b
  c = c
  k = k
  Calls <- MCCalls
  Closers <- MCClosers
  None = None
  MaxCloses = 1
CHECK_DEADLOCK FALSE
INVARIANTS
  NoLiveConnectionIsLost
PROPERTIES
  OpenReturnsTheConnectionInUse
  CloseLeavesNothingBehind
  KeepsPromise
  EveryTaskEnds
