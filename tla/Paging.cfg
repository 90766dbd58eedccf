\* Every kind of walk over every small collection, one change of the
\* collection and one restart of the walk.
SPECIFICATION FairSpec
CHECK_DEADLOCK FALSE
CONSTANTS
  None = None
  Walks <- MCWalks
  Collections <- MCCollections
  Rows <- MCRows
  Arrivals <- MCArrivals
  MaxChanges = 1
  MaxRestarts = 1
INVARIANTS
  NothingSkipped
  NothingTwice
  NothingOutside
  ErrorIsDeserved
PROPERTY
  EveryWalkEnds
