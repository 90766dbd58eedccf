SPECIFICATION HttpFairSpec
CONSTANTS
  plain = plain
  hops = hops
  once = once
  Requests <- MCRequests
  Retry = TRUE
  Replayable <- MCReplayable
  Redirecting <- MCRedirecting
  Safe <- MCSafe
  Gap = 2
  MaxCloses = 1
  Owner = Owner
  None = None
CHECK_DEADLOCK FALSE
INVARIANTS
  TypeOK
  NothingActedOnIsSentAgain
  OpenClientIsReachable
  StaleOnlyByLaterExit
  PlacesAreGivenBack
PROPERTIES
  RequestsEnd
  StartsAreSpaced
