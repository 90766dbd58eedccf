SPECIFICATION HttpSpec
CONSTANTS
  plain = plain
  hops = hops
  once = once
  Requests <- MCPair
  Retry = FALSE
  Replayable <- MCReplayable
  Redirecting <- MCRedirecting
  Safe <- MCSafe
  Gap = 2
  MaxCloses = 1
  Owner = Owner
  None = None
CHECK_DEADLOCK FALSE
INVARIANT FailuresAreErrors
