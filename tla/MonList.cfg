\* Two processes on the list, nothing fails.
CONSTANTS
  Pids = {1, 2}
  Requests <- PlainRequests
  RssLevels = {0, 3, 4}
  UnitsPerMib = 2
  ULONG_BITS = 3
  Wrap = FALSE
  CallsMayFail = FALSE
SPECIFICATION Spec
INVARIANTS OneEntryPerPid PassVisitsAll KillJustified
