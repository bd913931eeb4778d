\* One process, every odd limit, PIDs that come back, failing calls; fair
\* scheduling of the kernel thread.
CONSTANTS
  Pids = {1}
  Requests <- OddRequests
  RssLevels = {0, 3, 4}
  UnitsPerMib = 2
  ULONG_BITS = 3
  Wrap = TRUE
  CallsMayFail = TRUE
SPECIFICATION FairSpec
INVARIANTS TypeOK WarnedOnce TwoTiers
PROPERTIES OverLimitKilled UnloadCompletes
