\* One container that outgrows its limits; any call may fail, and at any point the
\* host kills the container, the module is unloaded or the supervisor is shut down.
CONSTANTS
  a = a
  r1 = r1
  h1 = h1
  MAX_CONTAINERS = 1
  Ids = {a}
  Rootfs = {r1}
  Requests <- Starts
  Handlers = {h1}
  Pids = {1}
  NoPid = NoPid
  None = None
  Disturbances = {"call", "shutdown", "unload", "host"}
  RssLevels = {0, 4}
  UnitsPerMib = 2
  Soft = 0
  Hard = 1
SPECIFICATION Spec
CONSTRAINT OneTrouble
INVARIANTS KilledFromOutside
PROPERTIES SupervisorImplemented MonitorImplemented KillRecorded LimitEnforced EntryForgotten
CHECK_DEADLOCK FALSE
