\* One container, started, run and stopped, with failures and the shutdown.
CONSTANTS
  a = a
  b = b
  r1 = r1
  r2 = r2
  h1 = h1
  h2 = h2
  p1 = p1
  MAX_CONTAINERS = 2
  Ids = {a, b}
  Rootfs = {r1, r2}
  Requests <- OneRequests
  Handlers = {h1, h2}
  Pids = {p1}
  OtherPids = {}
  NoPid = NoPid
  None = None
  Disturbances = {"call", "shutdown"}
SPECIFICATION FairSpec
PROPERTIES NoZombies RunWakes ShutdownCompletes
CHECK_DEADLOCK FALSE
