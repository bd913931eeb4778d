\* The shutdown meets a container that does not handle SIGTERM.
CONSTANTS
  a = a
  b = b
  r1 = r1
  r2 = r2
  h1 = h1
  p1 = p1
  MAX_CONTAINERS = 2
  Ids = {a, b}
  Rootfs = {r1, r2}
  Requests <- OneRequests
  Handlers = {h1}
  Pids = {p1}
  OtherPids = {}
  NoPid = NoPid
  None = None
  Disturbances = {"shutdown"}
SPECIFICATION HelpfulSpec
PROPERTIES ShutdownTerminates
CHECK_DEADLOCK FALSE
