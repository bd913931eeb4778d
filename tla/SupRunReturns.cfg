\* One run: its container dies before its PID is in the table.
CONSTANTS
  a = a
  b = b
  r1 = r1
  r2 = r2
  h1 = h1
  p1 = p1
  MAX_CONTAINERS = 2
  Ids = {a, b}
  Rootfs = {r1, r2}
  Requests <- OneRequests
  Handlers = {h1}
  Pids = {p1}
  OtherPids = {}
  NoPid = NoPid
  None = None
  Disturbances = {}
SPECIFICATION FairSpec
PROPERTIES RunReturns
CHECK_DEADLOCK FALSE
