\* A stop finds its container STARTING; o is no container.
CONSTANTS
  a = a
  b = b
  r1 = r1
  r2 = r2
  h1 = h1
  h2 = h2
  p1 = p1
  o = o
  MAX_CONTAINERS = 2
  Ids = {a, b}
  Rootfs = {r1, r2}
  Requests <- OneRequests
  Handlers = {h1, h2}
  Pids = {p1, o}
  OtherPids = {o}
  NoPid = NoPid
  None = None
  Disturbances = {}
SPECIFICATION Spec
INVARIANTS OnlyContainersSignalled
CHECK_DEADLOCK FALSE
