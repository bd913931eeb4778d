\* Two clients over two slots; any call may fail, a client may go away, the
\* kernel monitor and the host kill, the module is unloaded, and PIDs wrap around.
CONSTANTS
  a = a
  b = b
  r1 = r1
  r2 = r2
  h1 = h1
  h2 = h2
  p1 = p1
  p2 = p2
  MAX_CONTAINERS = 2
  Ids = {a, b}
  Rootfs = {r1, r2}
  Requests <- MixedRequests
  Handlers = {h1, h2}
  Pids = {p1, p2}
  OtherPids = {}
  NoPid = NoPid
  None = None
  Disturbances = {"call", "client", "limit", "host", "unload", "wrap"}
SPECIFICATION Spec
SYMMETRY Symmetry
CONSTRAINTS SupervisorAlive NoKillAndQuit
INVARIANTS TypeOK UniqueIds StopAttributed
PROPERTIES ProducerSlotPinned
CHECK_DEADLOCK FALSE
