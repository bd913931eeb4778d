\* Three concurrent clients over two slots, nothing fails.
CONSTANTS
  a = a
  b = b
  r1 = r1
  r2 = r2
  h1 = h1
  h2 = h2
  h3 = h3
  p1 = p1
  p2 = p2
  MAX_CONTAINERS = 2
  Ids = {a, b}
  Rootfs = {r1, r2}
  Requests <- ClashRequests
  Handlers = {h1, h2, h3}
  Pids = {p1, p2}
  OtherPids = {}
  NoPid = NoPid
  None = None
  Disturbances = {}
SPECIFICATION Spec
SYMMETRY Symmetry
INVARIANTS RootfsExclusive RunReturnsExit StatusAccurate
PROPERTIES TerminalFinal
CHECK_DEADLOCK FALSE
