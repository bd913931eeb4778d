\* A second supervisor is started while the first one serves.
CONSTANTS
  Words <- Typable
  Atoi <- AtoiOf
  Usage = Usage
  Supervisors = {1, 2}
  Clients = {1}
  CommandLines <- Lines
  BACKLOG = 1
  ExitCodes = {0, 3}
  Disturbances = {"overlap"}
SPECIFICATION Spec
INVARIANTS Reachable
CHECK_DEADLOCK FALSE
