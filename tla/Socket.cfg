\* Two supervisors, one after the other, and two clients; everything may fail
\* but that a second supervisor is started while the first one runs.
CONSTANTS
  Words <- Typable
  Atoi <- AtoiOf
  Usage = Usage
  Supervisors = {1, 2}
  Clients = {1, 2}
  CommandLines <- Lines
  BACKLOG = 1
  ExitCodes = {0, 3}
  Disturbances = {"call", "signal", "interrupt"}
SPECIFICATION FairSpec
INVARIANTS ParsedAsTyped StatusTruthful RestartSucceeds NoStaleSocket
PROPERTIES SignalEnds ClientReturns
CHECK_DEADLOCK FALSE
