SPECIFICATION FairSpec
CONSTANTS
  c1 = c1  c2 = c2  c3 = c3
  Connections = {c1, c2, c3}
  Clients = 2
  Signals = {"SIGTERM", "SIGINT"}
INVARIANTS OpenRequestKeepsPool StopsCleanly
PROPERTY SignalEndsProcess
\* an ended process stays ended
CHECK_DEADLOCK FALSE
