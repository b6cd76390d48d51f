SPECIFICATION Spec
CONSTANTS
  None = None
  Conns = {c1, c2}
  Sockets = {s1, s2}
  Files = {f1, f2}
  Contents = {v1}
  MaxRetries = 2
  MaxPending = 2
  MaxCommands = 3
  MaxInFlight = 2
SYMMETRY Names
INVARIANTS
  TypeOK
  OneWayOn
  CredentialsFirst
  ShowsConnection
  CatchesUp
PROPERTIES
  QueuesCommands
