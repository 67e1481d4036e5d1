\* The sqlite pool when the reconnect after a failed statement fails too.
SPECIFICATION Spec
CONSTANTS
  Clients = {c1, c2, c3}
  Handles = {h1, h2, h3}
  NoHandle = NoHandle
  Configs <- SqlitePool
  MaxCalls = 1
INVARIANT WaitsOnlyWhenFull
CHECK_DEADLOCK FALSE
