\* Two threads that open, use and release one data file, beside two other
\* processes that replace it and die.
SPECIFICATION Spec
CONSTANTS
  Clients = {c1, c2}
  Objects = {o1, o2, o3}
  w1 = w1
  w2 = w2
  Writers = {w1, w2}
  Pids = {1, 2, 3}
  OwnPid = 1
  None = None
  Configs <- EverySurroundings
  MaxWrites = 2
INVARIANTS OneInstance ReadsAreCurrent LiveTempsKept SweepIsThorough
SYMMETRY Interchangeable
