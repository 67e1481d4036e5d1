\* Lock files that time out, are abandoned or belong to another machine, and a
\* file that cannot be read.
SPECIFICATION FairSpec
CONSTANTS
  Threads = {t1, t2}
  None = None
  Writes = {w1, w2}
  Foreign = {f1}
  Seed = Seed
  Corrupt = Corrupt
  Blank = Blank
  Configs <- WaitsForLock
PROPERTY EveryCallReturns
