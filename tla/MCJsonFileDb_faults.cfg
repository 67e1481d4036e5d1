\* Two threads and another process; what may fail, fails.
SPECIFICATION Spec
CONSTANTS
  Threads = {t1, t2}
  None = None
  Writes = {w1, w2}
  Foreign = {f1, f2}
  Seed = Seed
  Corrupt = Corrupt
  Blank = Blank
  Configs <- EverySurroundings
INVARIANTS ReadersSeeOnlyCommitted AnswersAreWhole AckedIsDurable ReadYourWrites
INVARIANTS FileAlwaysWhole FileLockFreed
PROPERTY ImplementsStore
SYMMETRY Symmetry
