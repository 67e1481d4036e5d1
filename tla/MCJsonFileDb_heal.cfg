\* A first load that failed, a repaired file, and a write that fails.
SPECIFICATION Spec
CONSTANTS
  Threads = {t1, t2}
  None = None
  Writes = {w1, w2}
  Foreign = {}
  Seed = Seed
  Corrupt = Corrupt
  Blank = Blank
  Configs <- RepairedFile
INVARIANT AnswersComeFromFile
