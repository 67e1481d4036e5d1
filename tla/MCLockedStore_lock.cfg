\* Three FileLock objects in two processes, of which one may crash anywhere.
SPECIFICATION FairStoreSpec
CONSTANTS
  p1 = p1
  p2 = p2
  p3 = p3
  twin = twin
  Procs = {p1, p2}
  Lockers = {p1, twin, p2}
  Process <- TwinInP1
  Hosts = {"host", "other"}
  Configs <- EverySurroundings
  Followed <- CalmSurroundings
  NoFile = NoFile
  MaxReclaims = 2
  MaxPolls = 1
  CrashPoints <- AnyPoint
INVARIANTS TypeOK CalmMutualExclusion AckedWritesSurvive
PROPERTIES OrphanReclaimed TryLockReturns
CHECK_DEADLOCK FALSE
