\* Three processes, one crashes: the two others reclaim its lock.
SPECIFICATION StoreSpec
CONSTANTS
  p1 = p1
  p2 = p2
  p3 = p3
  twin = twin
  Procs = {p1, p2, p3}
  Lockers = {p1, p2, p3}
  Process <- OnePerProcess
  Hosts = {"host"}
  Configs <- OneMachine
  Followed = {}
  NoFile = NoFile
  MaxReclaims = 2
  MaxPolls = 1
  CrashPoints <- NotInCreate
INVARIANT MutualExclusion
CHECK_DEADLOCK FALSE
