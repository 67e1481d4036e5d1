\* Pools of one and two connections, each with every set of faults.
SPECIFICATION FairSpec
CONSTANTS
  Clients = {c1, c2, c3}
  Handles = {h1, h2, h3}
  NoHandle = NoHandle
  Configs <- EveryPool
  MaxCalls = 2
INVARIANTS TypeOK LeasesHoldSlots PoisonedHasNoIdleHandle
INVARIANTS NoStrandedWaiter InvalidatedHandlesDie
PROPERTIES ImplementsGrants EveryAcquireReturns
CHECK_DEADLOCK FALSE
