SPECIFICATION FairSpec
CONSTANTS
  None = "none"
  Inst <- AllInst
  Threads <- AllThreads
  Serves <- AllServes
  Network <- AllNetworks
  Lib <- SomeOps
  Users <- BothBuilds
  MayAbort = TRUE
  Inferences = 2
INVARIANTS
  TypeOK
  NoAssertFails
  BlockEndsAfterHardware
  NpuWorksForOwner
  LibStateIsOwners
  WaiterIsWoken
PROPERTIES
  OperatorCompletes
  InferencesEnd
  ImplementsEpochOrder
  ImplementsAtonLock
