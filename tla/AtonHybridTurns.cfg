SPECIFICATION Spec
CONSTANTS
  None = "none"
  Inst <- TwoInst
  Threads <- OneThread
  Serves <- OneServes
  Network <- HybridNetworks
  Lib <- SomeOps
  Users <- AppBuild
  MayAbort = FALSE
  Inferences = 1
INVARIANTS
  NoAssertFails
