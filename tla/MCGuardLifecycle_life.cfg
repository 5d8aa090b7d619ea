\* Every builder, panicking tasks, pending shutdown() futures that are dropped.
CONSTANTS
  Setups <- EverySetup
  Fallible = {"metrics", "server"}
  Cancellable = TRUE
  MaxOpen = 2
SPECIFICATION FairSpec
INVARIANTS
  TypeOK
  TeardownIsReported
  LiveIsHeld
  DropFlushes
  NoSampleLostByShutdown
PROPERTIES
  ShutdownIsFinal
  ShutdownReturns
  TasksEndAfterDrop
