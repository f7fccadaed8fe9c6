SPECIFICATION FairLifecycleSpec
CONSTANTS
  Incoming = {r1, r2, r3}
  Pruner = pruner
  PoolSize = 2
  MaxBouts = 2
CHECK_DEADLOCK FALSE
INVARIANTS
  EndCutsNoTransaction
PROPERTIES
  SignalWhileServingStops
  AcceptedIsAnswered
