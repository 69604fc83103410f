SPECIFICATION Spec
CONSTANTS
  j1 = j1
  j2 = j2
  w1 = w1
  w2 = w2
  w3 = w3
  None = None
  Jobs <- OneJob
  Workers <- ThreeWorkers
  ManifestJobs <- OneJob
  Fragile <- ThreeWorkers
  Expiring <- OneJob
  Target <- Pair
SYMMETRY WorkerSymmetry
INVARIANTS
  IInv BarrierExact NoEarlyStart CompletionExact NoOrphanReader
PROPERTIES
  VerdictFinal ImplementsLifecycle
CHECK_DEADLOCK FALSE
