SPECIFICATION Spec
CONSTANTS
  j1 = j1
  j2 = j2
  w1 = w1
  w2 = w2
  w3 = w3
  None = None
  Jobs <- TwoJobs
  Workers <- TwoWorkers
  ManifestJobs <- Nobody
  Fragile <- Nobody
  Expiring <- OneJob
  Target <- PairAndSolo
SYMMETRY WorkerSymmetry
INVARIANTS
  SlotsExact OneJobPerWorker BindingKept PendingServed OnePartialJob
