SPECIFICATION FairSpec
CONSTANTS
  j1 = j1
  j2 = j2
  w1 = w1
  w2 = w2
  w3 = w3
  None = None
  Jobs <- OneJob
  Workers <- TwoWorkers
  ManifestJobs <- Nobody
  Fragile <- OneWorker
  Expiring <- Nobody
  Target <- Pair
PROPERTIES
  VerdictReached
