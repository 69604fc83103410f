SPECIFICATION Spec
CONSTANTS
  w1 = w1
  w2 = w2
  Workers <- TwoWorkers
  Jobs <- Mixed
  Warmup = 1
  Duration = 1
  Lead = 1
  Jitter = 1
  FetchDelays = {3}
  Rate = 1
  Second = 2
  Blocks = 1
  MaxTime = 5
  MaxAsks = 2
  MaxTroubles = 1
SYMMETRY Sym
INVARIANTS
  MeasuredTruly RateKept WindowIsShared
CHECK_DEADLOCK FALSE
