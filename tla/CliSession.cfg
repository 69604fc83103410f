SPECIFICATION FairSessionSpec
CONSTANTS
  j1 = j1
  w1 = w1
  w2 = w2
  None = None
  Jobs <- OneJob
  Watchers <- TwoSessions
  Creators <- Creator
  Capacity = 2
  MaxEvents = 5
  MaxPolls = 1
INVARIANTS
  HistoryFaithful NobodyLeftBehind ReportIsFinal EndMeansOver
PROPERTIES
  ImplementsLog SessionsEnd
CHECK_DEADLOCK FALSE
