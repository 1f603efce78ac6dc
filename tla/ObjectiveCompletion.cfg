CONSTANTS
  r1 = r1
  r2 = r2
  x1 = x1
  x2 = x2
  w1 = w1
  w2 = w2
  Run <- TwoRuns
  Result <- TwoResults
  Worker <- OneWorker
  Origins <- AllOrigins
  None = None
  MaxAttempts = 1
  MaxCorrections = 1
  MaxFaults = 1
SPECIFICATION Spec
SYMMETRY Symmetry
CONSTRAINT Explored
INVARIANTS TypeOK AcceptedIsQueued SucceededWasDelivered PublishedWasSent
PROPERTIES DeliversOneResult
CHECK_DEADLOCK FALSE
