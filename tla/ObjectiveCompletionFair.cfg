CONSTANTS
  r1 = r1
  r2 = r2
  x1 = x1
  x2 = x2
  w1 = w1
  w2 = w2
  Run <- OneRun
  Result <- OneResult
  Worker <- TwoWorkers
  Origins <- AllOrigins
  None = None
  MaxAttempts = 2
  MaxCorrections = 0
  MaxFaults = 1
SPECIFICATION FairSpec
PROPERTIES TakenOverClaimIsQuiet DeliverySettles
CHECK_DEADLOCK FALSE
