CONSTANTS
  w1 = w1
  w2 = w2
  None = None
  Worker <- TwoWorkers
  Kinds <- AllKinds
  Policies <- BothPolicies
  Works <- BothWorks
  Last = 4
  Period = 2
  Delay = 1
  Grace = 1
  MaxAttempts = 2
  MaxDeliveries = 1
  MaxCommands = 1
  MaxFaults = 1
SPECIFICATION FairSpec
INVARIANTS TypeOK OneExecution AttemptsBounded SuccessWasAccepted OneAcceptedObjective
PROPERTIES OutcomesAreFenced OccurrencesEnd DeliveriesEnd
CONSTRAINT Explored
ACTION_CONSTRAINT FirstWorker
CHECK_DEADLOCK FALSE
