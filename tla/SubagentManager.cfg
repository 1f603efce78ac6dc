CONSTANTS
  Owner <- MCOwner
  Work <- MCWork
  OwnerOf <- MCOwnerOf
  Delegation <- MCDelegation
  MaxChildren = 1
  MaxConcurrent = 2
  IncreaseAfterSuccesses = 1
  MaxQueued = 2
  MaxQueuedPerOwner = 2
  Adaptive = TRUE
  NoOwner = NoOwner
SPECIFICATION ManagerSpec
INVARIANTS ManagerTypeOK NoIdleSlot ReportMatchesLedger
ACTION_CONSTRAINT FirstDelegation
PROPERTIES ServesAnother DelegationsEnd
