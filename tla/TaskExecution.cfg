CONSTANTS
  a = a
  b = b
  h1 = h1
  h2 = h2
  h3 = h3
  r1 = r1
  r2 = r2
  r3 = r3
  r4 = r4
  Task <- OneTask
  Host <- TwoHosts
  Run <- ThreeRuns
  Depends <- NoTasks
  Criteria <- OneTask
  Safe <- OneTask
  Mutating <- OneTask
  Routes <- OneRoute
  Budget = 1
  Admitted = 0
  Concurrency = 1
  Rooted = FALSE
  Created = {"create"}
  Crashes = TRUE
  Suspends = FALSE
  None = None
  Commands = {}
SPECIFICATION Spec
SYMMETRY Symmetry
INVARIANTS TypeOK OneExecutor ResultWasAccepted
PROPERTIES ReplayIsSafe
CHECK_DEADLOCK FALSE
