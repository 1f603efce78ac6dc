CONSTANTS
  a = a
  b = b
  h1 = h1
  h2 = h2
  h3 = h3
  r1 = r1
  r2 = r2
  r3 = r3
  r4 = r4
  Task <- TwoTasks
  Host <- TwoHosts
  Run <- FourRuns
  Depends <- Chain
  Criteria <- TwoTasks
  Safe <- TwoTasks
  Mutating <- NoTasks
  Routes <- OneRoute
  Budget = 1
  Admitted = 1
  Concurrency = 2
  Rooted = FALSE
  Created = {"create"}
  Crashes = FALSE
  Suspends = FALSE
  None = None
  Commands = {}
SPECIFICATION FairSpec
PROPERTIES PlanSettles
CHECK_DEADLOCK FALSE
