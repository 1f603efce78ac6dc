CONSTANTS
  a = a
  b = b
  h1 = h1
  h2 = h2
  h3 = h3
  r1 = r1
  r2 = r2
  r3 = r3
  r4 = r4
  Task <- TwoTasks
  Host <- TwoHosts
  Run <- ThreeRuns
  Depends <- Chain
  Criteria <- OneTask
  Safe <- TwoTasks
  Mutating <- NoTasks
  Routes <- SpareRoute
  Budget = 1
  Admitted = 0
  Concurrency = 1
  Rooted = TRUE
  Created = {"create"}
  Crashes = FALSE
  Suspends = FALSE
  None = None
  Commands = {"cancel","abort","pause","retry"}
SPECIFICATION Spec
SYMMETRY Symmetry
CONSTRAINT PausedEarly
INVARIANTS PlanSuccess
PROPERTIES CancelledPlanIsQuiet ObjectiveStopsSuccess
CHECK_DEADLOCK FALSE
