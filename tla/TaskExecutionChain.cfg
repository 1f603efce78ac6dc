CONSTANTS
  a = a
  b = b
  h1 = h1
  h2 = h2
  h3 = h3
  r1 = r1
  r2 = r2
  r3 = r3
  r4 = r4
  Task <- TwoTasks
  Host <- TwoHosts
  Run <- TwoRuns
  Depends <- Chain
  Criteria <- NoTasks
  Safe <- TwoTasks
  Mutating <- NoTasks
  Routes <- OneRoute
  Budget = 1
  Admitted = 1
  Concurrency = 1
  Rooted = FALSE
  Created = {"create","delegate"}
  Crashes = TRUE
  Suspends = TRUE
  None = None
  Commands = {"retry"}
SPECIFICATION Spec
SYMMETRY Symmetry
INVARIANTS DependenciesFirst
PROPERTIES OutcomeIsFinal LostRunNeverSucceeds
CHECK_DEADLOCK FALSE
