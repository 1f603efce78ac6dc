------------------------ MODULE MCObjectiveCompletion ------------------------
(* Small instances of ObjectiveCompletion.                                 *)
EXTENDS ObjectiveCompletion, TLC

CONSTANTS r1, r2, x1, x2, w1, w2

OneRun == {r1}
TwoRuns == {r1, r2}
OneResult == {x1}
TwoResults == {x1, x2}
OneWorker == {w1}
TwoWorkers == {w1, w2}
AllOrigins == {"turn", "initiative", "plan"}

\* An Objective with a Plan is explored without the turns of Schedules.
Explored == Planned => \A r \in Run : turn[r].kind # "automation"

Symmetry ==
  Permutations(Run) \cup Permutations(Result) \cup Permutations(Worker)
=============================================================================
