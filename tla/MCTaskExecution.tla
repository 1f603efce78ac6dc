--------------------------- MODULE MCTaskExecution ---------------------------
(* Small instances of TaskExecution.                                       *)
EXTENDS TaskExecution, TLC

CONSTANTS a, b, h1, h2, h3, r1, r2, r3, r4

OneTask == {a}
TwoTasks == {a, b}
TwoHosts == {h1, h2}
ThreeHosts == {h1, h2, h3}
TwoRuns == {r1, r2}
ThreeRuns == {r1, r2, r3}
FourRuns == {r1, r2, r3, r4}

\* b depends on a.
Chain == {<<b, a>>}
NoTasks == {}

OneRoute == [t \in Task |-> 1]
SpareRoute == [t \in Task |-> IF t = a THEN 2 ELSE 1]

\* The user pauses a Plan while there are at most two Runs.
PausedEarly == plan.paused => Cardinality({r \in Run : runs[r].status # "absent"}) <= 2

Symmetry == Permutations(Host) \cup Permutations(Run)
=============================================================================
