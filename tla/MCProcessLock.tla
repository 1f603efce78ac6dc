---------------------------- MODULE MCProcessLock ----------------------------
(* Three processes: an owner and two that want the lock.                   *)
EXTENDS ProcessLock, TLC

CONSTANTS p1, p2, p3

ThreeProcesses == {p1, p2, p3}
Symmetry == Permutations(Process)
=============================================================================
