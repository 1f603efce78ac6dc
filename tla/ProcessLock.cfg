CONSTANTS
  p1 = p1
  p2 = p2
  p3 = p3
  Process <- ThreeProcesses
  None = None
  MaxCrashes = 1
SPECIFICATION Spec
SYMMETRY Symmetry
INVARIANTS MutualExclusion
CHECK_DEADLOCK FALSE
