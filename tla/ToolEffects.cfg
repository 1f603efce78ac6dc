CONSTANTS
  p1 = p1
  p2 = p2
  p3 = p3
  e1 = e1
  e2 = e2
  e3 = e3
  Effect <- MCEffect
  Pid <- MCPids
  Call <- MCCall
  PidReuse = FALSE
  None = None
SPECIFICATION Spec
SYMMETRY Symmetry
INVARIANTS TypeOK AtMostOnce RecordIsTrue ReplayNeverRepeats CompensatesCommitted
PROPERTIES StartRecoversOrphans
CHECK_DEADLOCK FALSE
