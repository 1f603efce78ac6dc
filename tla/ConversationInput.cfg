CONSTANTS
  m1 = m1
  m2 = m2
  m3 = m3
  Message <- ThreeMessages
  Left <- OneLeft
  Recovery = Recovery
  None = None
  Limit = 2
  MaxTrouble = 1
SPECIFICATION FairSpec
INVARIANTS InputTypeOK
PROPERTIES NoTurnIsOverrun HandlersFinish
ACTION_CONSTRAINT FirstMessage
CHECK_DEADLOCK FALSE
