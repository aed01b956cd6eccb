SPECIFICATION MCSpec
CONSTANTS
  None = None
  Callers = {c1, c2}
  Ids = {i1, i2, i3}
  MaxGenerations = 2
INVARIANTS
  LostCallsAnswered
  ReaderFree
  ClosedIsDetached
PROPERTIES
  FollowsLink
  
VIEW Used
