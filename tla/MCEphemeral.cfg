CONSTANTS
  t1 = t1
  t2 = t2
  x = x
  y = y
  Turns = {t1, t2}
  Own = t1
  Foreign = Foreign
  Answers = {x, y}
  None = None
  BufferLimit = 2
  Sent <- MCSent
  MaxNotifications = 3
  MaxPages = 2
SPECIFICATION Spec
INVARIANTS RetryProven AnswerProven BufferingInvisible DeadlineReturns
PROPERTIES InterruptsOwnTurn
