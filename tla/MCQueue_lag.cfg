SPECIFICATION MCQueueSpec
CONSTANTS
  None = None
  Ids = {i1}
  Texts = {t1}
  Actions = {a1}
  Clients = {c1, c2}
  MaxClaims = 1
  MaxTurns = 1
  SQLite = TRUE
  Resend = FALSE
  Lag = TRUE
  Offered = {{"queue", "delete", "recover"}}
SYMMETRY ClientSymmetry
INVARIANT CancelledNeverStarts
