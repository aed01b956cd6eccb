SPECIFICATION MCQueueSpec
CONSTANTS
  None = None
  Ids = {i1, i2}
  Texts = {t1}
  Actions = {a1}
  Clients = {c1, c2}
  MaxClaims = 2
  MaxTurns = 1
  SQLite = TRUE
  Resend = FALSE
  Lag = FALSE
  Offered = {{"message", "queue"}, {"send", "queue", "delete"}, {"queue", "delete", "recover"}}
SYMMETRY QueueSymmetry
VIEW Unread
INVARIANTS SubmittedOnce QueuedOnce CancelledNeverStarts SubmissionRemembered
PROPERTIES IntentOutlivesCompletion NotSentIsUnsubmitted
