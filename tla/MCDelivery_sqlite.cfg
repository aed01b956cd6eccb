CONSTANTS
  Ids = {m1}
  Texts = {t1}
  Actions = {a1}
  None = None
  MaxClaims = 2
  MaxTurns = 1
  SQLite = TRUE
  Resend = TRUE
  Clients = {c1, c2}
SPECIFICATION Spec
SYMMETRY ClientSymmetry
INVARIANTS
  AtMostOnce
  DeliveryRemembered
  ReceiptIsDelivered
PROPERTIES
  NotSentIsUnsent
  RestoredIsUnsent
  FollowsPermits
VIEW Receipts
