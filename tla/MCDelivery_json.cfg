CONSTANTS
  Ids = {m1}
  Texts = {t1,t2}
  Actions = {a1}
  None = None
  MaxClaims = 2
  MaxTurns = 1
  SQLite = FALSE
  Resend = FALSE
  Clients = {c1, c2}
SPECIFICATION Spec
SYMMETRY ClientSymmetry
INVARIANT AtMostOnce
PROPERTY RemovedIsDelivered
VIEW Receipts
