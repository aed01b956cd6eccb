CONSTANTS
  Records = {r1, r2}
  JsonClients = {j1, j2}
  Databases = {d1, d2}
  LockOrder <- LegacyFirst
  MaxReboots = 2
  None = None
SYMMETRY Symmetry
SPECIFICATION Spec
INVARIANTS OpenIsFenced
PROPERTY KeepsReceipts
