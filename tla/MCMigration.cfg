SPECIFICATION Spec
CONSTANTS
  Users = {u1, u2}
  Merchants = {m1, m2}
  Keys = {k1, k2}
  Amounts = {0, 1}
  MaxBalance = 1
  None = None
SYMMETRY Same
INVARIANTS
  SchemaFollowsRevision
  OneAccountEach
  TransfersMapped
  UpgradeGoesThrough
PROPERTIES
  MoneyIsKept
CHECK_DEADLOCK FALSE
