SPECIFICATION Spec
CONSTANTS
  NoRow = NoRow
  Accounts <- Users
  Owner <- OwnerOf
  Currency <- OneCurrency
  InitialBalance <- TenEach
  Keys = {"k1", "k2"}
  CashKeys = {"q1"}
  Requests <- ClashingTransfers
  CashRequests <- CashOnOne
  Handlers = {h1, h2}
  Tellers = {c1}
  Workers = {w1, w2}
  Killable = {h1, h2, c1, w1, w2}
  MaxBalance = 15
  MaxAttempts = 2
INVARIANTS
  TypeOK
  LocksExclude
  LockedReadIsFresh
  ClaimsAreExclusive
  WorkersNeverDeadlock
  RowsAgree
PROPERTIES
  SettledOnce
  OnlyStaleSettlesLeaveLedger
  CashAuditMatchesBalance
CHECK_DEADLOCK FALSE
SYMMETRY SameRoles
