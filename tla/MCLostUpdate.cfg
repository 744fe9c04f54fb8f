SPECIFICATION Spec
CONSTANTS
  NoRow = NoRow
  Accounts <- Users
  Owner <- OwnerOf
  Currency <- OneCurrency
  InitialBalance <- TenEach
  Keys = {"k1", "k2"}
  CashKeys = {"q1"}
  Requests <- OneTransfer
  CashRequests <- CashOnOne
  Handlers = {h1}
  Tellers = {c1}
  Workers = {w1}
  Killable = {}
  MaxBalance = 100
  MaxAttempts = 2
INVARIANTS
  LedgerExplainsBalance
CHECK_DEADLOCK FALSE

