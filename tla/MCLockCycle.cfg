SPECIFICATION Spec
CONSTANTS
  NoRow = NoRow
  Accounts <- Users
  Owner <- OwnerOf
  Currency <- OneCurrency
  InitialBalance <- TenEach
  Keys = {"k1", "k2"}
  CashKeys = {"q1"}
  Requests <- CrossingTransfers
  CashRequests <- NoCash
  Handlers = {h1, h2}
  Tellers = {}
  Workers = {w1}
  Killable = {}
  MaxBalance = 100
  MaxAttempts = 2
INVARIANTS
  SettlementNeverDeadlocks
CHECK_DEADLOCK FALSE

