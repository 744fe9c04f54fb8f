SPECIFICATION Spec
CONSTANTS
  NoRow = NoRow
  Accounts <- UsersAndMerchant
  Owner <- OwnerOf
  Currency <- OneCurrency
  InitialBalance <- TenEach
  Keys = {"k1", "k2"}
  CashKeys = {"q1"}
  Requests <- TransfersOfAllKinds
  CashRequests <- CashOfAllKinds
  Handlers = {h1, h2}
  Tellers = {c1, c2}
  Workers = {}
  Killable = {h1, h2, c1, c2}
  MaxBalance = 12
  MaxAttempts = 2
INVARIANTS
  ExactlyOnce
  LedgerExplainsBalance
PROPERTIES
  ServicesImplementLedger
CHECK_DEADLOCK FALSE
SYMMETRY SameRoles
