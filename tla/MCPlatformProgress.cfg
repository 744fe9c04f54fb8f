SPECIFICATION FairSpec
CONSTANTS
  NoRow = NoRow
  Accounts <- Users
  Owner <- OwnerOf
  Currency <- OneCurrency
  InitialBalance <- TenEach
  Keys = {"k1", "k2"}
  CashKeys = {"q1"}
  Requests <- CrossingTransfers
  CashRequests <- CashOnOne
  Handlers = {h1, h2}
  Tellers = {c1}
  Workers = {w1}
  Killable = {h1, c1}
  MaxBalance = 100
  MaxAttempts = 2
PROPERTIES
  EveryJobFinishes
  EveryRequestAnswered
CHECK_DEADLOCK FALSE

