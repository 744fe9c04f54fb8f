SPECIFICATION Spec
CONSTANTS
  NoRow = NoRow
  Accounts <- Users
  Owner <- OwnerOf
  Currency <- OneCurrency
  InitialBalance <- TenEach
  Keys = {"k1", "k2"}
  CashKeys = {"q1"}
  Requests <- OneTransfer
  CashRequests <- NoCash
  Handlers = {h1, h2}
  Tellers = {}
  Workers = {}
  Killable = {}
  MaxBalance = 100
  MaxAttempts = 2
PROPERTIES
  DuplicateIsReplayed
CHECK_DEADLOCK FALSE

