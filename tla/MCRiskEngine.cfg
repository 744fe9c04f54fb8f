SPECIFICATION Spec
CONSTANTS
  Users = {u1}
  Merchants = {m1}
  Amounts = {249999, 2000000}
  Batches = {1, 20}
  Delays = {1}
  Times = {0, 1, 721, 8761}
  Workers = 2
  MaxCommits = 2
  MaxScored = 2
  None = None
INVARIANTS
  RiskTypeOK
  BlockedForAReason
  BurstsAreNoticed
  StoredScoreFitsDecision
PROPERTIES
  WaitingNeverRaises
CHECK_DEADLOCK FALSE
