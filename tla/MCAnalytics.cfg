SPECIFICATION Spec
CONSTANTS
  Keys = {k1, k2, k3}
  Amounts = {1, 2}
  MaxTime = 2
  Precision = 32
  None = None
SYMMETRY Same
INVARIANTS
  ReportAgrees
  RangesAddUp
PROPERTIES
  ClosedPeriodsAreFinal
CHECK_DEADLOCK FALSE
