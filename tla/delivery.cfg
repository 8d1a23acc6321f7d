SPECIFICATION Spec
CONSTANTS
  Main = main
  f1 = f1
  Flushers <- MCFlushers
  Batch = 2
  MaxReports = 4
INVARIANTS DispatchInv NoLostWakeup PerThreadOrder
PROPERTIES ReportsReachJS KeepsPromise
