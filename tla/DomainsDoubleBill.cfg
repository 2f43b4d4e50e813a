SPECIFICATION Spec
CONSTANTS
  Tasks = {t1}
  Reconcilers = {r1, r2}
  MaxCrashes = 0
  MaxMoney = 2
CHECK_DEADLOCK FALSE
INVARIANT InvoicedOnce
