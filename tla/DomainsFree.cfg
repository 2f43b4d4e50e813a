SPECIFICATION Spec
CONSTANTS
  Tasks = {t1}
  Reconcilers = {r1}
  MaxCrashes = 0
  MaxMoney = 1
CHECK_DEADLOCK FALSE
INVARIANT PrepaidWasPaid
