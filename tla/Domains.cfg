SPECIFICATION FairSpec
CONSTANTS
  Tasks = {t1, t2}
  Reconcilers = {r1}
  MaxCrashes = 1
  MaxMoney = 1
CHECK_DEADLOCK FALSE
INVARIANT TypeOK
INVARIANT CheckoutMeansPrepaid
INVARIANT PurchasedIsOwned
PROPERTY AttachedIsKept
PROPERTY DomainOrRefund
