SPECIFICATION DeliveredSpec
CONSTANTS
  Subs = {s1, s2}
  NoSub = none
  Handlers = {h1}
  Window = 1
  MaxCrashes = 2
  Operator = TRUE
  Requests = {"v1", "v2"}
  Emails = {"customer", "customer in Unicode", "visitor"}
  Owner = "customer"
  Folded = {"customer", "customer in Unicode"}
  Reserved = TRUE
  Targets = {"email"}
  Keyed = {"email"}
  Admins = {"owner"}
  MaxMessages = 2
  MaxStops = 1
  MaxFaults = 1
  Runs = {"r1", "r2"}
  Sizes = {1, 2, 3}
  MaxFiles = 3
  MaxFile = 2
  MaxTotal = 3
  MaxBuilds = 2
  MaxRestarts = 1
  Lags = {0, 1, 11}
  MaxRenewals = 2
  MaxDetours = 3
CHECK_DEADLOCK FALSE
INVARIANT DeliveredTypeOK
INVARIANT PaidMeansSettled
INVARIANT QuietMeansInStep
INVARIANT AnnouncedOnce
INVARIANT RenewalFollowsPayment
INVARIANT OwnerIsReserved
INVARIANT ToldBeforeDone
INVARIANT PaidIsReviewed
INVARIANT ReviewerKnowsTheRest
PROPERTY PaymentArrives
PROPERTY OutboxDrains
PROPERTY RenewalPassedOn
