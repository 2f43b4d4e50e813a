SPECIFICATION Spec
CONSTANTS
  Subs = {s1, s2}
  NoSub = none
  Handlers = {h1, h2}
  Window = 2
  MaxCrashes = 0
  Operator = FALSE
CHECK_DEADLOCK FALSE
PROPERTY StaleDeleteIsHarmless
