SPECIFICATION Spec
CONSTANTS
  Pages = {p1}
  Wallets = {w1}
  Cids = {d1}
  Launches = {l1}
  None = none
  TIMEOUT = 1
  EXPIRY_GRACE = 1
  ASK_FOR = 4
  Lag = 0
  Keep = 6
  MaxTime = 4
PROPERTIES
  FreshLaunchIsSafe
CHECK_DEADLOCK FALSE
