SPECIFICATION Spec
CONSTANTS
  Pages = {p1, p2}
  Wallets = {w1, w2}
  Cids = {d1}
  Launches = {l1, l2}
  None = none
  TIMEOUT = 1
  EXPIRY_GRACE = 1
  ASK_FOR = 1
  Lag = 1
  Keep = 3
  MaxTime = 4
SYMMETRY Symmetry
INVARIANTS
  TypeOK
  NoSecondVaultUnawares
  InFlightIsOnRecord
CHECK_DEADLOCK FALSE
