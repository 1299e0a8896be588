SPECIFICATION Spec
CONSTANTS
  Reviewers = {r1, r2}
  Tabs = {t1, t2}
  Sweeper = sweeper
  Wallets = {w1, w2}
  old = old
  new = new
  Details = {old, new}
  None = none
  WINDOW = 1
  LIMIT = 1
  Expiry <- ExpiryDays
  MaxDay = 3
  MaxCalls = 5
SYMMETRY Symmetry
INVARIANTS
  TypeOK
  ApprovalIsRecorded
  RecordHasAnEnd
PROPERTIES
  WalletNeverMoves
  HashBindsDetailsToWallet
  ApprovalEndsWhenDue
CHECK_DEADLOCK FALSE
