SPECIFICATION Spec
CONSTANTS
  a = a  b = b  c = c  d = d  w1 = w1  w2 = w2
  People = {a, b, c, d}
  Tokens = {"xlm"}
  Destinations = {w1, w2}
  FirstOwners = {a, b, c}
  Batches <- NoChoice
  OwnerLists <- NoChoice
  Windows = {0}
  Deposits = {1, 3}
  DEFAULT_VOTE_WINDOW = 2
  MAX_OWNERS = 4
  MAX_RELEASE_BATCH = 2
  MAX_U64 = 7
  MaxTime = 4
  MaxIncome = 4
INVARIANTS
  VoteCanBeHeld
CHECK_DEADLOCK FALSE
