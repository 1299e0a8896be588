SPECIFICATION ReplaySpec
CONSTANTS
  Contributors = {c1, c2, c3, c4, c5, c6}
  Amounts = {1, 2, 3, 5}
  Goal = 15
  Deadline = 2
  Bond = 1
  MinContribution = 1
  VotingWindow = 1
  StallWindow = 1
  NumMilestones = 1
  Tranche <- OneTranche
  MaxTime = 1
  MaxDonations = 0
SYMMETRY Symmetry
INVARIANTS
  VotesCounted
  CappedTotalExact
  UnanimityCarries
CHECK_DEADLOCK FALSE
