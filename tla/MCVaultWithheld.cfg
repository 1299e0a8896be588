SPECIFICATION ReplaySpec
CONSTANTS
  Contributors = {c1, c2, c3}
  Amounts = {1, 2, 3}
  Goal = 6
  Deadline = 3
  Bond = 1
  MinContribution = 1
  VotingWindow = 1
  StallWindow = 3
  NumMilestones = 2
  Tranche <- TwoThirdsFirst
  MaxTime = 4
  MaxDonations = 0
SYMMETRY Symmetry
PROPERTIES
  CarriedNeverForfeited
CHECK_DEADLOCK FALSE
