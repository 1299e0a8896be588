SPECIFICATION KeeperSpec
CONSTANTS
  Contributors = {c1, c2}
  Amounts = {1}
  Goal = 2
  Deadline = 2
  Bond = 1
  MinContribution = 1
  VotingWindow = 1
  StallWindow = 2
  NumMilestones = 2
  Tranche <- OneEach
  MaxTime = 10
  MaxDonations = 0
PROPERTIES
  FundedProjectEnds
  MissedGoalIsClosed
  EveryBackerRepaid
CHECK_DEADLOCK FALSE
