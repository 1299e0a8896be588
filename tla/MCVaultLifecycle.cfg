SPECIFICATION ReplaySpec
CONSTANTS
  Contributors = {c1, c2, c3, c4}
  Amounts = {1, 2, 4}
  Goal = 7
  Deadline = 2
  Bond = 3
  MinContribution = 1
  VotingWindow = 1
  StallWindow = 1
  NumMilestones = 2
  Tranche <- OneThenRest
  MaxTime = 3
  MaxDonations = 1
SYMMETRY Symmetry
INVARIANTS
  TypeOK
  BondGoesOneWay
  RecordMatchesFate
  ReleaseMandate
  Solvent
  FairShares
  ReplayMatchesVault
PROPERTIES
  OnlyALapseForfeitsACarriedVote
  NoDustStranded
  ImplementsEscrow
CHECK_DEADLOCK FALSE
