SPECIFICATION Spec
CONSTANTS
  a = a  b = b  c = c  d = d
  People = {a, b, c}
  Tokens = {"xlm"}
  BPS_TOTAL = 10
  MAX_PLATFORM_FEE = 5
  FirstAdmin = "treasury"
  FirstSettings <- DeployedSettings
  FirstRegister <- Thirds
  Registers <- HalvesOnly
  OwnerLists <- NoChoice
  FundingTerms <- HalfInXlm
  SettingValues <- NoChoice
  Successors <- NoChoice
  Fees = {5}
  VOTE_WINDOW = 1
  MIN_RELEASE_INTERVAL = 2
  MAX_SHAREHOLDERS = 3
  MaxTime = 3
  MaxBalance = 9
  MaxCycles = 2
SYMMETRY Alike
INVARIANTS
  TypeOK
  ReservedExact
  OneLiveVote
  CycleMandate
  Covered
PROPERTIES
  MonthlyReleases
CHECK_DEADLOCK FALSE
