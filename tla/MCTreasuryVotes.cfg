SPECIFICATION Spec
CONSTANTS
  a = a  b = b  c = c  d = d
  People = {a, b, c, d}
  Tokens = {"xlm"}
  BPS_TOTAL = 10
  MAX_PLATFORM_FEE = 5
  FirstAdmin = "treasury"
  FirstSettings <- DeployedSettings
  FirstRegister <- Thirds
  Registers <- AnyRegister
  OwnerLists <- ListOfFour
  FundingTerms <- HalfInXlm
  SettingValues <- OfferedSettings
  Successors = {"treasury", "board"}
  Fees = {}
  VOTE_WINDOW = 2
  MIN_RELEASE_INTERVAL = 2
  MAX_SHAREHOLDERS = 4
  MaxTime = 5
  MaxBalance = 9
  MaxCycles = 0
PROPERTIES
  ImplementsMandate
CHECK_DEADLOCK FALSE
