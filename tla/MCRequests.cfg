SPECIFICATION MCFairSpec
CONSTANTS
  dev = dev
  user = user
  other = other
  app = app
  v1 = v1
  send = send
  usdc = usdc
  usdt = usdt
  None = None
  Accounts = {dev, user}
  Names = {app}
  Versions = {v1}
  Operations = {send}
  Pricings <- TwoPricings
  Creators = {dev}
  Acceptors = {user}
  Pauses = {TRUE, FALSE}
  ProjectDeposit <- MCProjectDeposit
  VersionDeposit <- MCVersionDeposit
  AcceptDeposit = 1
  MaxProjects = 2
  Users = {user}
  Payers = {user}
  Tokens = {usdc}
  OwnerTokens = {usdc, None}
  Limits = {1}
  Usages <- OneUsage
  InputDeposits = {0}
  Payments = {2}
  Attachments = {2}
  GuestRefunds = {1}
  Deposits = {2}
  FeeSchedules = {}
  InitialFees <- MCInitialFees
  MaxRequests = 1
  MaxDeposited = 2
  MaxWithdrawals = 1
  Binaries <- MCBinaries
  Hosts = {"a", "b"}
  NoHost = NoHost
  Unset = Unset
  MinSeconds = 3
  Grace = 2
  Spare = 2
  MaxInstructions = 3
  MemoryFloor = 1
  MemoryCeiling = 2
  DefaultHttpTimeout = 3
  AbortThreshold = 2
  MaxInFlight = 2
  Attached = 1
  MaxGuestRuns = 3
INVARIANTS
  RunAccounted
PROPERTIES
  EarningsGoToTheProject
  EveryRequestEnds
  
