SPECIFICATION MCSpec
CONSTANTS
  a = a
  b = b
  c = c
  k1 = k1
  m1 = m1
  f1 = f1
  h1 = h1
  t1 = t1
  t2 = t2
  v1 = v1
  Members = {a, b, c}
  InitialMembers <- ThreeMembers
  Keys = {k1}
  Quotes <- OneQuote
  Platforms = {f1}
  Measurements = {m1}
  MaxCollaterals = 1
  MaxRevokeBatch = 1
  MaxProposals = 1
  Hashes = {h1}
  ArgsSet = {t1, t2}
  Vaults = {v1}
  Caller = "ann"
  Missing = Missing
  Requests <- KeyRequests
  Rows <- FewRows
  Worlds <- FewWorlds
  OwnVaults = {"own"}
  Ages <- FleetAges
  MaxBlocks = 3
  MaxTime = 1
  TaskPlans <- MCPlans
  Devices <- MCDevices
  NoKey = NoKey
  Unset = Unset
  Several = Several
  MaxOpens = 1
  MaxCalls = 2
  ApprovalAge = 0
  Life = 1
  MaxRotations = 1
  MaxClock = 1
  owner = owner
  heir = heir
  Accounts = {owner, heir}
  Builds = {"m1"}
  Collaterals <- MCCollaterals
  WorkerKeys <- MCKeys
  WorkerImage <- MCImage
  MaxPlatforms = 2
  MaxAttempts = 1
  MaxStarts = 2
  MaxReceipts = 2
INVARIANTS
  ServesWithItsKey
  KeysAsDeclared
  VerdictStands
  TasksAsApproved
PROPERTIES
  VersionsDecided
  StrangersPayNothing
