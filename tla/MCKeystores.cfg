SPECIFICATION MCSpec
CONSTANTS
  a = a
  b = b
  k1 = k1
  k2 = k2
  m1 = m1
  f1 = f1
  Members = {a, b}
  InitialMembers <- TwoMembers
  Keys = {k1, k2}
  Quotes <- TwoQuotes
  Platforms = {f1}
  Measurements = {m1}
  MaxCollaterals = 1
  MaxRevokeBatch = 2
  MaxProposals = 3
  Booted <- TwoBoots
  Image <- OneImage
  Master = Master
  NoMaster = NoMaster
  MaxPolls = 2
  MaxKeyReads = 2
  Instances = {1, 2}
  Calls = {c1, c2}
  c1 = c1
  c2 = c2
  NoSession = NoSession
  MaxTeeRetries = 1
  MaxFaults = 2
INVARIANTS
  KeysFollowTheDao
  ServesWhenLetIn
PROPERTIES
  BallotsDecide
  
  WorkerRecovers
