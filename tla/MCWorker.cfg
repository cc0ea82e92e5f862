SPECIFICATION MCSpec
CONSTANTS
  Nothing = Nothing
  Chains <- MCChains
  LateAfter = 1
  TipAge = 1
  MaxAge = 3
  MaxLen = 2
  Lookback = 2
  DelegatedTtl = 3
  Backfill = 1
  ProbeAhead = 2
  FarSteps = {3}
  MaxCatchup = 2
  StartBlock = 1
  MaxRestarts = 1
  g1 = g1
  g2 = g2
  Guests = {g1, g2}
  Cells = {"k", "w"}
  WorkerCells = {"w"}
  StoragePrograms <- MCPrograms
  IntMin <- MCIntMin
  WasmHash <- MCWasmHash
  IntMax = 1
  Garbage = 7
  Absent = Absent
  MaxRetries = 2
  MaxGuestOps = 2
  MaxStorageFaults = 1
  Requests = {r1}
  Machines = {1, 2}
  Can <- MCCan
  MaxFaults = 2
  CodeScopes <- MCScopes
  Builders = {b1, b2}
  Mode <- MCMode
  Coordinates = Coordinates
  UrlCode = UrlCode
  Stray = Stray
  Nil = Nil
  SizeOf <- MCSize
  MaxCacheSize = 2
  MaxRedirects = 1
  UrlPaths <- MCPaths
INVARIANTS
  OnePlace
  
  CodeInOrder
  StorageAsWritten
