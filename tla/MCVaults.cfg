SPECIFICATION MCSpec
CONSTANTS
  k0 = k0
  k1 = k1
  k2 = k2
  p1 = p1
  s1 = s1
  s2 = s2
  None = None
  TeeKeys = {k0, k1, k2}
  ParentKeys = {p1}
  Deploys <- Deployments
  Windows = {1, 2}
  CessationDelay = 2
  FinalizeWindow = 1
  MaxTeeKeys = 2
  Slots = {s1, s2}
  MaxBatches = 2
  MaxTime = 4
  Default = Default
  Tasks = {t1, t2}
  Customers = {c1}
  Seeds = {1}
  MaxUpsets = 1
  Lakes <- MCLakes
  WindowBlocks = 2
  FirstHeight = 1
  Unset = Unset
  MaxRuns = 2
SYMMETRY SlotSymmetry
INVARIANTS
  LockedVaultKeysInPlace
  
  UnlockedHasParentKey
  MastersGuarded
  HandlersGoOn
  
