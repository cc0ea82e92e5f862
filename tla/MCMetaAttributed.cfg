CHECK_DEADLOCK FALSE
SPECIFICATION EventsSpec
CONSTANTS
  Nothing = Nothing
  Chains <- MCChains
  LateAfter = 1
  TipAge = 1
  MaxAge = 3
  MaxLen = 2
  Lookback = 2
  DelegatedTtl = 3
  Backfill = 1
  ProbeAhead = 2
  FarSteps = {3}
  MaxCatchup = 2
  StartBlock = 1
  MaxRestarts = 0
INVARIANTS
  MetaAttributed
