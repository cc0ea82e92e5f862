CHECK_DEADLOCK FALSE
SPECIFICATION JobsSpec
CONSTANTS
  Requests = {r1}
  Machines = {1, 2}
  Can <- MCCan
  MaxFaults = 1
INVARIANTS
  FailedBuildsReported
