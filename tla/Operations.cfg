\* Two worker processes that also submit entries; two deployments that delete old files;
\* three instruments of two trading lanes.
SPECIFICATION AllSpec
CONSTANTS
  Sessions = {1, 2}
  Processes = {"p", "q"}
  ProcOf <- OwnProcess
  Tuples = {t, u}
  NoOne = NoOne
  MaxConns = 2
  MaxDepth = 2
  Parts = {"connections", "retention", "market"}
  Runners = {"old", "new"}
  Configs = {"c", "d"}
  MaxPeriod = 2
  Budget = 2
  Instruments = {"forts", "perp", "thin"}
  LaneOf <- Lanes
  Trading <- Hours
  Loaded = 1
  Signals <- SomeSignals
  Horizon = 1
  MaxFaults = 3
INVARIANTS
  OnePassPerTuple
  SubmitUnderControl
  DeletionsAccounted
  NoBarSleeps
  EvidenceIsHonest
CHECK_DEADLOCK FALSE
