\* A pair that is decided in a later tick than its Shadow row, after a late bar.
SPECIFICATION AllSpec
CONSTANTS
  Sessions = {1, 2}
  Processes = {"p", "q"}
  ProcOf <- OwnProcess
  Tuples = {t, u}
  NoOne = NoOne
  MaxConns = 2
  MaxDepth = 2
  Parts = {"market"}
  Runners = {"old", "new"}
  Configs = {"c", "d"}
  MaxPeriod = 2
  Budget = 2
  Instruments = {"forts", "perp", "thin"}
  LaneOf <- Lanes
  Trading <- Hours
  Loaded = 1
  Signals <- SomeSignals
  Horizon = 1
  MaxFaults = 3
INVARIANTS
  PairOnSameBars
CHECK_DEADLOCK FALSE
