\* One worker process that submits entries.
SPECIFICATION AllSpec
CONSTANTS
  Sessions = {1}
  Processes = {"p"}
  ProcOf <- OwnProcess
  Tuples = {t, u}
  NoOne = NoOne
  MaxConns = 2
  MaxDepth = 2
  Parts = {"connections"}
  Runners = {"old", "new"}
  Configs = {"c", "d"}
  MaxPeriod = 2
  Budget = 2
  Instruments = {"forts", "perp", "thin"}
  LaneOf <- Lanes
  Trading <- Hours
  Loaded = 1
  Signals <- SomeSignals
  Horizon = 1
  MaxFaults = 3
INVARIANTS
  NothingLeaks
CHECK_DEADLOCK FALSE
