\* The minute feed fails for an hour.
SPECIFICATION Spec
CONSTANTS
  Levels <- MCLevels
  Start = 1
  HourLen = 3
  MaxMinute = 6
  Horizon = 5
  MaxHold = 5
  Limit = 4
  HandoffAge = 3
  Policies = {"legacy", "defensive", "conviction"}
  Forgotten = {}
  Venues = {"crypto"}
  Outages = TRUE
INVARIANTS
  StopWasThere
CHECK_DEADLOCK FALSE
