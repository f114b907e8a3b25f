\* The owner asks the API to reconcile a trade whose policy only the scheduler knows.
SPECIFICATION Spec
CONSTANTS
  Levels <- MCLevels
  Start = 1
  HourLen = 3
  MaxMinute = 6
  Horizon = 5
  MaxHold = 5
  Limit = 4
  HandoffAge = 3
  Policies = {"legacy", "defensive", "conviction"}
  Forgotten = {"conviction"}
  Venues = {"forts"}
  Outages = FALSE
INVARIANTS
  SignedExit
CHECK_DEADLOCK FALSE
