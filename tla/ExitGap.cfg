\* Every call gets its minutes, some calls come late.
SPECIFICATION Spec
CONSTANTS
  Levels <- MCLevels
  Start = 1
  HourLen = 3
  MaxMinute = 7
  Horizon = 7
  MaxHold = 7
  Limit = 7
  HandoffAge = 3
  Policies = {"defensive"}
  Forgotten = {}
  Venues = {"crypto"}
  Outages = FALSE
PROPERTIES
  NoMinuteSkipped
CHECK_DEADLOCK FALSE
