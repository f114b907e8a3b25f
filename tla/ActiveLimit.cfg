\* Violated: a rotation hides a device from the count of a pairing.
SPECIFICATION AllSpec
CONSTANTS
  s1 = s1
  s2 = s2
  k1 = k1
  k2 = k2
  Sessions <- MCSessions
  Ideas = {i1}
  MaxEvents = 5
  MaxDevices = 1
  Emitters = {"scheduler", "api"}
  Scheduler = "scheduler"
  News <- MCKeys
  MaxId = 3
  Devices = {"d", "e"}
  Clients <- MCSessions
  EnrolKeys <- MCKeys
  Codes = {"code 1", "code 2"}
  Enrolled = {"d"}
  MaxGen = 2
  Levels <- MCLevels
  Start = 1
  HourLen = 3
  MaxMinute = 6
  Horizon = 5
  MaxHold = 5
  Limit = 4
  HandoffAge = 3
  Policies = {"legacy", "defensive", "conviction"}
  Forgotten = {}
  Venues = {"forts", "crypto"}
  Outages = FALSE
  Parts = {"devices"}
INVARIANTS
  AtMostLimit
CHECK_DEADLOCK FALSE
