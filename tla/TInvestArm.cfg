\* A port that reports a lost answer as an error, as the T-Invest adapter does.
SPECIFICATION Spec
CONSTANTS
  Planned = 2
  StopIds = {s1, s2}
  NoStop = NoStop
  VenueMay = {}
  Errors = {"ERROR"}
PROPERTIES
  NoFlattenOfCovered
