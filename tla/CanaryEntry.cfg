CONSTANTS
  s1 = s1
  s2 = s2
  NoOne = NoOne
  OwnerLevels = {"FLATTEN_ALL"}
  Sessions <- MCSessions
SPECIFICATION ControlSpec
PROPERTIES
  CanaryEntryGated
CHECK_DEADLOCK FALSE
SYMMETRY MCSymmetry
