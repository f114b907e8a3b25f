\* An entry that the broker ends after a part of it was protected.
SPECIFICATION Spec
CONSTANTS
  Planned = 2
  StopIds = {s1, s2}
  NoStop = NoStop
  VenueMay = {"END_ORDER"}
  Errors = {}
INVARIANTS
  NoFillEscapes
