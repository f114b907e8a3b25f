\* Crashes and lost answers; no request arrives late.
SPECIFICATION Spec
CONSTANTS
  Planned = 2
  StopIds = {s1, s2, s3}
  NoStop = NoStop
  VenueMay = {"TRIGGER", "DROP_STOP", "END_ORDER"}
  Errors = {"TIMEOUT", "ERROR"}
SYMMETRY StopSymmetry
INVARIANTS
  TypeOK
  ProtectedMeansConfirmed
  NoBlindReplay
  StopsWithinFills
PROPERTIES
  OnlyAllowedSteps
  ImplementsContract
