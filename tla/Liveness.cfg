\* Everything the broker and the network may do, under fairness.
SPECIFICATION FairSpec
CONSTANTS
  Planned = 2
  StopIds = {s1, s2}
  NoStop = NoStop
  VenueMay = {"DELAY", "TRIGGER", "DROP_STOP", "END_ORDER"}
  Errors = {"TIMEOUT", "ERROR"}
INVARIANTS
  FlattenWithinFills
PROPERTIES
  NakedIsResolved
  SubmissionResolves
