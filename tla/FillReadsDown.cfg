\* A broker that answers everything but the read of the fills.
SPECIFICATION FillReadsDownSpec
CONSTANTS
  Planned = 2
  StopIds = {s1}
  NoStop = NoStop
  VenueMay = {"END_ORDER"}
  Errors = {"TIMEOUT"}
PROPERTIES
  NakedIsResolved
