\* A broker that fills the market orders it accepts; lost answers are timeouts.
SPECIFICATION CloseSpec
CONSTANTS
  Planned = 2
  StopIds = {s1, s2}
  NoStop = NoStop
  VenueMay = {"DROP_STOP"}
  Errors = {"TIMEOUT"}
PROPERTIES
  EmergencyCloses
  FlattenOnlyAfterSla
