SPECIFICATION Spec
CONSTANTS
  MaxDongles = 2
  MaxAttempts = 4
INVARIANTS
  NoStrayDecoder
PROPERTIES
  StopEnds
  NoStartAfterStop
  Restarted
