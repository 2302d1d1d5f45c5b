SPECIFICATION Spec
CONSTANTS
  Radios = {0, 1}
  ErtRadio = 1
  ErtTypes = {"scm", "idm"}
  Positions = {"here", "there"}
  MaxAge = 2
  MaxRows = 2
  None = None
INVARIANTS
  HeaderOnce
  NoRowLost
  CountedByMeter
PROPERTIES
  HonestPosition
CHECK_DEADLOCK FALSE
