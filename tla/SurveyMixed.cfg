SPECIFICATION Spec
CONSTANTS
  Radios = {0, 1}
  ErtRadio = 1
  ErtTypes = {"scm", "scm+", "idm"}
  Positions = {"here", "there"}
  MaxAge = 2
  MaxRows = 2
  None = None
INVARIANT
  EveryTypeCounted
CHECK_DEADLOCK FALSE
