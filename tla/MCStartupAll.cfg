SPECIFICATION Spec
CONSTANTS
  Starts <- MCStarts
  None = None
INVARIANTS
  AsLaunched
