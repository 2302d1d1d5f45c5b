SPECIFICATION Spec
CONSTANTS
  Starts <- MCStarts
  None = None
INVARIANTS
  AsItsMode
  SurveyAsLaunched
  FiltersInForce
  IndicesInRange
  MeetsAssumptions
  PacketsUsable
  RadioDeterministic
  PacketsTrusted
