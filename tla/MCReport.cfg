SPECIFICATION Spec
CONSTANTS
  Ids = {1, 2}
  Types = {"SCM"}
  Sums = {"a", "b"}
  MeterTypeOf <- MCMeterTypeOf
  FlagSets <- MCFlagSets
  BlockSize = 2
  PacketLength = 3
  MaxBlocks = 5
  None = None
INVARIANTS
  ReportedOnce
  NoneMissed
  SingleMeansOne
  UniqueShowsChanges
  SamplesBacked
PROPERTIES
  UniqueSuppresses
