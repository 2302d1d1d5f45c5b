SPECIFICATION Spec
CONSTANTS
  Ids = {1}
  Types = {"SCM", "IDM"}
  Sums = {"a", "b"}
  MeterTypeOf <- MCMeterTypeOf
  FlagSets <- MCUniqueOnly
  BlockSize = 2
  PacketLength = 3
  MaxBlocks = 5
  None = None
PROPERTIES
  UniqueSuppresses
