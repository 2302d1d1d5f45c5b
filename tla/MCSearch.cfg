SPECIFICATION Spec
CONSTANTS
  W = 2
  SymbolBytes = 1
  BlockBytes = 2
  PacketSymbols = 3
  Preambles <- MCPreambles
  MaxBlocks = 3
INVARIANTS
  SearchExact
  NoneOverlooked
  PacketsWhole
PROPERTIES
  FoundOnce
