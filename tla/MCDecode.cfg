SPECIFICATION Spec
CONSTANTS
  Parsers <- MCParsers
  Preambles <- MCPreambles
  PreambleOf <- MCPreambleOf
  Wrapped <- MCWrapped
  MaxMsgs = 2
  MaxBlocks = 2
INVARIANTS
  NoSendOnClosed
  InStep
  HandledAsFound
PROPERTIES
  EveryBlockOnce
  DeliversEach
  DecodeEnds
