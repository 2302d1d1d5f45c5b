SPECIFICATION Spec
CONSTANTS
  ChipLength = 1
  PreambleSymbols = 2
  PacketSymbols = 9
  PayloadSymbols = 3
  BlockSize = 4
  MaxBlocks = 6
INVARIANTS
  PayloadAligned
  InLockStep
