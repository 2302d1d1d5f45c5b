SPECIFICATION Spec
CONSTANTS
  BlockLen = 2
  MaxDropped = 2
INVARIANTS
  NoGapBeforeCancel
  ConfiguredUntilCancelled
  NoUseAfterClose
PROPERTIES
  NoStuckSend
  CancelEnds
  StageSpec
