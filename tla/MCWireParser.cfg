SPECIFICATION Spec
CONSTANTS
  Frames <- MCFrames
  MaxFrames = 3
  MaxFrameBytes = 3
  MaxBytes = 7
  MaxSlice = 15
INVARIANTS InSync Counted
PROPERTIES NoStall RefinesBudget
CHECK_DEADLOCK FALSE
