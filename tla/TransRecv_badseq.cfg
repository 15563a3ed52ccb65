\* The coprocessor gives one frame a wrong seq.
SPECIFICATION Spec
CONSTANTS
  MaxFrames = 3
  FrameLens = {1, 2}
  FrameTypes <- MCFrameTypes
  RecvBufLen = 6
  MaxBadSeq = 1
  MaxIntrErrors = 0
  MaxXferErrors = 0
INVARIANTS OnlyBadSeqDropped
CHECK_DEADLOCK FALSE
