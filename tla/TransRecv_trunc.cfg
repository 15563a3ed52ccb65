\* More units pending in the slave than recv_buf holds.
SPECIFICATION Spec
CONSTANTS
  MaxFrames = 3
  FrameLens = {1, 2}
  FrameTypes <- MCFrameTypes
  RecvBufLen = 2
  MaxBadSeq = 0
  MaxIntrErrors = 0
  MaxXferErrors = 0
INVARIANTS NoPartialDispatch
CHECK_DEADLOCK FALSE
