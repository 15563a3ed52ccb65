\* One frame with a wrong seq; recv_buf holds all that may be pending; no
\* transport errors.
SPECIFICATION Spec
CONSTANTS
  MaxFrames = 3
  FrameLens = {1, 2}
  FrameTypes <- MCFrameTypes
  RecvBufLen = 6
  MaxBadSeq = 1
  MaxIntrErrors = 0
  MaxXferErrors = 0
PROPERTIES EveryFrameHandled
CHECK_DEADLOCK FALSE
