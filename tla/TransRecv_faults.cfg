\* One frame with a wrong seq, recv_buf smaller than what may be pending,
\* one failed interrupt read and one failed transfer.
SPECIFICATION Spec
CONSTANTS
  MaxFrames = 3
  FrameLens = {1, 2}
  FrameTypes <- MCFrameTypes
  RecvBufLen = 3
  MaxBadSeq = 1
  MaxIntrErrors = 1
  MaxXferErrors = 1
INVARIANTS TypeOK  GetAddressesRemaining
CHECK_DEADLOCK FALSE
