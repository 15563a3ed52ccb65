CONSTANTS
  p1 = p1
  p2 = p2
  Producers <- MCProducers
  MaxBufs = 4
  DataKinds = {"PB"}
  CmdKinds = {"CONFIG", "SETSTA_DOWN", "TEST"}
  FrameBlocks = {1, 2}
  SlaveBufs = 2
  TxBufferMax = 4
  MaxSendErrors = 1
SYMMETRY MCSymmetry
SPECIFICATION Spec
INVARIANTS TypeOK NoLostWakeup NoSlaveOverrun SendLenCovers
PROPERTIES FifoRefined
CHECK_DEADLOCK FALSE
