\* Every failure the BT path handles: an empty payload, a full queue, a
\* failed send, a failed clear of TOHOST_BIT0 and a failed CONFIG_W1 read.
SPECIFICATION Spec
CONSTANTS
  MaxMsgs = 3
  QueueLen = 2
  MsgLens = {0, 1}
  MaxSendErrors = 1
  MaxClearErrors = 1
  MaxReadErrors = 1
  MaxWifiSends = 1
  MaxBtRx = 2
  MaxRxErrors = 1
INVARIANTS TypeOK BtInOrder
CHECK_DEADLOCK FALSE
