\* One failed clear of TOHOST_BIT0 in handle_intr1.
SPECIFICATION Spec
CONSTANTS
  MaxMsgs = 2
  QueueLen = 2
  MsgLens = {1}
  MaxSendErrors = 0
  MaxClearErrors = 1
  MaxReadErrors = 0
  MaxWifiSends = 1
  MaxBtRx = 0
  MaxRxErrors = 0
INVARIANTS SdioExclusive
CHECK_DEADLOCK FALSE
