\* Two BT payloads and one failing send_packet; no other faults.
CONSTANTS
  MaxMsgs = 2
  QueueLen = 2
  MsgLens = {1}
  MaxSendErrors = 1
  MaxClearErrors = 0
  MaxReadErrors = 0
  MaxWifiSends = 0
  MaxBtRx = 0
  MaxRxErrors = 0
SPECIFICATION Spec
PROPERTIES EveryBtMsgSent
CHECK_DEADLOCK FALSE
