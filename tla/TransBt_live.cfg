\* No errors on the TX side and non-empty payloads, one failed BT read: the
\* credit loop must keep BT traffic flowing without overrunning the
\* coprocessor or the SDIO mutex, and every received BT frame reaches the host.
SPECIFICATION Spec
CONSTANTS
  MaxMsgs = 3
  QueueLen = 2
  MsgLens = {1}
  MaxSendErrors = 0
  MaxClearErrors = 0
  MaxReadErrors = 0
  MaxWifiSends = 1
  MaxBtRx = 2
  MaxRxErrors = 1
INVARIANTS NoBtOverrun SdioExclusive
PROPERTIES  EveryBtRxDelivered
CHECK_DEADLOCK FALSE
