\* The whole of esp_extconn_init: a card that may fail every try, CMD0
\* answered INVALID_RESPONSE for as long as the slave likes, one failing bring-up call, one failing
\* SDIO send during the handshake, and the 10 s bootup timeout.
CONSTANTS
  BlockLens <- MCBlocks
  ChunkMax = 2
  MaxOtherEvents = 1
  MaxSendErrors = 1
  CardInitTries = 10
  MaxInitErrors = 1
SPECIFICATION Spec
INVARIANTS TypeOK InitOkImpliesUp ImageLoadedBeforeBoot BootOkImpliesRun WriteMemMatchesWords WriteMemBytesOk
PROPERTIES InitReturns
CHECK_DEADLOCK FALSE
