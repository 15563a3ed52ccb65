\* No send fails; the take may expire.
CONSTANTS
  BlockLens <- MCBlocksOne
  ChunkMax = 2
  MaxOtherEvents = 1
  MaxSendErrors = 0
SPECIFICATION Spec
INVARIANTS NoSemaphoreMisuse
CHECK_DEADLOCK FALSE
