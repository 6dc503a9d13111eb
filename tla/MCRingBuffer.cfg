SPECIFICATION Spec
CONSTANTS
  Byte <- MCByte
  Chunks <- MCChunks
  MaxSize = 3
  MaxTotal = 11
INVARIANT SinceIsExact
PROPERTIES CompactionIsCheap KeepsLastBytes
CHECK_DEADLOCK FALSE
