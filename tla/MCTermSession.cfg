SPECIFICATION Spec
CONSTANTS
  Viewers = {phone}
  Responsive = {phone}
  RingSize = 2
  MaxChunk = 2
  MaxQueued = 2
  MaxBytes = 4
  MaxAttach = 2
INVARIANTS TypeOK StreamIsComplete ViewersAreAccounted
PROPERTIES NothingAfterClosed ScreensAreStreams
CHECK_DEADLOCK FALSE
