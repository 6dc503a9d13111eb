SPECIFICATION FairSpec
CONSTANTS
  Viewers = {phone, window}
  Responsive = {phone}
  RingSize = 1
  MaxChunk = 1
  MaxQueued = 1
  MaxBytes = 2
  MaxAttach = 1
PROPERTIES SessionEnds ResponsiveSeesAll
CHECK_DEADLOCK FALSE
