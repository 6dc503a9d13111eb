SPECIFICATION LinkSpec
CONSTANTS
  Slots = {first, second}
  NoSlot = NoSlot
  Wss = TRUE
  Keys = {ctrl}
  Button = left
  MaxReconnects = 1
  MaxInFlight = 1
  MaxTimers = 2
  MaxTouchTimers = 1
PROPERTY NoBlindRetry
