SPECIFICATION LinkSpec
CONSTANTS
  Slots = {first, second}
  NoSlot = NoSlot
  Wss = FALSE
  Keys = {ctrl}
  Button = left
  MaxReconnects = 1
  MaxInFlight = 2
  MaxTimers = 2
  MaxTouchTimers = 1
INVARIANTS LinkTypeOK NothingStaysDown DownIsShown NeverStuck
SYMMETRY Symmetric
