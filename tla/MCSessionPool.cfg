SPECIFICATION FairSpec
CONSTANTS
  Sids = {a, b}
  MaxSessions = 1
  ReadWorkers = 1
  Drains = FALSE
  NoSid = nosid
INVARIANT HandlesReturned
PROPERTIES ExitEndsSession ReadsAreServed
