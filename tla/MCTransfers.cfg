SPECIFICATION Spec
CONSTANTS
  Owners = {o1, o2}
  Requests = {r1, r2}
  Tokens = {t1, t2}
  TicketsMax = 1
  Blocks = 2
  Original = original
  Nothing = nothing
INVARIANTS TypeOK ReleasedHasNothing UploadsAreAtomic
SYMMETRY Symmetric
