\* NO_ORDER not defined: three processes wait for each other.
SPECIFICATION Spec
CONSTANTS
  Procs = {root, p, a, b}
  Root = root
  NoPid = NoPid
  NoHandle = NoHandle
  NoOrder = FALSE
  ForeignJoin = FALSE
  ForkJoin = TRUE
  Faults = FALSE
  MaxEntries = 3
INVARIANTS
  SomeoneMoves
CHECK_DEADLOCK FALSE
