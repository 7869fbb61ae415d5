\* Pages of the private allocator side by side and with a gap. Nodes of the
\* shared mapping that fit its first page, and some that no longer do.
SPECIFICATION MCSpec
CONSTANTS
  PageSize = 64
  MinAligned = 16
  Sizes = {24, 48, 72}
  Places = {0, 64, 192}
  MaxBlocks = 6
  Procs = {p, q, r}
  Root = p
  Nobody = Nobody
  MaxNodes = 4
INVARIANTS
  TypeOK
  OverrunBounded
  SharedOnlyPastEnd
  FirstPageSuffices
PROPERTIES
  IterationStable
  MutexReleased
\* A process may stop allocating, or wait for one that died with the mutex.
CHECK_DEADLOCK FALSE
