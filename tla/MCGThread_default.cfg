\* The default build; every thread is joined by its creator.
SPECIFICATION FairSpec
CONSTANTS
  Procs = {root, p, a, b}
  Root = root
  NoPid = NoPid
  NoHandle = NoHandle
  NoOrder = TRUE
  ForeignJoin = FALSE
  ForkJoin = FALSE
  Faults = TRUE
  MaxEntries = 3
INVARIANTS
  TypeOK
  HandlesDenoteThreads
  JoinedThreadsExited
  SomeoneMoves
PROPERTIES
  Termination
