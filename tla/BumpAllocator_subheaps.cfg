\* A subheap for every process, and none runs out.
SPECIFICATION Spec
CONSTANTS
  Pids = {4, 5, 7}
  FirstPid = 4
  NumSubheap = 4
  SubheapSize = 96
  MinAligned = 16
  Sizes = {0, 16, 17}
  MaxObjects = 3
INVARIANTS
  TypeOK
  ObjectsInSubheap
  ObjectsDisjoint
