\* Stacks of up to three frames, sections that begin and end at any depth.
SPECIFICATION Spec
CONSTANTS
  Values = {v1, v2}
  MaxDepth = 3
INVARIANTS
  TypeOK
  CopierOutOfTheWay
PROPERTIES
  ImplementsCheckpoint
