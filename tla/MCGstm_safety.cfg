\* Two concurrent sections on two pages.
SPECIFICATION Spec
CONSTANTS
  Procs = {r, a}
  Root = r
  NoProc = NoProc
  Pages = {x, y}
  Contents = {c0, c1}
  Blank = c0
  Torn = Torn
  NotCopied = NotCopied
  Absent = Absent
  MaxSections = 3
SYMMETRY PageSymmetry
INVARIANTS
  TypeOK
  NothingTornSurvives
  PrivatePagesTracked
PROPERTIES
  CommitsCurrent
  AbortsOnlyOnConflict
  ImplementsAtomicHeap
