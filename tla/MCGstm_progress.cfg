\* What a section costs and that it ends, however its commits interleave with
\* those of the other process.
SPECIFICATION FairSpec
CONSTANTS
  Procs = {r, a}
  Root = r
  NoProc = NoProc
  Pages = {x}
  Contents = {c0}
  Blank = c0
  Torn = Torn
  NotCopied = NotCopied
  Absent = Absent
  MaxSections = 5
INVARIANTS
  RollbackBound
PROPERTIES
  SectionsEnd
