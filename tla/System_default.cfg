\* The default build; two threads, and one of their own for each in nolock.cc.
SPECIFICATION Spec
CONSTANTS
  ThreadNum = 2
  SecondaryThreadNum = 1
  Procs = {0, 1, 2, 3, 4, 5}
  Root = 0
  NoPid = NoPid
  NoHandle = NoHandle
  NoOrder = TRUE
  MaxEntries = 5
  Programs = {"test", "lock", "race_condition", "order_violation", "serial",
              "noheap", "nolock"}
  Layout = {{"a", "b"}, {"c", "x"}, {"y"}}
INVARIANTS
  NoUpdateLost
  VerifySucceeds
  OneThreadFirst
  RollbacksExplained
