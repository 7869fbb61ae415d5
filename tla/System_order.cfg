\* NO_ORDER not defined, and every process scheduled.
SPECIFICATION FairSpec
CONSTANTS
  ThreadNum = 2
  SecondaryThreadNum = 1
  Procs = {0, 1, 2, 3, 4, 5}
  Root = 0
  NoPid = NoPid
  NoHandle = NoHandle
  NoOrder = FALSE
  MaxEntries = 5
  Programs = {"test", "lock", "race_condition", "order_violation", "serial",
              "noheap", "nolock"}
  Layout = {{"a", "b"}, {"c", "x"}, {"y"}}
INVARIANTS
  SequentialResult
PROPERTIES
  SequentialUnlessHasty
  ImplementsGThread
  Completes
\* A program that stops before its end is a counterexample to Completes.
CHECK_DEADLOCK FALSE
