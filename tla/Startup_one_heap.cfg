\* From the first malloc to the program, which may run for ever.
SPECIFICATION StartSpec
CONSTANTS
  Pages = {g1, g2}
  Values = {v1, v2}
  Zero = Zero
  NoValue = NoValue
  Base = 10
  MaxGiven = 2
INVARIANT
  OneHeap
