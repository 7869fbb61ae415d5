\* Two users, passwords of three letters of an alphabet of two, two threads.
SPECIFICATION Spec
CONSTANTS
  Threads = 2
  Users = {ann, bob}
  Letters = 2
  PasswordLength = 3
  Malformed = Malformed
  MaxRollbacks = 2
INVARIANTS
  GuessIsNumber
  PrintedOnce
  EveryPasswordFound
