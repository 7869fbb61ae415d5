--------------------------- MODULE PageAllocation ---------------------------
(***************************************************************************)
(* What private_alloc.hh and share_alloc.hh have in common: the constants  *)
(* of util.hh, and a request rounded up before it is looked at.            *)
(***************************************************************************)
EXTENDS Naturals, FiniteSets

CONSTANTS
  PageSize,   \* PAGE_SIZE
  MinAligned, \* MIN_ALIGNED_SIZE
  Sizes       \* bytes a container asks for: a node, an array of buckets

ASSUME PageAssumption ==
  /\ PageSize \in Nat \ {0}
  /\ MinAligned \in Nat \ {0}
  /\ Sizes \subseteq Nat

\* ROUND_UP(num * sizeof(T), MIN_ALIGNED_SIZE).
RoundUp(x) ==
  IF x % MinAligned = 0 THEN x ELSE x + (MinAligned - (x % MinAligned))


=============================================================================
