-------------------------- MODULE MCPageAllocators --------------------------
\* Instances of the two page allocators for TLC: each behaviour is one of
\* either, while the other stays as it begins.
EXTENDS PrivateAllocator, ShareAllocator

VARIABLE allocator

MCInit ==
  /\ allocator \in {"private", "shared"}
  /\ Init
  /\ ShareInit

MCNext ==
  \/ allocator = "private" /\ Next /\ UNCHANGED <<allocator, shareVars>>
  \/ allocator = "shared" /\ ShareNext /\ UNCHANGED <<allocator, vars>>

MCSpec ==
  /\ MCInit
  /\ [][MCNext]_<<allocator, vars, shareVars>>
  /\ ShareFairness

=============================================================================
