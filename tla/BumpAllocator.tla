--------------------------- MODULE BumpAllocator ---------------------------
(***************************************************************************)
(* The heap's allocator (bump_allocator.cc).  The heap is cut into         *)
(* subheaps; a process allocates from the one that its process id selects  *)
(* and moves that subheap's pointer up.  The table of pointers is a global *)
(* of the process: fork copies it, and a rollback, which restores stack    *)
(* and heap, leaves it alone.  xxfree changes nothing.                     *)
(*                                                                         *)
(* Addresses are relative to local_heap, which all processes have in       *)
(* common.                                                                 *)
(***************************************************************************)
EXTENDS Naturals, FiniteSets

CONSTANTS
  Pids,        \* process ids
  FirstPid,    \* the process that runs GlobalHeapInit
  NumSubheap,  \* NUM_SUBHEAP
  SubheapSize, \* SUBHEAP_SIZE
  MinAligned,  \* MIN_ALIGNED_SIZE
  Sizes,       \* sizes the program asks for
  MaxObjects   \* bound: objects all processes together allocate

ASSUME BumpAssumption ==
  /\ Pids \subseteq Nat
  /\ FirstPid \in Pids
  /\ NumSubheap \in Nat \ {0}
  /\ SubheapSize \in Nat
  /\ MinAligned \in Nat \ {0}
  /\ Sizes \subseteq Nat
  /\ MaxObjects \in Nat

VARIABLES
  running,  \* processes that have started and not exited
  started,  \* processes that have started
  subheaps, \* the table of each process
  pending,  \* objects a section has allocated and not yet committed
  spoiled,  \* processes whose section wrote what another one has committed
  objects,  \* objects on the committed heap
  count     \* objects allocated so far

vars == <<running, started, subheaps, pending, spoiled, objects, count>>

HeapSize == NumSubheap * SubheapSize
Subheap == 0..(NumSubheap - 1)
Object == [id : Nat, owner : Pids, start : Nat, size : Nat]

Bottom(i) == i * SubheapSize

\* Mutant: one subheap too few.
IndexOffByOne(p) == p % (NumSubheap - 1)

Index(p) == p % NumSubheap

\* ROUND_UP(x, MIN_ALIGNED_SIZE).
RoundUp(x) ==
  IF x % MinAligned = 0 THEN x ELSE x + (MinAligned - (x % MinAligned))

Disjoint(o, u) == o.start + o.size <= u.start \/ u.start + u.size <= o.start

\* xxmalloc, in a section of p.
Xxmalloc(p, size) ==
  /\ p \in running
  /\ count < MaxObjects
  /\ count' = count + 1
  /\ pending' = [pending EXCEPT ![p] = @ \cup
       {[id |-> count, owner |-> p, start |-> subheaps[p][Index(p)], size |-> size]}]
  /\ subheaps' = [subheaps EXCEPT ![p][Index(p)] = @ + RoundUp(size)]
  /\ UNCHANGED <<running, started, spoiled, objects>>

\* The section of p commits what the program has put in its objects: another
\* section that has put something in the same place will not.
Commit(p) ==
  /\ p \in running \ spoiled
  /\ objects' = objects \cup pending[p]
  /\ pending' = [pending EXCEPT ![p] = {}]
  /\ spoiled' = spoiled \cup
       {q \in running \ {p} : \E o \in pending[p], u \in pending[q] : ~Disjoint(o, u)}
  /\ UNCHANGED <<running, started, subheaps, count>>

\* The section of p rolls back, for this or another reason.
Rollback(p) ==
  /\ p \in running
  /\ pending[p] # {}
  /\ pending' = [pending EXCEPT ![p] = {}]
  /\ spoiled' = spoiled \ {p}
  /\ UNCHANGED <<running, started, subheaps, objects, count>>

\* Create: fork, between two sections.
Fork(p, c) ==
  /\ p \in running /\ pending[p] = {}
  /\ c \notin started
  /\ running' = running \cup {c}
  /\ started' = started \cup {c}
  /\ subheaps' = [subheaps EXCEPT ![c] = subheaps[p]]
  /\ UNCHANGED <<pending, spoiled, objects, count>>

\* A thread exits after its last section, or at a fault inside one.
Exit(p) ==
  /\ p \in running
  /\ running' = running \ {p}
  /\ pending' = [pending EXCEPT ![p] = {}]
  /\ spoiled' = spoiled \ {p}
  /\ UNCHANGED <<started, subheaps, objects, count>>

Terminated == running = {} /\ UNCHANGED vars

NewProcess(table) ==
  /\ running = {FirstPid}
  /\ started = {FirstPid}
  /\ subheaps = [p \in Pids |-> table]
  /\ pending = [p \in Pids |-> {}]
  /\ spoiled = {}
  /\ objects = {}
  /\ count = 0

\* Mutants: the loop begins at 1; the pointer moves on before it is stored.
InitFromOne == NewProcess([i \in Subheap \ {0} |-> Bottom(i)])

InitSwapped == NewProcess([i \in Subheap |-> Bottom(i + 1)])

\* GlobalHeapInit.
Init == NewProcess([i \in Subheap |-> Bottom(i)])

Next ==
  \/ \E p \in Pids :
       \/ \E size \in Sizes : Xxmalloc(p, size)
       \/ Commit(p) \/ Rollback(p) \/ Exit(p)
       \/ \E c \in Pids : Fork(p, c)
  \/ Terminated

Spec == Init /\ [][Next]_vars

-----------------------------------------------------------------------------
(* Properties *)

\* Every variable keeps its type, and only running processes have a section.
TypeOK ==
  /\ started \in SUBSET Pids
  /\ running \in SUBSET started
  /\ subheaps \in [Pids -> [Subheap -> Nat]]
  /\ pending \in [Pids -> SUBSET Object]
  /\ \A p \in Pids \ running : pending[p] = {}
  /\ spoiled \in SUBSET running
  /\ objects \in SUBSET Object
  /\ count \in 0..MaxObjects

Allocated == objects \cup UNION {pending[p] : p \in Pids}

\* xxmalloc serves every object whole from the subheap that the process id
\* selects: the program asks for no more than a subheap holds.
ObjectsInSubheap ==
  \A o \in Allocated :
    /\ Bottom(Index(o.owner)) <= o.start
    /\ o.start + o.size <= Bottom(Index(o.owner)) + SubheapSize

\* Every object is in the heap at all.
ObjectsInHeap == \A o \in Allocated : o.start + o.size <= HeapSize

\* No two objects on the committed heap have a byte in common, whatever the
\* processes that allocated them, and in whichever order these were forked,
\* rolled back, or gone.
ObjectsDisjoint ==
  \A o, u \in objects : o # u => Disjoint(o, u)

=============================================================================
