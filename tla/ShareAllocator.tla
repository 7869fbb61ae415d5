--------------------------- MODULE ShareAllocator ---------------------------
(***************************************************************************)
(* The allocator behind global_page_version (share_alloc.hh), and the      *)
(* processes that use that mapping under Gstm::mutex: AtomicBegin walks it,*)
(* CommitHeap inserts into it.                                             *)
(*                                                                         *)
(* share_head_ and share_used_ are in shared memory, and so are the pages; *)
(* but a page is mapped by the process that happens to need it, at an      *)
(* address that others have nothing at, or something else.  Who forks      *)
(* hands on its mappings; who was forked before never gets them.  A        *)
(* process that follows a pointer to such a page faults outside the heap   *)
(* and exits in SegfaultHandler, whatever it holds.                        *)
(***************************************************************************)
EXTENDS PageAllocation

CONSTANTS
  Procs,   \* process ids
  Root,    \* the process that constructs the mapping
  Nobody,  \* the mutex is free
  MaxNodes \* bound: blocks allocated

ASSUME ShareAssumption ==
  /\ Root \in Procs
  /\ Nobody \notin Procs
  /\ MaxNodes \in Nat

VARIABLES
  running,      \* processes that have started and not exited
  started,      \* processes that have started
  task,         \* what a process does with the mapping
  holder,       \* the process that has locked Gstm::mutex
  share_page,   \* the page *share_head_ points into; pages count from 1
  share_offset, \* and how far from its beginning
  share_used,   \* *share_used_
  mapped,       \* the pages in the address space of each process
  nodes,        \* blocks of the mapping: nodes and arrays of buckets
  demand        \* history: bytes requested so far

heapVars == <<share_page, share_offset, share_used, mapped, nodes, demand>>
shareVars == <<running, started, task, holder, heapVars>>

\* Every pointer of the mapping, and share_head_, leads p to memory.
ReachesAll(p) == \A n \in nodes : n.page \in mapped[p]

\* Mutant: the snapshot is taken without the mutex.
LockCommitOnly(p, what) ==
  /\ p \in running /\ task[p] = "none"
  /\ what = "commit" => holder = Nobody
  /\ task' = [task EXCEPT ![p] = what]
  /\ holder' = IF what = "commit" THEN p ELSE holder
  /\ UNCHANGED <<running, started, heapVars>>

\* AtomicBegin or AtomicCommit locks the mutex.
Lock(p, what) ==
  /\ p \in running /\ task[p] = "none"
  /\ holder = Nobody
  /\ task' = [task EXCEPT ![p] = what]
  /\ holder' = p
  /\ UNCHANGED <<running, started, heapVars>>

\* The block at share_head_, in page g, goes to the mapping.
TakeBlock(g, start, total, size) ==
  /\ share_offset' = start + total
  /\ nodes' = nodes \cup {[page |-> g, start |-> start, size |-> size]}
  /\ demand' = demand + total

\* PageAllocate: a new page, in the address space of p.
SharePageAllocate(p) ==
  /\ share_used' = 0
  /\ share_page' = share_page + 1
  /\ mapped' = [mapped EXCEPT ![p] = @ \cup {share_page + 1}]

\* Mutant: a page is opened when the last one is merely full.
InsertEager(p, size) ==
  LET total == RoundUp(size) IN
  /\ task[p] = "commit" /\ p \in running
  /\ Cardinality(nodes) < MaxNodes
  /\ \/ /\ share_used + total >= PageSize
        /\ SharePageAllocate(p)
        /\ TakeBlock(share_page + 1, 0, total, size)
     \/ /\ share_used + total < PageSize
        /\ share_page \in mapped[p]
        /\ share_used' = share_used + total
        /\ TakeBlock(share_page, share_offset, total, size)
        /\ UNCHANGED <<share_page, mapped>>
  /\ UNCHANGED <<running, started, task, holder>>

\* CommitHeap inserts the version of a page committed for the first time, or
\* the mapping grows its array of buckets: allocate, and the block is written.
Insert(p, size) ==
  LET total == RoundUp(size) IN
  /\ task[p] = "commit" /\ p \in running
  /\ Cardinality(nodes) < MaxNodes
  /\ \/ /\ share_used + total > PageSize
        /\ SharePageAllocate(p)
        /\ TakeBlock(share_page + 1, 0, total, size)
     \/ /\ share_used + total <= PageSize
        /\ share_page \in mapped[p]
        /\ share_used' = share_used + total
        /\ TakeBlock(share_page, share_offset, total, size)
        /\ UNCHANGED <<share_page, mapped>>
  /\ UNCHANGED <<running, started, task, holder>>

\* Mutant: a commit that inserts nothing returns with the mutex.
UnlockSnapshotOnly(p) ==
  /\ p \in running /\ task[p] # "none"
  /\ task[p] = "snapshot" => ReachesAll(p)
  /\ task' = [task EXCEPT ![p] = "none"]
  /\ holder' = IF task[p] = "snapshot" THEN Nobody ELSE holder
  /\ UNCHANGED <<running, started, heapVars>>

\* The mutex is unlocked. A snapshot has then come by every node; a commit has
\* come by those in the buckets of its pages.
Unlock(p) ==
  /\ p \in running /\ task[p] # "none"
  /\ task[p] = "snapshot" => ReachesAll(p)
  /\ task' = [task EXCEPT ![p] = "none"]
  /\ holder' = Nobody
  /\ UNCHANGED <<running, started, heapVars>>

\* The process comes upon a block, or with share_head_ upon a page, that it has
\* not mapped: SegfaultHandler takes it for a real fault. Nobody unlocks.
RealSegfault(p) ==
  /\ p \in running /\ task[p] # "none"
  /\ ~ReachesAll(p) \/ (task[p] = "commit" /\ share_page \notin mapped[p])
  /\ running' = running \ {p}
  /\ UNCHANGED <<started, task, holder, heapVars>>

\* Create forks between two sections.
Fork(p, c) ==
  /\ p \in running /\ task[p] = "none"
  /\ c \notin started
  /\ running' = running \cup {c}
  /\ started' = started \cup {c}
  /\ mapped' = [mapped EXCEPT ![c] = mapped[p]]
  /\ UNCHANGED <<task, holder, share_page, share_offset, share_used, nodes, demand>>

Exit(p) ==
  /\ p \in running /\ task[p] = "none"
  /\ running' = running \ {p}
  /\ UNCHANGED <<started, task, holder, heapVars>>

\* The constructor: InitHead, PageAllocate.
ShareInit ==
  /\ running = {Root}
  /\ started = {Root}
  /\ task = [p \in Procs |-> "none"]
  /\ holder = Nobody
  /\ share_page = 1
  /\ share_offset = 0
  /\ share_used = 0
  /\ mapped = [p \in Procs |-> IF p = Root THEN {1} ELSE {}]
  /\ nodes = {}
  /\ demand = 0

ShareNext ==
  \E p \in Procs :
    \/ \E what \in {"snapshot", "commit"} : Lock(p, what)
    \/ \E size \in Sizes : Insert(p, size)
    \/ Unlock(p) \/ RealSegfault(p) \/ Exit(p)
    \/ \E c \in Procs : Fork(p, c)

ShareSpec == ShareInit /\ [][ShareNext]_shareVars

\* A process does not stop in the middle of a commit or a snapshot.
ShareFairness == \A p \in Procs : WF_shareVars(Unlock(p) \/ RealSegfault(p))

-----------------------------------------------------------------------------
(* Properties *)

\* A process-shared view (gstm.hh:72): each process can follow every pointer of
\* the mapping.
GlobalView == \A p \in running : ReachesAll(p)

\* It is one as long as all blocks together fit the page that the constructor
\* has opened before any fork.
FirstPageSuffices == demand <= PageSize => GlobalView

\* The mapping stays as it is while AtomicBegin walks it (gthread.cc:70).
IterationStable ==
  [][\A p \in running : task[p] = "snapshot" /\ task'[p] = "snapshot" => nodes' = nodes]_shareVars

\* Nobody keeps the mutex for ever, as long as the first page suffices.
MutexReleased ==
  [](demand <= PageSize) => \A p \in Procs : holder = p ~> holder # p

=============================================================================
