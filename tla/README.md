# G-Thread in TLA+

G-Thread replaces the pthread library of a fork-join program: a thread becomes
a process, the heap becomes a file that every process maps privately, and the
code between two thread operations becomes a transaction. It is validated and
committed when the section ends, or rolled back and run again. This directory
holds TLA+ models of that machinery, the TLC runs that check them and TLAPS
proofs about them. Paths below are relative to the repository; the library is
in `src/src`.

## 1. The system

| Part | Source | State | Operations |
|---|---|---|---|
| Atomic sections | `gthread.cc`, `gthread.hh` | `context_` | AtomicBegin, AtomicEnd, AtomicCommit, AtomicAbort |
| Threads as processes | `gthread.cc` | `tid_`, `predecessor_` | InitGThread, Create, Join |
| Gstm | `gstm.cc`, `gstm.hh` | private: `read_set_version`, `write_set_version`, `local_page_version`, page protection; shared: `global_page_version`, `mutex`, `rollback_count_` | Initialize, SegfaultHandler (HandleReads, HandleWrites), WaitExited, IsHeapConsistent, CommitHeap, UpdateHeap |
| StackContext | `stack_context.cc` | `state_`, `stack_`, `stack_size_`, the global `first_time` | InitStackContext, SaveContext, RestoreContext |
| pthread interface, program start | `libgthread.hh` | `gthreads`, `real_main` | pthread_create, pthread_join, program, wrapped_main, __libc_start_main |
| Bump allocator | `bump_allocator.cc` | `shm_fd`, `local_heap`, `global_heap`, `subheaps` | GlobalHeapInit, xxmalloc, xxfree, xxmalloc_usable_size |
| Malloc wrapper | `wrapper.hh`, `gnuwrapper.cc` | none | the malloc family over xxmalloc |
| PrivateAllocator | `private_alloc.hh` | `head_`, `used_` | allocate, PageAllocate |
| ShareAllocator | `share_alloc.hh` | `share_head_`, `share_used_`, in shared memory | allocate, PageAllocate, InitHead |
| Macros, logging, interposition | `util.hh`, `log.h`, `color_log.hh`, `interpose.hh` | none | none that change state |
| Programs that use the library | `src/example`, `src/pthread` | counters and flags in the heap, static arrays and mutexes | thread functions and main |

**How they interact.** `__libc_start_main` sets up the heap and starts
`wrapped_main`, which initialises Gstm and StackContext, begins a section,
Creates one process for the program's main, Joins it and exits. A program's
`pthread_create` and `pthread_join` end the section they are called in, fork
or wait, and begin another. Between them the program's first accesses to each
heap page fault into `SegfaultHandler`, a callback that records the page's
version. `AtomicEnd` waits for the predecessor (`WaitExited`), takes the
process-shared mutex, validates the versions of the pages read, and either
copies the written pages to the shared mapping or rolls back: it drops the
private pages and restores the stack, so that control comes out of
`AtomicBegin` a second time. The version mappings live outside the heap, in
memory of the two page allocators; malloc serves the program out of the heap.

**What is hard.** Processes interleave at every memory access, since only
validation, commit and the version snapshot are under the mutex. A section reads
the heap file while others copy pages into it, and finds out at its end. A
rollback must undo three kinds of state (private pages, stack, tracking), leaves
others alone on purpose (`gthreads`, `predecessor_`) and repeats the code after
AtomicBegin. Which process waits for which, who may collect whom and how a
process that is nobody's child is waited for depends on the shape of the
program's thread tree. Processes end by `_exit(1)` inside a section or when fork
fails. The list with lines is `hazards` in `PROJECT.json`.

**What makes each part correct.**

* Atomic sections and Gstm: a committed section has seen one state of the heap,
  the one it commits on; its writes take effect together; a section that rolls
  back leaves no trace in heap, stack or tracking; it rolls back only for a
  reason, and not for ever.
* Threads as processes: a handle means the thread it was made for, join returns
  only after the thread, and no sooner than its last commit; nobody waits for
  ever; with commit order, commits come in the order of the serial program.
* StackContext: a restore brings back exactly the stack of the save, through one
  of the two returns of getcontext.
* Allocators: live objects are disjoint across processes, inside their
  (sub)heap, and reachable by whoever follows a pointer to them.

## 2. The modules

| Module | What it is |
|---|---|
| `AtomicHeap` | abstract specification: sections that take effect in one step or not at all |
| `Gstm`, `MCGstm` | the transactional memory: AtomicBegin to AtomicEnd in every process, page faults, validation, page-by-page commit, rollback; and its instances |
| `GstmProofs` | inductive invariant and safety theorems; the proof that `Gstm` implements `AtomicHeap` |
| `GThread`, `MCGThread` | the processes: Create, Join, WaitExited, predecessors, handles, exit, init |
| `GThreadProofs` | inductive invariants and safety theorems about `GThread`: handles, joins, deadlock, order |
| `Checkpoint` | abstract specification: what a save and a restore of the context do to the program |
| `StackContext`, `StackContextProofs` | the save and restore by copying the stack one runs on; that it implements `Checkpoint` |
| `BumpAllocator` | the heap's allocator: subheaps in processes that fork, commit and roll back |
| `Startup` | the heap from the loader to the program's first sections |
| `BumpAllocatorProofs` | theorems about the heap: its allocator, and how it starts |
| `PageAllocation`, `PrivateAllocator` | the pages behind the private version mappings |
| `ShareAllocator` | the pages behind `global_page_version`, in all processes, with the mutex |
| `MCPageAllocators`, `PageAllocatorProofs` | one instance of either allocator; theorems about both |
| `MallocWrapper`, `MallocWrapperProofs` | the malloc family over the bump allocator, on words of bounded width |
| `ExamplePrograms` | the repository's programs |
| `System`, `SystemProofs` | a program on its threads and its heap: composes `GThread`, the sections and the programs; theorems for any number of threads |
| `PasswordCracker`, `PasswordCrackerProofs` | `password_cracker.cc`; theorems for any alphabet, length and password file |

`Gstm` and `GThread` are two views of one library. `System` composes them: it
instantiates `GThread`, and joins to each of its actions the section's effect on
the heap, each of Gstm's atomic outcomes being one step, as `ImplementsAtomicHeap` allows, and
each save and restore, as `ImplementsCheckpoint` allows.

### Gstm

State: `globalHeap` is the file, `globalPageVersion`, `mutex` and
`rollbackCount` are the shared variables of Gstm. Each process has its
`localPageVersion`, its private pages `localHeap` (`NotCopied` where the private
mapping still shows the file), and `track`, which joins for each page its entry
in `read_set_version`, its entry in `write_set_version` and its protection.
`stack` is the last content the program loaded, enough to tell whether data of a
discarded section survives; `savedStack` is StackContext's copy. `seen` and
`dirty` are history variables: what a section has come across in the file, and
which pages others have committed since its snapshot.

| Action | Code |
|---|---|
| `SaveContext`, `Snapshot` | AtomicBegin, before and after the point to which a rollback returns |
| `Load`, `Store` | an instruction of the program with the page faults it takes (`SegfaultHandler`) |
| `RealSegfault` | a fault outside the heap: `_exit(1)` |
| `CommitEmpty` | AtomicCommit's early return, with UpdateHeap |
| `StartCommit`, `PredecessorExited` | AtomicCommit up to and after WaitExited |
| `ValidateSuccess`, `ValidateFailure` | lock and IsHeapConsistent; the failure also counts and unlocks |
| `CopyStart`, `CopyFinish` | CommitHeap's memcpy of a page, whose middle other processes can see (`Torn`), and its new version |
| `FinishCommit` | UpdateHeap and unlock |
| `AtomicAbort` | madvise and RestoreContext |
| `Fork`, `Resume`, `Exit` | what comes between two sections: Create, Join, the return of the thread |

Steps that touch only memory of the process itself are merged with the shared
step next to them: they commute with every step of another process. The lock
of `Snapshot` and of a failed validation is taken and released in one step, as
no other process can act on what it protects meanwhile.

Linux shows in a private mapping the current content of the file for a page
that was not yet written (`LocalPage`); the comment at `gstm.cc:222` says it
does not, but the program is checked under the weaker guarantee: two loads of
one section may differ.

### GThread

`Gstm` leaves open when `PredecessorExited` and `Resume` may happen;
`GThread` answers that, and keeps of a section only whether it has `touched`
the heap and whether another process has committed since it began
(`conflict`: then, and only then, it may roll back. Theorem `RollbacksHaveCause`
is the licence for it). `parent`, `reaped` and the phase "exited" are the
kernel's side: an exited process is a zombie until it is in `reaped`.
`gthreads` and `predecessor` are the code's variables; `handle` is the
`pthread_t` the program holds for each thread. `call` is the call for which a
section is being ended, `origin` the thread whose `pthread_create` began it: if
the section rolls back, `gthreads.push_back` is done for that thread once more.
`before` and `hasty` are history: the threads that precede a process in
the serial program, and the processes that exited without waiting for their
predecessor.

| Action | Code |
|---|---|
| `Touch` | the program's accesses to the heap |
| `CallCreate`, `CallJoin`, `CallExit` | AtomicEnd up to WaitExited, called from pthread_create, pthread_join or the end of the thread |
| `WrappedMain` | the same three in the process that runs wrapped_main |
| `PredecessorExited`, `Commit`, `Rollback` | the rest of AtomicEnd |
| `Fork`, `ForkFails` | Create after AtomicEnd, in both processes |
| `JoinReturns` | WaitExited and AtomicBegin of Join |
| `Exit`, `RealSegfault` | `_exit` |
| `InitReaps` | the kernel, for the children of an exited process |

What differs between builds and programs is a constant: `NoOrder` (the macro),
`ForeignJoin` (threads join threads that another thread created), `ForkJoin`
(a thread returns only when it has joined all its threads), `Faults` (forks
fail and threads fault).

### BumpAllocator

`subheaps` is the table of `bump_allocator.cc`, one copy for each process.
`pending` holds what the section of a process has allocated, `objects` what is
on the committed heap; nothing is ever removed, since `xxfree` does nothing and
a program may keep its objects. `Xxmalloc` is xxmalloc; `Fork` copies the table,
`Rollback` and `Commit` leave it alone. What `Gstm` does is kept to one thing: a
section that has put something where another one has since committed an object
cannot commit (`spoiled`). Addresses are bytes from `local_heap`; a page is not
represented, so that conflicts by mere vicinity are rollbacks without a reason.

### PrivateAllocator and ShareAllocator

Both allocators hand out bytes from `head` upwards and open a page when `used`
and the request exceed it; the request that opens a page is not added to `used`
(`private_alloc.hh:58`, `share_alloc.hh:63`). `PageAllocation` holds what they
have in common.

In `PrivateAllocator`, `Construct` is the constructor of a container,
`Allocate` is allocate, `PageAllocate` the page that either opens at any free place,
next to another page or not, as mmap chooses (`Mmap`). `blocks` is what has been
returned, `opener` the bytes of the request that opened each page.

In `ShareAllocator` a page is in the address space of the process that mapped it
and of those it forks later (`mapped`); `share_page` and `share_offset` are the
pointer in shared memory. `Lock`, `Insert` and `Unlock` are what AtomicBegin
(task "snapshot") and CommitHeap (task "commit") do with the mapping under the
mutex; `RealSegfault` is the process that follows a pointer to a page it does
not have: `SegfaultHandler` ends it, and nobody unlocks.

### MallocWrapper

Each function of `wrapper.hh` is an operator from the subheap pointer and its
arguments to the pointer returned and the subheap pointer afterwards; sizes are
words of `Bits` bits, so that sums and products wrap as in C. An action is a
call with the room the program may take for its own (`blocks`). Precondition:
the program does not deplete its subheap (`Limit`), nor frees or resizes what it
does not have. `Growing` lets realloc be called for more than the block had.

### StackContext

The stack is an array counted from `bottom_of_stack_`; the library's own frames
are on it and hold the names of their functions. `Begin` is SaveContext up to the
first return of getcontext, `Phase2Save` copies the stack and clears
`first_time`, `SaveContextReturns` goes back to the program; `Abort`,
`RestoreContext` (with its padding), `CompleteRestore` (the copy) and
`Setcontext` lead to the second return of getcontext, from which `RolledBack`
goes on. Code whose frame has been overwritten goes to `pc = "crashed"`, which
is outside the type. `Checkpoint` is what the rest of the library relies on, and
what `Gstm` and `System` assume in one step.

### Startup

`stage` goes from the loader over `GlobalHeapInit`, the constructors of the
program, `WrappedMain` and the root's section (`AtomicEndOfRoot`) to the first
sections of the program. `file` is shm_object, `private` the first process's
private pages, `pointer` its subheap pointer, `given` what malloc has returned.

### ExamplePrograms, System and PasswordCracker

`ExamplePrograms` translates the programs of `example/` and `pthread/` into
sequences of loads, stores, pthread calls and REQUIREs. `System` runs them: each
process has the variables of `GThread` and a stack (function, position,
register, thread handles), the heap is a file with objects on pages (`Layout`),
and each process has its read and write sets, its private pages and the pages
whose versions have changed since its snapshot (`newer`). Every action of
`System` is one of `GThread` (instance `G`) together with what it does to heap
and stack: `LoadStep`, `StoreStep` with their faults, `Calling`, `Commit` (IsHeapConsistent and
CommitHeap), `Rollback`, `Fork`, `JoinReturns`, `Exit`. Conflicts, a free choice in
`GThread`, are here what the page versions say. A mutex of `lock.cc` is not
interposed: it lives in static memory, of which each process has a copy that no
rollback restores. The programs join all their threads, so that no child outlives
its parent and `InitReaps` has no part in `System`. `SerialOutcome` (`ExamplePrograms`)
is the heap that the program leaves if each pthread_create is a call of its function.

`PasswordCracker` is `password_cracker.cc` in a model of its own: the arithmetic of
its ranges and digits, and the cracked flags in static memory, which survive a
rollback that takes the stack back. `printed` is a bag: output cannot be taken back, and a
password printed again, by the same thread in its next attempt or by another, is a second copy.

## 3. What is checked

| Run | Instance | Shows |
|---|---|---|
| `gstm_safety` | 2 processes, 2 pages, 2 contents, 3 sections | `TypeOK`, `NothingTornSurvives`, `PrivatePagesTracked`, `CommitsCurrent`, `AbortsOnlyOnConflict`, `ImplementsAtomicHeap` |
| `gstm_progress` | 2 processes, 1 page, 5 sections, fairness | `RollbackBound`, `SectionsEnd` |
| `gthread_default` | 4 processes, default build, failures, fairness | `TypeOK`, `HandlesDenoteThreads`, `JoinedThreadsExited`, `SomeoneMoves`, `Termination`, no deadlock |
| `system_default` | 7 programs, 2 threads (each with one of its own in nolock.cc), 5 objects on 3 pages, default build | `NoUpdateLost`, `VerifySucceeds`, `OneThreadFirst`, `RollbacksExplained`, no deadlock |
| `system_order` | the same without NO_ORDER, fairness | `SequentialResult`, `SequentialUnlessHasty`, `ImplementsGThread`, `Completes` |
| `subheaps` | 3 processes, 4 subheaps, sizes 0, 16, 17, 3 objects | `TypeOK`, `ObjectsInSubheap`, `ObjectsDisjoint` |
| `page_allocators` | pages of 64 bytes, sizes 24, 48, 72; 6 private blocks, two pages side by side and one apart; 3 processes, 4 shared nodes, fairness | `TypeOK`, `OverrunBounded`, `SharedOnlyPastEnd`, `FirstPageSuffices`, `IterationStable`, `MutexReleased` |
| `malloc_calls` | words of 8 bits, 7 sizes, 4 alignments, 3 calls | `BlocksHaveRoom`, `BlocksDisjoint`, `BlocksAligned` |
| `stack_context` | stacks of 1 to 3 frames | `TypeOK`, `CopierOutOfTheWay`, `ImplementsCheckpoint` |
| `startup_one_heap` | 2 pages | `OneHeap` |
| `password_cracker` | 2 users, 2 threads, passwords of 3 letters out of 2, 2 rollbacks | `GuessIsNumber`, `PrintedOnce`, `EveryPasswordFound` |
| `order_deadlock` | 4 processes, NO_ORDER not defined, fork-join | violates `SomeoneMoves` |

* `CommitsCurrent`: whatever a section came across in the file at any
  moment, half-copied pages included, is what the file holds when the section
  passes IsHeapConsistent. That compares version numbers only; two contents
  suffice to tell.
* `ImplementsAtomicHeap`: every behaviour of `Gstm` is one of `AtomicHeap`, under
  the mapping that lets a section take effect when it is found consistent
  (`DecidedHeap`: what a holder of the mutex has still to copy counts as written).
* `NothingTornSurvives`, `PrivatePagesTracked`: what makes that true: a
  half-copied page dies with the section that met it; a private page exists only
  where both mappings have an entry, and only until the section is decided.
* `AbortsOnlyOnConflict`, `RollbackBound`, `SectionsEnd`: rolling back has a
  cause in another process's commit, at most one rollback per commit and other
  process, and ends.
* `HandlesDenoteThreads`, `JoinedThreadsExited`: handles are indices into a table
  that grows once per run of a section; they are right all the same.
* `SomeoneMoves`, `Termination`: no circle of waiting and no waiting for ever, in
  the default build when threads are joined by their creator or not at all.
* `NoUpdateLost`, `VerifySucceeds`, `OneThreadFirst`: what the programs were
  written to show: counters have every increment of every committed section once, and of two
  threads that read what the other writes one sees the other (no write skew).
* `RollbacksExplained`: a section whose reads have changed has been overtaken by
  a commit; it ties what the page versions say to what `GThread` assumes of them.
* `SequentialResult`, `SequentialUnlessHasty`: without NO_ORDER the heap ends up
  as that of the program with calls in place of pthread_create; a section commits when all
  threads before it have exited, unless one of them ended without waiting.
* `ImplementsGThread`: the whole implements `GThread` with its fairness: the
  programs do come to the next call of each section, which `GThread` assumes.
* `ObjectsInSubheap`, `ObjectsDisjoint`: processes that share a heap but not
  their allocation pointers stay clear of each other, if their ids select
  different subheaps and what is allocated fits.
* `OverrunBounded`, `SharedOnlyPastEnd`: a page is overrun by the size of the request
  that opened it, no more, and that is all that lets two blocks meet. The code does
  not prevent it (`BlocksDisjoint` below).
* `FirstPageSuffices`, `IterationStable`, `MutexReleased`: the shared mapping is
  usable by all processes, does not change under an iteration, and nobody dies
  with the mutex, as long as it fits the page mapped before the first fork.
* `BlocksHaveRoom`, `BlocksDisjoint`, `BlocksAligned` (malloc): whatever the sizes,
  a block that is returned has the room that was asked for.
* `CopierOutOfTheWay`, `ImplementsCheckpoint`: the copy onto the stack never
  writes where it runs, and the program goes on as if nothing had happened.
* `OneHeap`: the commit of the root's empty section is what discards the private
  pages from before, so that all processes see the same heap.
* `GuessIsNumber`, `PrintedOnce`, `EveryPasswordFound`: the digits, ranges and
  flags of the password cracker, through rollbacks. `src/README.md:50` warns that the output
  of a thread that is rolled back can be repeated; this program's is not, since
  its flags are not rolled back either (`PrintedOnce` counts).

The run that ends in a violation, `order_deadlock` (`SomeoneMoves`;
`src/misc/proposal.md:66`): the main thread creates a and b and joins b first. b waits for
a, not its child, with kill(a, 0), which succeeds as long as a is a zombie; only
the main thread could collect a, and it waits for b.

### Properties the code does not have

The passing runs make assumptions on the program or the kernel. Each of them is
needed: with the change below TLC finds the property violated.

| Property | In | Change | What happens |
|---|---|---|---|
| `SequentialSemantics` (`proposal.md:28`) | `MCGThread_order_deadlock.cfg` | check it as a PROPERTY instead | a thread that ends in a section without heap access skips the wait for its predecessor (`gthread.cc:93`); its successor commits ahead of the thread before |
| `WaitsEnd` (comment at `gstm.cc:162`) | `MCGThread_default.cfg` | `ForeignJoin = TRUE`, `ForkJoin = TRUE`, `Faults = FALSE`; WaitsEnd the only property, CHECK_DEADLOCK FALSE | a thread that joins a sibling waits until the creator collects it, not until it exits |
| `ObjectsDisjoint` (`README.md:46`) | `BumpAllocator_subheaps.cfg` | `Pids = {4, 5, 6}`, `NumSubheap = 2` | two processes whose ids select the same subheap commit objects at one address, one after the other (with 16 subheaps: a program of 17 processes) |
| `ObjectsInHeap` (comment at `bump_allocator.cc:59`) | `BumpAllocator_subheaps.cfg` | `SubheapSize = 16` | xxmalloc returns memory from behind the heap |
| `BlocksDisjoint` (comment at `private_alloc.hh:52`) | `MCPageAllocators.cfg` | check it as an INVARIANT | two pages side by side, as Linux maps them: the last block of one reaches into the next |
| `GlobalView` (comment at `gstm.hh:72`) | `MCPageAllocators.cfg` | check it as an INVARIANT | a node in a page mapped after a fork is out of reach of the other processes |
| `BlocksDisjoint`, `BlocksHaveRoom` (comment at `wrapper.hh:253`) | `MallocWrapper_calls.cfg` | `Growing = TRUE` | realloc to a larger size returns the old block, over its neighbour |
| `BlocksHaveRoom` (comment at `wrapper.hh:211`) | `MallocWrapper_calls.cfg` | `AlignedSizes = {0, 3, 13, 255}` | aligned_alloc rounds a size just below 2^Bits up to 0 |
| `HeapKept` (`README.md:46`) | `Startup_one_heap.cfg` | check it as an INVARIANT | what constructors have written to the heap is gone in main |
| `PointersIntoHeap` (comment at `bump_allocator.cc:62`) | `Startup_one_heap.cfg` | check it as an INVARIANT | malloc before GlobalHeapInit returns small integers |

**Bounds.** `MaxSections` bounds the sections of all processes together;
2 processes and 3 sections give a root section, then two concurrent ones that
conflict in every way on two pages (read-write, write-write, in both orders,
during a copy). With 5 sections on one page each process can lose to the other
in turn. `Procs` bounds the forks: 4 processes are
wrapped_main, the main thread and two threads that may be siblings or parent
and child. `MaxEntries` bounds the entries of `gthreads`, hence rollbacks of a
section that began in pthread_create; 3 lets two threads and a repeated
entry mix. `Room` keeps programs from calling pthread_create when no process is
left; the guard says nothing about the code. In `System` the bounds on processes and entries
are those the programs need: 6 processes are wrapped_main, main, two threads and, in
nolock.cc, one thread of each; 2 threads are enough for a lost update and a write
skew, and the pages are laid out so that two objects share a page and two do not.
`MaxObjects` bounds allocations; in
`subheaps` it also keeps every subheap from running out (3 objects of at most 32
bytes, 96 bytes each), which is an assumption on the program. In
`page_allocators` 6 private blocks fill two pages past their end, with requests
below and above a page, where the next page follows at once and where it does not; 4 shared nodes exceed the first page. Words of 8 bits hold
sizes on both sides of every threshold of `wrapper.hh` (0, the sign bit, the
largest word); 3 calls let a block lie between two others. A stack of
3 frames can shrink and grow by two between a save and a restore, more and less
than the padding. Passwords of 3 letters out of 2 have numbers with leading
digits left over and a range for each of 2 threads; 2 rollbacks hit one thread twice.

**Fairness.** In `Gstm`: weak fairness of each process's library steps. The code
does not loop on its own, so that a scheduler that runs every process now and then
gives it; "running" sections are ended by it too, which assumes that the code
of a section comes to its end (a section that goes astray on half-copied data
may not: that is an assumption on the program). The mutex needs no strong
fairness as sections are finitely many. For the same reason `SectionsEnd` says
nothing of a program that begins sections for ever: there a section can lose to
an endless row of others, or never get the mutex. In `GThread`: the same for each process
and for init, and the program comes to its next call. Nothing makes a conflict
go away but the snapshot of the next attempt. In `System`: every process is scheduled (its
program and its library); nothing is assumed about what its program does. In
`ShareAllocator`: a process in the middle of a commit or a snapshot goes on to
unlock or to its fault.

CHECK_DEADLOCK is off in `order_deadlock`, whose subject it is; in `system_order`,
where a program that stops early violates `Completes`; and in `page_allocators` and
`malloc_calls`, whose programs may stop allocating.

## 4. What is proved

For every number of processes, pages, contents and sections, from
`GstmAssumption` (names of special values are no ordinary values, the bound is
positive) and `ProcsFinite`:
* `GstmProofs!InductiveInvariant` and from it `TypeCorrect`,
  `TornPagesConfined`, `FaultsCoverPrivatePages`, `VersionsSuffice`,
  `RollbacksHaveCause`: `Spec => []TypeOK`, `[]NothingTornSurvives`,
  `[]PrivatePagesTracked`, `CommitsCurrent`, `AbortsOnlyOnConflict`.
* `RollbacksArePaidFor`: `[]RollbackBound`.
* `GstmProofs!Refinement`: `Spec => ImplementsAtomicHeap`.

`CommitsCurrent` is not a consequence of the types: it needs that versions count.
The invariant (`IInv`)
has five parts. `MutexInv`: only the holder of the mutex copies, and only a page
it has still to copy is half-copied. `TrackInv`: a page is tracked with the
snapshot's version, and one more for a write; a private page is tracked twice.
`SnapshotInv`, the heart of it: while a section is open, the version of a page
is ahead of the snapshot exactly if another process committed the page since
(`dirty`); and all the section has seen of a page that is neither dirty nor
half-copied is what the file holds. `CommitInv`: a page on its way to the file
is whole and one version ahead. `StackInv`: half a page is on the stack only of
a section that has come across one. When the mutex is free and the versions of
all pages read agree, `SnapshotInv` is `CommitsCurrent`; when one of them
does not, it is `AbortsOnlyOnConflict`.

`RollbackBound` counts, and so does its proof: `CostInv` adds to the rollbacks that
have been those that are due, of sections another process has committed a page
behind (`Overtaken`). A copied page is one commit more (`CommitCounted`) and can
bring every other process into that set, once; who rolls back leaves it, since its
section had a page in `dirty` (`RollbackCause`); no other step puts a process into it
(`NobodyOvertaken`). The history variable is needed: the version of a page alone does
not say whether a rollback has used up the commit.

The refinement has one lemma per action that names the step of `AtomicHeap` it
is: `ValidateSuccess` and `CommitEmpty` are Commit, `ValidateFailure` is Discard,
`RealSegfault` and `Exit` are Leave, `Fork` is Inherit, `Load` and `Store` are
Read and Write; all others stutter, `CopyFinish` because the page was decided
before.

For every number of processes, both builds and all programs of `GThread`, from
`GThreadAssumption`:

* `TypeCorrect`, `HandlesCorrect` (`[]HandlesDenoteThreads`),
  `JoinsCorrect` (`[]JoinedThreadsExited`). Types alone are not inductive, since
  Join indexes `gthreads`; the invariant adds that a pending pthread_create still
  has the table's length as its handle (`CallsFit`: no step comes between that
  changes the table), that a thread to be joined is known, and that only
  exited processes are collected.
* `NoDeadlock`: in the default build (`NoOrder`), if threads are joined by their
  creator (`~ForeignJoin`), `Spec => []SomeoneMoves`, with faults and failing
  forks. What orders the processes is `before`, the history of who precedes whom
  in the serial program. `FamilyInv`: a child is before its parent, whatever is
  before a process has its own predecessors before that process, nobody is before
  himself. `WaitsForChildren`: under the two assumptions whoever waits does so for
  a child. If all living processes waited, the one with the least set `before`
  (there is one, the sets being finite and inclusion well-founded on them) would
  wait for a child with a smaller one.
* `SerialOrder`: without NO_ORDER, `Spec => SequentialUnlessHasty`. `OrderInv`: the
  predecessor of a process comes last among those before it (`PredecessorLast`:
  every other is before the predecessor, too), so that a process that has waited
  for its predecessor has waited for all, unless one of these did not wait
  (`WaitedForAll`). PredecessorLast is what Create's choice of the predecessor is
  for (`gthread.cc:42`); it survives rollbacks, which do not restore `predecessor_`.

For every number of processes, subheaps and objects of any size, from
`BumpAssumption`:

* `BumpAllocatorProofs!SubheapsSuffice`: if no two process ids select the same
  subheap (`DistinctIndices`), `Spec => [](ObjectsInSubheap => ObjectsDisjoint)`.
  The invariant: an object lies in the part of its owner's subheap that the
  owner's pointer has passed (`ObjectsHandedOut`), objects of one process are
  disjoint, and every table has the pointer of a subheap whose process has not
  started where GlobalHeapInit has put it (`SubheapsUntouched`), which is what a
  child inherits. That subheaps do not overlap is the lemma `SubheapsApart`.
* `TypeCorrect`, for any ids. `ModestPrograms` and `ModestProgramsDisjoint`: if, in
  addition, all allocations together fit one subheap (`Modest`), `Spec =>
  []ObjectsInSubheap` and `Spec => []ObjectsDisjoint`; no pointer has moved by
  more than `count` times the largest request (`PointersBounded`).

For pages, requests and alignments of any size, from `PageAssumption` and
`PrivateAssumption`:

* `PageAllocatorProofs`: `TypeCorrect` (of `PrivateAllocator`); `OverrunBound` (`[]OverrunBounded`);
  `OverlapsRunOver` (`[]SharedOnlyPastEnd`), wherever mmap puts the pages. The invariant:
  `head` is the beginning of the page plus the request that opened it plus `used`
  (`HeadCounts`), the blocks of the last page lie below `head`, pages do not
  overlap, and blocks of one page are disjoint.

For any number of processes, from `PageAssumption` and `ShareAssumption`:

* `PageAllocatorProofs`: `FirstPageIsEnough` (`[]FirstPageSuffices`), since no
  page is opened before the requests exceed the first (`FirstPageAccounts`) and
  every process has inherited that (`FirstPageInherited`); `IterationIsStable`
  (`IterationStable`), since whoever has a task holds the mutex.

For stacks of any depth, from `StackAssumption`:

* `StackContextProofs`: `TypeCorrect`, `CopierSafe` (`[]CopierOutOfTheWay`) and
  `Refinement` (`Spec => ImplementsCheckpoint`). The invariant says for each
  `pc` where the library's frames are, that the saved memory is the checkpoint
  plus those frames, and that the padding has put the copying frame above
  `stack_size`.

For any number of processes and threads and any layout of the objects on pages,
both builds, from `SystemAssumption` and `ProgramsAssumption`:

* `SystemProofs!RollbacksHaveACause` (`[]RollbacksExplained`), from the
  invariant that a page can be newer than an open section's snapshot only if the
  section is in conflict.
* `StepsOfGThread` (`Spec => G!Spec`, the safety part of `ImplementsGThread`), so
  that the theorems of `GThreadProofs` hold of every program. `ProgramsAreOrdered`
  (`SequentialUnlessHasty`) is the one that is drawn from it, through an instance of
  `GThreadProofs` (`GP`) whose specification is that of `G`.
* `UpdatesKept` (`[]NoUpdateLost`), in two layers. `Control` is about the
  programs alone: which function a process runs, that a section's operations are
  the lines from its checkpoint on, that an increment follows the load of its
  object (`CodeTame`, proved of each program), that main has no threads while it
  sets the counters. `CountInv` is about the heap: it has as many increments as
  have been committed (`HeapCounts`); and what an open section sees of a page that is not
  newer than its snapshot is the heap's value plus its own increments since
  (`SectionCounts`), also when it has only loaded the value. For the commit that
  is the whole point: the pages read are not newer, so that the value copied back
  is the heap's at that moment plus the section's own.
* `OneComesFirst` (`[]OneThreadFirst`): a thread of order_violation.cc that clears
  one object has found 1 in the other (`FirstInv`); it has read the page of that
  one, so it does not commit if the other thread has cleared it in the meantime.
* `ChecksPass` (`[]VerifySucceeds`): no REQUIRE of test.cc, lock.cc,
  nolock.cc and serial.cc fails, nor the check in race_condition.cc. `UpdatesKept`
  gives the heap as the sum over the threads there are; that main reads it when
  these are all, and have ended, is `Families`. It says of every process what it
  has on its stack (`Handles`): the handles of its threads, each once, in the order of
  its lines, the same in the saved stack as in the current one, so that a
  rollback loses none and creates none twice; and for a line behind a
  pthread_join that the thread is joined. It says that every process but main is
  on the stack of its creator (`HasCreator`), that a process exits only at the end
  of its function (`CallStands`), and that no page is newer than main's snapshot
  once it has joined its last thread (`AloneAtEnd`): whoever could commit has
  exited, which is `GP!JoinsCorrect` for those that main has joined and an argument down the
  family for theirs. The threads are then counted by a bijection with
  `(1..ThreadNum) \X (0..Nested)` (`AllCounted`), and the lines of each program by
  lemmas about concatenations (`MainLines`, `ThreadLines`, `SerialLines`). A mutex of
  lock.cc plays no part in it. That main comes to its check is `Completes`, which TLC checks.
* `CountsAreSerial` (`SequentialResult` for every program but order_violation.cc, with
  NO_ORDER or without): the evaluation of the program without threads
  (`SerialOutcome`) leaves in each object the number of lines that increment it, those
  of the functions called included (`SerialCounts`, by induction over the lines; that
  its recursive function exists is `StatesExist`), and so do the threads, by
  `UpdatesKept` and the same bijection, once every process has run to the end of its
  function (`EndInv`).
* `ResultIsSerial` (`~NoOrder => Spec => []SequentialResult`), order_violation.cc
  included, where the result depends on who commits first. The
  invariant `AsSerial` says that from main's first commit on the heap is at
  any time one of the serial program: y is set, and x until fn1 has committed.
  fn1, which finds y set, clears x. fn2 has a thread of fn1 before it
  (`PrecedenceInv`) and is not hasty, nor are those before it, since each has read a page
  (`PatientInv`), so that `GP!OrderInvariant` gives that fn1 has exited when fn2
  commits; what fn2 has read of x is then either 0, and it has written nothing, or
  no longer what the heap has, and it rolls back. With NO_ORDER fn2 may
  come first, and only `OneComesFirst` holds.

For any pages and values, from `StartupAssumption`:

* `BumpAllocatorProofs!OneHeapForAll` (`[]OneHeap`): between two sections there are no
  private copies, in a section exactly those of the pages written in it
  (`CopiesOfSection`). `OnlyConstructorsLose`: `HeapKept`, which the code does
  not have, holds of every behaviour in which constructors write nothing to the
  heap; the lost constructor data is the only thing that is lost.

For words of any width and any sizes and alignments, from `MallocAssumption`:

* `MallocWrapperProofs!AlignedAsPromised` (`[]BlocksAligned`), and, if no block
  grows by realloc (`~Growing`) and no size wraps where aligned_alloc or pvalloc
  round it (`RoundingFits`), `RoomAsAsked` (`[]BlocksHaveRoom`) and `NoOverlap`
  (`[]BlocksDisjoint`). The two assumptions are those whose absence the table of section 3
  shows to be fatal; with them nothing else in `wrapper.hh` loses a size. Each
  function has a lemma that says what it returns (`Fits`): NULL, or an aligned
  pointer with room below the new subheap pointer (`CallocFits`: the quotient
  test is exact; `MemalignFits`: the first block is never taken, and the second
  has room for both size and alignment; `AlignUpFits`, `RoundUpFits`: no wrap below the sign
  bit). The invariant (`IInv`): blocks begin between `Base` and the pointer, which
  is aligned, and end below it. Powers of two are stated as divisors of `Word`, since the
  provers know nothing of exponents.


For any alphabet, length of password, number of threads that divides the number of
passwords, and password file, from `CrackerAssumption`:

* `PasswordCrackerProofs`: `GuessesAreNumbers` (`[]GuessIsNumber`),
  `EachPrintedOnce` (`[]PrintedOnce`), `AllFound` (`[]EveryPasswordFound`). The
  invariant says that a guess is all digits of the number before `next` (`Numbered`),
  that what a thread has printed is a number of its range (`OwnNumbers`), that every password it has
  come past is in its flags (`Tried`), that what is in the flags has been printed
  (`CrackedPrinted`), and that what has been printed is in the flags and there is one copy of it
  (`PrintedCracked`), which a rollback leaves true as it takes `next` back and not the
  flags; flags cleared with the stack would break it. The rest is arithmetic: rows of digits and numbers below
  `TotalPasswords` correspond one to one (`NumberInjective`, `NumberOnto`), and the
  ranges are disjoint and cover them all (`RangesApart`, `RangesCover`). Powers are
  a recursive function, whose existence is proved (`PowerDefined`).

The theorems of the library that prove induction take an operator as a parameter, which
the provers here cannot instantiate. Where a proof needs induction on
numbers it takes instead the least element of a set of numbers (`LeastNumber`, from the
well-foundedness of inclusion between finite sets), which is the same thing for a
property that is written as a set.

Only model-checked is liveness (`SectionsEnd`, `Termination`, `Completes`,
`MutexReleased`, the fairness in `ImplementsGThread`), which the prover does not cover.

## 5. What is not modelled

* The representation of the version mappings (unordered_map): they are functions
  in `Gstm`, blocks of memory in the allocators' modules.
* The range check of SegfaultHandler, which lets the page just behind the heap
  pass (`gstm.cc:120`): GlobalHeapInit's two mappings lie side by side on Linux,
  so that this page is mapped and never faults.
* Reuse of process ids and interrupted system calls (`WaitExited` gives up with
  `_exit(0)` on EINTR); a process killed from outside. A process that dies with the mutex
  is modelled where the code lets it happen (`ShareAllocator`).
* Failing mmap, munmap, mprotect, msync: REQUIRE ends the process. So does
  running out of mappings: every section maps a new copy of the stack
  (`stack_context.cc:61`) and unmaps none.
* `head_` and `used_` being static in a header: which translation unit's pair a
  container uses depends on inlining; `PrivateAllocator` has one pair.
* A main that calls exit itself instead of returning: its last section never
  ends. What stdio has buffered is lost at `_exit`; `PasswordCracker` takes its
  output for line-buffered, as on a terminal.
* Globals and I/O of the program, which G-Thread does not roll back (`src/README.md`,
  Limitations 1 and 2), but for the two places where a program here depends on
  it: the mutexes of lock.cc and the flags of password_cracker.cc. Stack data
  passed to threads (Limitation 5).
* Logging, wording and layout; the dlsym templates of `interpose.hh`; the parts of
  `wrapper.hh` for Windows.
