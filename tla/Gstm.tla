------------------------------- MODULE Gstm -------------------------------
(***************************************************************************)
(* The software transactional memory of G-Thread: Gstm (gstm.cc) and the   *)
(* atomic sections of GThread (AtomicBegin, AtomicEnd, AtomicCommit,       *)
(* AtomicAbort in gthread.cc).                                             *)
(*                                                                         *)
(* A "thread" is a process.  Every process maps the heap file twice: a     *)
(* shared mapping, the global heap, and a copy-on-write private mapping,   *)
(* the local heap, in which the program runs.  A section starts with a     *)
(* snapshot of the page versions and no permission on any page; page       *)
(* faults record what it reads and writes; at its end it is validated and  *)
(* its pages are copied to the global heap under a process-shared mutex,   *)
(* or it is rolled back and run again.                                     *)
(*                                                                         *)
(* What the program does between two calls of the library is arbitrary:    *)
(* any load, any store, any order.  Steps that touch only a process's own  *)
(* memory are merged with the shared step next to them.                    *)
(***************************************************************************)
EXTENDS Naturals, FiniteSets

CONSTANTS
  Procs,        \* process ids, one per thread of the program
  Root,         \* the process that runs wrapped_main
  NoProc,       \* a mutex nobody holds
  Pages,        \* pages of the heap
  Contents,     \* what a page can hold
  Blank,        \* what every page holds when the program starts
  Torn,         \* a page in the middle of a memcpy: part old, part new
  NotCopied,    \* a local page that is still the page of the heap file
  Absent,       \* no entry for a page in a version mapping
  MaxSections   \* bound: sections all processes together begin

ASSUME GstmAssumption ==
  /\ Root \in Procs
  /\ NoProc \notin Procs
  /\ Blank \in Contents
  /\ Torn \notin Contents
  /\ NotCopied \notin Contents \cup {Torn}
  /\ Absent \notin Nat
  /\ MaxSections \in Nat \ {0}

ASSUME ProcsFinite == IsFiniteSet(Procs)

VARIABLES
  \* Shared by all processes
  globalHeap,        \* the heap file
  globalPageVersion, \* Gstm::global_page_version
  mutex,             \* Gstm::mutex: its holder
  rollbackCount,     \* Gstm::rollback_count_
  \* Private to each process
  phase,             \* where the process stands in the library
  localPageVersion,  \* Gstm::local_page_version
  track,             \* read_set_version, write_set_version and the protection of each page
  localHeap,         \* private copies of pages
  toCommit,          \* pages CommitHeap has still to copy
  stack,             \* the program's stack: the last content it loaded
  savedStack,        \* the copy SaveContext took
  sections,          \* sections begun so far, by all processes
  \* History, read by no action
  seen,              \* contents of the heap file a section has come across
  dirty              \* pages other processes committed since a section's snapshot

sharedVars == <<globalHeap, globalPageVersion, mutex, rollbackCount>>
trackVars  == <<localPageVersion, track, localHeap, toCommit>>
stackVars  == <<stack, savedStack, sections>>
history    == <<seen, dirty>>
vars == <<sharedVars, phase, trackVars, stackVars, history>>

Phases == {"unborn", "begin", "snapshot", "running", "waiting", "commit",
           "copying", "aborting", "ended", "exited"}

\* The phases in which what a section read and wrote is still undecided.
Open == {"running", "waiting", "commit"}

Version    == Nat \cup {Absent}
Protection == {"none", "read", "readwrite"}
Tracking   == [read : Version, write : Version, prot : Protection]

Goto(p, next) == phase' = [phase EXCEPT ![p] = next]

-----------------------------------------------------------------------------
(* Page faults *)

\* find() on local_page_version, with 0 for a page that was never committed.
HandleReads(t, v) ==
  [read |-> IF v = Absent THEN 0 ELSE v, write |-> t.write, prot |-> "read"]

\* Mutants: mprotect asks for PROT_WRITE alone; the new version is the old one.
HandleWritesUnreadable(t, v) ==
  [read |-> t.read, write |-> IF v = Absent THEN 1 ELSE v + 1, prot |-> "write"]

HandleWritesSameVersion(t, v) ==
  [read |-> t.read, write |-> IF v = Absent THEN 0 ELSE v, prot |-> "readwrite"]

\* A write will publish the version after the snapshot's.
HandleWrites(t, v) ==
  [read |-> t.read, write |-> IF v = Absent THEN 1 ELSE v + 1, prot |-> "readwrite"]

\* The first fault on a page counts as a read, the second as a write.
SegfaultHandler(t, v) ==
  IF t.read # Absent THEN HandleWrites(t, v) ELSE HandleReads(t, v)

\* The faulting instruction is retried until the page lets it through.
FaultsOfLoad(t, v) ==
  IF t.prot = "none" THEN SegfaultHandler(t, v) ELSE t

FaultsOfStore(t, v) ==
  LET once == FaultsOfLoad(t, v)
  IN  IF once.prot = "readwrite" THEN once ELSE SegfaultHandler(once, v)

\* A page without a private copy shows the heap file as it is now.
LocalPage(p, x) ==
  IF localHeap[p][x] = NotCopied THEN globalHeap[x] ELSE localHeap[p][x]

\* What the program comes across in the heap file by touching page x.
Witness(p, x) ==
  IF localHeap[p][x] = NotCopied
  THEN [seen EXCEPT ![p][x] = @ \cup {globalHeap[x]}]
  ELSE seen

NoPrivatePages == [x \in Pages |-> NotCopied]
Untracked(prot) == [x \in Pages |-> [read |-> Absent, write |-> Absent, prot |-> prot]]
Protect(t, prot) == [x \in Pages |-> [t[x] EXCEPT !.prot = prot]]
NoVersions == [x \in Pages |-> Absent]
NothingSeen == [x \in Pages |-> {}]

\* The address space of a process that exits is gone.
Unmap(p) ==
  /\ localPageVersion' = [localPageVersion EXCEPT ![p] = NoVersions]
  /\ track' = [track EXCEPT ![p] = Untracked("readwrite")]
  /\ localHeap' = [localHeap EXCEPT ![p] = NoPrivatePages]
  /\ stack' = [stack EXCEPT ![p] = Blank]
  /\ savedStack' = [savedStack EXCEPT ![p] = Blank]
  /\ UNCHANGED <<toCommit, sections>>

\* The history of a section ends when its outcome is known.
Decided(p) ==
  /\ seen' = [seen EXCEPT ![p] = NothingSeen]
  /\ dirty' = [dirty EXCEPT ![p] = {}]

ReadSet(p)  == {x \in Pages : track[p][x].read # Absent}
WriteSet(p) == {x \in Pages : track[p][x].write # Absent}

-----------------------------------------------------------------------------
(* AtomicBegin *)

\* AtomicBegin's first act: getcontext and a copy of the stack.
SaveContext(p) ==
  /\ phase[p] = "begin"
  /\ savedStack' = [savedStack EXCEPT ![p] = stack[p]]
  /\ Goto(p, "snapshot")
  /\ UNCHANGED <<sharedVars, trackVars, stack, sections, history>>

\* Mutant: the versions of the first attempt are kept.
SnapshotStale(p) ==
  /\ phase[p] = "snapshot"
  /\ mutex = NoProc
  /\ track' = [track EXCEPT ![p] = Untracked("none")]
  /\ Goto(p, "running")
  /\ UNCHANGED <<sharedVars, localPageVersion, localHeap, toCommit, stackVars, history>>

\* The rest of AtomicBegin, run again after every rollback: forget the last
\* attempt, copy the page versions under the mutex, protect the heap.
Snapshot(p) ==
  /\ phase[p] = "snapshot"
  /\ mutex = NoProc
  /\ localPageVersion' = [localPageVersion EXCEPT ![p] = globalPageVersion]
  /\ track' = [track EXCEPT ![p] = Untracked("none")]
  /\ Goto(p, "running")
  /\ UNCHANGED <<sharedVars, localHeap, toCommit, stackVars, history>>

-----------------------------------------------------------------------------
(* The program, inside a section *)

\* An instruction that reads page x.
Load(p, x) ==
  /\ phase[p] = "running"
  /\ track' = [track EXCEPT ![p][x] = FaultsOfLoad(@, localPageVersion[p][x])]
  /\ stack' = [stack EXCEPT ![p] = LocalPage(p, x)]
  /\ seen' = Witness(p, x)
  /\ UNCHANGED <<sharedVars, phase, localPageVersion, localHeap, toCommit,
                 savedStack, sections, dirty>>

\* An instruction that writes page x: the kernel copies the page, and what the
\* instruction leaves alone of a torn page stays torn.
Store(p, x) ==
  /\ phase[p] = "running"
  /\ track' = [track EXCEPT ![p][x] = FaultsOfStore(@, localPageVersion[p][x])]
  /\ \E c \in Contents :
       localHeap' = [localHeap EXCEPT ![p][x] = IF LocalPage(p, x) = Torn THEN Torn ELSE c]
  /\ seen' = Witness(p, x)
  /\ UNCHANGED <<sharedVars, phase, localPageVersion, toCommit, stackVars, dirty>>

\* A fault outside the heap: _exit(1) in the handler, whatever was pending.
RealSegfault(p) ==
  /\ phase[p] = "running"
  /\ Goto(p, "exited")
  /\ Unmap(p)
  /\ Decided(p)
  /\ UNCHANGED sharedVars

-----------------------------------------------------------------------------
(* AtomicEnd *)

\* munmap and mmap again: no private page, every page readable and writable.
UpdateHeap(p) ==
  /\ localHeap' = [localHeap EXCEPT ![p] = NoPrivatePages]
  /\ track' = [track EXCEPT ![p] = Protect(@, "readwrite")]

\* Mutant: a section that has written nothing needs no validation.
CommitReadOnly(p) ==
  /\ phase[p] = "running"
  /\ WriteSet(p) = {}
  /\ UpdateHeap(p)
  /\ Goto(p, "ended")
  /\ Decided(p)
  /\ UNCHANGED <<sharedVars, localPageVersion, toCommit, stackVars>>

\* AtomicCommit of a section that touched nothing: no wait and no lock.
CommitEmpty(p) ==
  /\ phase[p] = "running"
  /\ ReadSet(p) = {} /\ WriteSet(p) = {}
  /\ UpdateHeap(p)
  /\ Goto(p, "ended")
  /\ Decided(p)
  /\ UNCHANGED <<sharedVars, localPageVersion, toCommit, stackVars>>

\* AtomicCommit of any other section goes to wait for the predecessor.
StartCommit(p) ==
  /\ phase[p] = "running"
  /\ ReadSet(p) \cup WriteSet(p) # {}
  /\ Goto(p, "waiting")
  /\ UNCHANGED <<sharedVars, trackVars, stackVars, history>>

\* WaitExited returns.  When it may is not this module's matter.
PredecessorExited(p) ==
  /\ phase[p] = "waiting"
  /\ Goto(p, "commit")
  /\ UNCHANGED <<sharedVars, trackVars, stackVars, history>>

\* Every page read and ever committed still has the version of the snapshot.
IsHeapConsistent(p) ==
  \A x \in ReadSet(p) :
    globalPageVersion[x] # Absent => globalPageVersion[x] = track[p][x].read

\* The mutex is taken and kept: the section commits.
ValidateSuccess(p) ==
  /\ phase[p] = "commit"
  /\ mutex = NoProc
  /\ IsHeapConsistent(p)
  /\ mutex' = p
  /\ toCommit' = [toCommit EXCEPT ![p] = WriteSet(p)]
  /\ Goto(p, "copying")
  /\ Decided(p)
  /\ UNCHANGED <<globalHeap, globalPageVersion, rollbackCount, localPageVersion,
                 track, localHeap, stackVars>>

\* Mutant: what failed to validate is validated again.
ValidateAgain(p) ==
  /\ phase[p] = "commit"
  /\ mutex = NoProc
  /\ ~IsHeapConsistent(p)
  /\ UNCHANGED vars

\* The mutex is taken and released: the section must roll back.
ValidateFailure(p) ==
  /\ phase[p] = "commit"
  /\ mutex = NoProc
  /\ ~IsHeapConsistent(p)
  /\ rollbackCount' = rollbackCount + 1
  /\ Goto(p, "aborting")
  /\ Decided(p)
  /\ UNCHANGED <<globalHeap, globalPageVersion, mutex, trackVars, stackVars>>

\* CommitHeap's memcpy is under way; readers of the page take no lock.
CopyStart(p, x) ==
  /\ phase[p] = "copying"
  /\ x \in toCommit[p]
  /\ \A y \in toCommit[p] : globalHeap[y] # Torn
  /\ globalHeap' = [globalHeap EXCEPT ![x] = Torn]
  /\ UNCHANGED <<globalPageVersion, mutex, rollbackCount, phase, trackVars,
                 stackVars, history>>

\* The memcpy is over and the page gets its new version.
CopyFinish(p, x) ==
  /\ phase[p] = "copying"
  /\ x \in toCommit[p]
  /\ globalHeap[x] = Torn
  /\ globalHeap' = [globalHeap EXCEPT ![x] = LocalPage(p, x)]
  /\ globalPageVersion' = [globalPageVersion EXCEPT ![x] = track[p][x].write]
  /\ toCommit' = [toCommit EXCEPT ![p] = @ \ {x}]
  /\ dirty' = [q \in Procs |-> IF phase[q] \in Open THEN dirty[q] \cup {x} ELSE dirty[q]]
  /\ UNCHANGED <<mutex, rollbackCount, phase, localPageVersion, track, localHeap,
                 stackVars, seen>>

\* msync, UpdateHeap and the unlock.
FinishCommit(p) ==
  /\ phase[p] = "copying"
  /\ toCommit[p] = {}
  /\ UpdateHeap(p)
  /\ mutex' = NoProc
  /\ Goto(p, "ended")
  /\ UNCHANGED <<globalHeap, globalPageVersion, rollbackCount, localPageVersion,
                 toCommit, stackVars, history>>

\* Mutants: no madvise; no RestoreContext.
AbortKeepsPages(p) ==
  /\ phase[p] = "aborting"
  /\ stack' = [stack EXCEPT ![p] = savedStack[p]]
  /\ Goto(p, "snapshot")
  /\ UNCHANGED <<sharedVars, trackVars, savedStack, sections, history>>

AbortKeepsStack(p) ==
  /\ phase[p] = "aborting"
  /\ localHeap' = [localHeap EXCEPT ![p] = NoPrivatePages]
  /\ Goto(p, "snapshot")
  /\ UNCHANGED <<sharedVars, localPageVersion, track, toCommit, stackVars, history>>

\* AtomicAbort: madvise drops the private pages, RestoreContext brings the
\* stack back and returns inside AtomicBegin.
AtomicAbort(p) ==
  /\ phase[p] = "aborting"
  /\ localHeap' = [localHeap EXCEPT ![p] = NoPrivatePages]
  /\ stack' = [stack EXCEPT ![p] = savedStack[p]]
  /\ Goto(p, "snapshot")
  /\ UNCHANGED <<sharedVars, localPageVersion, track, toCommit, savedStack,
                 sections, history>>

-----------------------------------------------------------------------------
(* Between two sections *)

\* Create forks after AtomicEnd; both processes then begin a section.
Fork(p, c) ==
  /\ phase[p] = "ended" /\ phase[c] = "unborn"
  /\ sections + 2 <= MaxSections
  /\ sections' = sections + 2
  /\ phase' = [phase EXCEPT ![p] = "begin", ![c] = "begin"]
  /\ localPageVersion' = [localPageVersion EXCEPT ![c] = localPageVersion[p]]
  /\ track' = [track EXCEPT ![c] = track[p]]
  /\ localHeap' = [localHeap EXCEPT ![c] = localHeap[p]]
  /\ stack' = [stack EXCEPT ![c] = stack[p]]
  /\ savedStack' = [savedStack EXCEPT ![c] = savedStack[p]]
  /\ UNCHANGED <<sharedVars, toCommit, history>>

\* Join's wait is over and it begins a section.
Resume(p) ==
  /\ phase[p] = "ended"
  /\ sections < MaxSections
  /\ sections' = sections + 1
  /\ Goto(p, "begin")
  /\ UNCHANGED <<sharedVars, trackVars, stack, savedStack, history>>

\* The thread function has returned and its last section is over: _exit(0).
Exit(p) ==
  /\ phase[p] = "ended"
  /\ Goto(p, "exited")
  /\ Unmap(p)
  /\ UNCHANGED <<sharedVars, history>>

Terminated ==
  /\ \A p \in Procs : phase[p] \in {"unborn", "exited"}
  /\ UNCHANGED vars

-----------------------------------------------------------------------------

Init ==
  /\ globalHeap = [x \in Pages |-> Blank]
  /\ globalPageVersion = NoVersions
  /\ mutex = NoProc
  /\ rollbackCount = 0
  /\ phase = [p \in Procs |-> IF p = Root THEN "begin" ELSE "unborn"]
  /\ localPageVersion = [p \in Procs |-> NoVersions]
  /\ track = [p \in Procs |-> Untracked("readwrite")]
  /\ localHeap = [p \in Procs |-> NoPrivatePages]
  /\ toCommit = [p \in Procs |-> {}]
  /\ stack = [p \in Procs |-> Blank]
  /\ savedStack = [p \in Procs |-> Blank]
  /\ sections = 1
  /\ seen = [p \in Procs |-> NothingSeen]
  /\ dirty = [p \in Procs |-> {}]

\* The steps of the library, and the calls that end a section.
Library(p) ==
  \/ SaveContext(p) \/ Snapshot(p)
  \/ CommitEmpty(p) \/ StartCommit(p) \/ PredecessorExited(p)
  \/ ValidateSuccess(p) \/ ValidateFailure(p)
  \/ \E x \in Pages : CopyStart(p, x) \/ CopyFinish(p, x)
  \/ FinishCommit(p) \/ AtomicAbort(p)

Program(p) ==
  \/ \E x \in Pages : Load(p, x) \/ Store(p, x)
  \/ RealSegfault(p)
  \/ \E c \in Procs : Fork(p, c)
  \/ Resume(p) \/ Exit(p)

Next == (\E p \in Procs : Library(p) \/ Program(p)) \/ Terminated

Spec == Init /\ [][Next]_vars

\* The library is never stopped for ever and the code of a section comes to
\* its end; nothing is asked of the scheduler when two processes want the
\* mutex, nor of the program between two sections.
Fairness == \A p \in Procs : WF_vars(Library(p))

FairSpec == Spec /\ Fairness

-----------------------------------------------------------------------------
(* Properties *)

\* Every variable of the library keeps its type: versions count from 0, a page
\* is protected one of three ways, and the heap file never lacks a page.
TypeOK ==
  /\ globalHeap \in [Pages -> Contents \cup {Torn}]
  /\ globalPageVersion \in [Pages -> Version]
  /\ mutex \in Procs \cup {NoProc}
  /\ rollbackCount \in Nat
  /\ phase \in [Procs -> Phases]
  /\ localPageVersion \in [Procs -> [Pages -> Version]]
  /\ track \in [Procs -> [Pages -> Tracking]]
  /\ localHeap \in [Procs -> [Pages -> Contents \cup {Torn, NotCopied}]]
  /\ toCommit \in [Procs -> SUBSET Pages]
  /\ stack \in [Procs -> Contents \cup {Torn}]
  /\ savedStack \in [Procs -> Contents \cup {Torn}]
  /\ sections \in 1..MaxSections
  /\ seen \in [Procs -> [Pages -> SUBSET (Contents \cup {Torn})]]
  /\ dirty \in [Procs -> SUBSET Pages]

\* A section passes IsHeapConsistent only if all it ever came across in the
\* heap file, at whatever moment of whoever's commit, is what the file holds
\* now: the version numbers of the pages it read are enough to tell.
CommitsCurrent ==
  [][\A p \in Procs :
       phase[p] = "commit" /\ phase'[p] = "copying" =>
         \A x \in Pages : seen[p][x] \subseteq {globalHeap[x]}]_vars

\* A section is rolled back only if another process committed, since the
\* section's snapshot, a page that the section read.
AbortsOnlyOnConflict ==
  [][\A p \in Procs :
       phase[p] = "commit" /\ phase'[p] = "aborting" =>
         dirty[p] \cap ReadSet(p) # {}]_vars

\* A half-copied page is seen only while its writer holds the mutex, and
\* what a reader took from it never outlives the reader's section: neither
\* on the stack of a process nor in a page on its way to the heap file.
NothingTornSurvives ==
  /\ mutex = NoProc => \A x \in Pages : globalHeap[x] # Torn
  /\ \A p \in Procs : phase[p] \notin Open \cup {"aborting"} => stack[p] # Torn
  /\ \A p \in Procs : \A x \in toCommit[p] : localHeap[p][x] \in Contents

\* A page is copied privately only in a section that has recorded both the
\* read that validates it and the write that publishes it: no store is lost
\* by the remap of UpdateHeap or survives the madvise of AtomicAbort.
PrivatePagesTracked ==
  \A p \in Procs : \A x \in Pages :
    localHeap[p][x] # NotCopied =>
      /\ phase[p] \in Open \cup {"copying", "aborting"}
      /\ x \in ReadSet(p) \cap WriteSet(p)

\* The commits so far, page by page: a page's version counts its commits.
Commits ==
  UNION {{x} \X (1..(IF globalPageVersion[x] = Absent THEN 0 ELSE globalPageVersion[x])) :
           x \in Pages}

\* A commit costs every other process at most one attempt: rollback is never
\* self-inflicted and never repeated for one and the same commit.
RollbackBound == rollbackCount <= (Cardinality(Procs) - 1) * Cardinality(Commits)

\* A section, once begun, commits or takes its process down, however often
\* it is rolled back first.
SectionsEnd ==
  \A p \in Procs : phase[p] = "snapshot" ~> phase[p] \in {"ended", "exited"}

\* The heap as of the last decision: a section takes effect when it is found
\* consistent, and what remains to be copied is already decided.
DecidedHeap ==
  [x \in Pages |->
     IF mutex # NoProc /\ x \in toCommit[mutex] THEN localHeap[mutex][x]
                                                ELSE globalHeap[x]]

\* What a process keeps whatever becomes of its section.
SettledStack ==
  [p \in Procs |-> IF phase[p] \in Open \cup {"aborting"} THEN savedStack[p] ELSE stack[p]]

\* What the section of a process is about to change.
PendingWrites ==
  [p \in Procs |-> IF phase[p] \in Open THEN localHeap[p] ELSE NoPrivatePages]

Abstract ==
  INSTANCE AtomicHeap WITH
    Unwritten <- NotCopied,
    heap <- DecidedHeap,
    local <- SettledStack,
    reads <- seen,
    writes <- PendingWrites

\* The paged, versioned, page-by-page commit is an atomic commit.
ImplementsAtomicHeap == Abstract!Spec

=============================================================================
