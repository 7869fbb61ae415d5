------------------------------ MODULE GThread ------------------------------
(***************************************************************************)
(* Threads as processes: GThread::Create, Join, AtomicCommit's wait and    *)
(* WaitExited (gthread.cc, gstm.cc), and the pthread calls and the main    *)
(* function that are built on them (libgthread.hh).                        *)
(*                                                                         *)
(* Module Gstm says when a section commits and what that does to the heap. *)
(* Here a section only has or has not touched the heap, and may roll back  *)
(* once another process has committed since it began.  What is modelled in *)
(* full is who is whose predecessor, who waits for whom, who collects whom *)
(* and what a rollback repeats.                                            *)
(***************************************************************************)
EXTENDS Naturals, Sequences, FiniteSets

CONSTANTS
  Procs,       \* process ids; none is used twice
  Root,        \* the process that runs wrapped_main
  NoPid,       \* predecessor_ = 0, and the parent of Root
  NoHandle,    \* what a program has for a thread it knows nothing of
  NoOrder,     \* NO_ORDER is defined (util.hh)
  ForeignJoin, \* threads also join threads that another thread created
  ForkJoin,    \* a thread returns only when all its threads have been joined
  Faults,      \* forks fail and threads fault outside the heap
  MaxEntries   \* bound: entries of a process's gthreads

ASSUME GThreadAssumption ==
  /\ Root \in Procs
  /\ NoPid \notin Procs
  /\ NoHandle \notin Nat
  /\ NoOrder \in BOOLEAN
  /\ ForeignJoin \in BOOLEAN
  /\ ForkJoin \in BOOLEAN
  /\ Faults \in BOOLEAN
  /\ MaxEntries \in Nat \ {0}

VARIABLES
  phase,       \* where a process stands
  touched,     \* its section has an entry in a read or write set
  conflict,    \* another process committed since its section began
  call,        \* the call for which it ends its section
  origin,      \* the thread whose pthread_create began its section
  parent,      \* who forked it
  predecessor, \* GThread::predecessor_
  reaped,      \* processes whose exit has been collected: their pid is free
  gthreads,    \* LibGthread::gthreads
  handle,      \* the pthread_t the program of a process has for a thread
  joined,      \* threads whose pthread_join has returned
  \* History, read by no action
  before,      \* the threads that come before a process in the serial program
  hasty        \* processes that exited without waiting for their predecessor

sectionVars == <<touched, conflict, origin>>
familyVars  == <<parent, predecessor, reaped>>
threadVars  == <<gthreads, handle, joined>>
vars == <<phase, call, sectionVars, familyVars, threadVars, before, hasty>>

Phases == {"unborn", "running", "waiting", "validating", "ended", "exited"}

NoCall == [op |-> "none"]
Calls == [op : {"none", "exit"}] \cup [op : {"create"}, slot : Nat]
           \cup [op : {"join"}, thread : Procs]

Goto(p, next) == phase' = [phase EXCEPT ![p] = next]

\* The phases between AtomicBegin and the outcome of AtomicCommit.
Open == {"running", "waiting", "validating"}

Children(p) == {c \in Procs : parent[c] = p}

-----------------------------------------------------------------------------
(* Waiting for a process *)

\* Mutant: waitpid with WNOHANG.
WaitExitedNoHang(p, t) ==
  \/ t = NoPid /\ UNCHANGED reaped
  \/ /\ t # NoPid
     /\ t \notin reaped
     /\ parent[t] = p
     /\ reaped' = IF phase[t] = "exited" THEN reaped \cup {t} ELSE reaped
  \/ t \in reaped /\ UNCHANGED reaped

\* waitpid blocks for a child and collects it.  For any other process it
\* fails, and kill(pid, 0) is repeated until it fails too: it succeeds as long
\* as the process is there, be it as a zombie that nobody has collected.
WaitExited(p, t) ==
  \/ t = NoPid /\ UNCHANGED reaped
  \/ /\ t # NoPid
     /\ t \notin reaped
     /\ parent[t] = p
     /\ phase[t] = "exited"
     /\ reaped' = reaped \cup {t}
  \/ t \in reaped /\ UNCHANGED reaped

-----------------------------------------------------------------------------
(* Sections *)

\* Mutant: the versions of the last attempt are kept.
BeginStale(p, from) ==
  /\ touched' = [touched EXCEPT ![p] = FALSE]
  /\ origin' = [origin EXCEPT ![p] = from]
  /\ UNCHANGED conflict

\* AtomicBegin.
Begin(p, from) ==
  /\ touched' = [touched EXCEPT ![p] = FALSE]
  /\ conflict' = [conflict EXCEPT ![p] = FALSE]
  /\ origin' = [origin EXCEPT ![p] = from]

\* The program touches the heap.
Touch(p) ==
  /\ p # Root
  /\ phase[p] = "running"
  /\ ~touched[p]
  /\ touched' = [touched EXCEPT ![p] = TRUE]
  /\ UNCHANGED <<phase, call, conflict, origin, familyVars, threadVars, before, hasty>>

\* AtomicEnd up to the wait of AtomicCommit; without an entry in the read and
\* write sets there is neither wait nor validation.
EndSection(p, what) ==
  /\ phase[p] = "running"
  /\ call' = [call EXCEPT ![p] = what]
  /\ Goto(p, IF touched[p] THEN "waiting" ELSE "ended")
  /\ UNCHANGED <<sectionVars, familyVars, threadVars, before, hasty>>

\* AtomicCommit's WaitExited(predecessor_).
PredecessorExited(p) ==
  /\ phase[p] = "waiting"
  /\ WaitExited(p, predecessor[p])
  /\ Goto(p, "validating")
  /\ UNCHANGED <<call, sectionVars, parent, predecessor, threadVars, before, hasty>>

\* The section commits and may spoil every open one.
Commit(p) ==
  /\ phase[p] = "validating"
  /\ Goto(p, "ended")
  /\ conflict' = [q \in Procs |-> IF q # p /\ phase[q] \in Open THEN TRUE ELSE conflict[q]]
  /\ UNCHANGED <<call, touched, origin, familyVars, threadVars, before, hasty>>

\* gthreads.push_back after the AtomicBegin of pthread_create.
PushBack(p, t) == IF t = NoPid THEN gthreads[p] ELSE Append(gthreads[p], t)

\* The section rolls back: it returns from AtomicBegin once more, and what
\* pthread_create has still to do is done once more.  gthreads is not rolled
\* back: it is neither on the stack nor in the heap.
Rollback(p) ==
  /\ phase[p] = "validating"
  /\ conflict[p]
  /\ Len(gthreads[p]) < MaxEntries
  /\ Goto(p, "running")
  /\ call' = [call EXCEPT ![p] = NoCall]
  /\ Begin(p, origin[p])
  /\ gthreads' = [gthreads EXCEPT ![p] = PushBack(p, origin[p])]
  /\ UNCHANGED <<familyVars, handle, joined, before, hasty>>

-----------------------------------------------------------------------------
(* The calls of the program *)

\* Bound: a call of pthread_create finds a process id and an entry to use.
Room(p) ==
  /\ Len(gthreads[p]) < MaxEntries
  /\ Cardinality({q \in Procs : call[q].op = "create"})
       < Cardinality({q \in Procs : phase[q] = "unborn"})

\* Mutants: the handle is that of the last entry; it counts the threads created.
CallCreateLast(p) ==
  /\ p # Root
  /\ Room(p)
  /\ EndSection(p, [op |-> "create", slot |-> Len(gthreads[p]) - 1])

CallCreateCount(p) ==
  /\ p # Root
  /\ Room(p)
  /\ EndSection(p, [op |-> "create", slot |-> Cardinality(Children(p))])

\* pthread_create: the handle is the length of gthreads.
CallCreate(p) ==
  /\ p # Root
  /\ Room(p)
  /\ EndSection(p, [op |-> "create", slot |-> Len(gthreads[p])])

\* A thread is joined once, by a thread that knows its handle: the one that
\* created it or, with ForeignJoin, one that was created after it.
CallJoin(p, t) ==
  /\ p # Root
  /\ handle[p][t] # NoHandle
  /\ t \notin joined
  /\ \A q \in Procs : call[q] # [op |-> "join", thread |-> t]
  /\ ForeignJoin \/ parent[t] = p
  /\ EndSection(p, [op |-> "join", thread |-> t])

\* The thread function, or the program's main, returns.
CallExit(p) ==
  /\ p # Root
  /\ ForkJoin => Children(p) \subseteq joined
  /\ EndSection(p, [op |-> "exit"])

\* wrapped_main creates one thread, joins it and exits.  It calls GThread
\* directly and touches no heap.
WrappedMain ==
  \/ Children(Root) = {} /\ EndSection(Root, [op |-> "create", slot |-> 0])
  \/ \E t \in Children(Root) \ joined : EndSection(Root, [op |-> "join", thread |-> t])
  \/ Children(Root) \cap joined # {} /\ EndSection(Root, [op |-> "exit"])

Calling(p) ==
  \/ CallCreate(p) \/ CallExit(p) \/ \E t \in Procs : CallJoin(p, t)
  \/ p = Root /\ WrappedMain

-----------------------------------------------------------------------------
(* What a call does between two sections *)

\* Mutants: NO_ORDER makes no difference, either way.
ChildAlwaysOrdered(p) == predecessor[p]

ChildNeverOrdered(p) == NoPid

\* A child keeps the predecessor it inherits, unless NO_ORDER is defined.
ChildPredecessor(p) == IF NoOrder THEN NoPid ELSE predecessor[p]

\* Create forks, and the parent takes the child for its predecessor.  The entry
\* in gthreads is made by the parent alone, after its AtomicBegin.
Fork(p, c) ==
  /\ phase[p] = "ended" /\ call[p].op = "create"
  /\ phase[c] = "unborn"
  /\ phase' = [phase EXCEPT ![p] = "running", ![c] = "running"]
  /\ call' = [call EXCEPT ![p] = NoCall]
  /\ parent' = [parent EXCEPT ![c] = p]
  /\ predecessor' = [predecessor EXCEPT ![p] = c, ![c] = ChildPredecessor(p)]
  /\ Begin(p, IF p = Root THEN NoPid ELSE c)
  /\ gthreads' = [gthreads EXCEPT ![p] = PushBack(p, IF p = Root THEN NoPid ELSE c),
                                  ![c] = gthreads[p]]
  /\ handle' = [handle EXCEPT ![p][c] = IF p = Root THEN NoHandle ELSE call[p].slot,
                              ![c] = handle[p]]
  /\ before' = [q \in Procs |->
                  IF q = c THEN before[p]
                  ELSE IF q = p \/ p \in before[q] THEN before[q] \cup {c}
                  ELSE before[q]]
  /\ UNCHANGED <<reaped, joined, hasty>>

\* The process is gone; if its last section touched nothing, it has waited for
\* nobody.
Leave(p) ==
  /\ Goto(p, "exited")
  /\ hasty' = IF phase[p] = "ended" /\ touched[p] THEN hasty ELSE hasty \cup {p}
  /\ call' = [call EXCEPT ![p] = NoCall]
  /\ UNCHANGED <<sectionVars, familyVars, threadVars, before>>

\* fork fails: exit(1), after the section has committed.
ForkFails(p) ==
  /\ Faults
  /\ phase[p] = "ended" /\ call[p].op = "create"
  /\ Leave(p)

\* The process that Join waits for: what the program means by its handle is
\* looked up in gthreads; wrapped_main has the process id itself.
Joinee(p, t) == IF p = Root THEN t ELSE gthreads[p][handle[p][t] + 1]

JoinReturns(p) ==
  /\ phase[p] = "ended" /\ call[p].op = "join"
  /\ WaitExited(p, Joinee(p, call[p].thread))
  /\ joined' = joined \cup {call[p].thread}
  /\ Goto(p, "running")
  /\ call' = [call EXCEPT ![p] = NoCall]
  /\ Begin(p, NoPid)
  /\ UNCHANGED <<parent, predecessor, gthreads, handle, before, hasty>>

Exit(p) ==
  /\ phase[p] = "ended" /\ call[p].op = "exit"
  /\ Leave(p)

\* A fault outside the heap: _exit(1) inside the section.
RealSegfault(p) ==
  /\ Faults /\ p # Root
  /\ phase[p] = "running"
  /\ Leave(p)

\* The kernel hands the children of an exited process to init, which collects
\* them.
InitReaps(c) ==
  /\ phase[c] = "exited" /\ c \notin reaped
  /\ parent[c] \in Procs /\ phase[parent[c]] = "exited"
  /\ reaped' = reaped \cup {c}
  /\ UNCHANGED <<phase, call, sectionVars, parent, predecessor, threadVars, before, hasty>>

Terminated ==
  /\ \A p \in Procs : phase[p] \in {"unborn", "exited"}
  /\ UNCHANGED vars

-----------------------------------------------------------------------------

Init ==
  /\ phase = [p \in Procs |-> IF p = Root THEN "running" ELSE "unborn"]
  /\ touched = [p \in Procs |-> FALSE]
  /\ conflict = [p \in Procs |-> FALSE]
  /\ call = [p \in Procs |-> NoCall]
  /\ origin = [p \in Procs |-> NoPid]
  /\ parent = [p \in Procs |-> NoPid]
  /\ predecessor = [p \in Procs |-> NoPid]
  /\ reaped = {}
  /\ gthreads = [p \in Procs |-> <<>>]
  /\ handle = [p \in Procs |-> [t \in Procs |-> NoHandle]]
  /\ joined = {}
  /\ before = [p \in Procs |-> {}]
  /\ hasty = {}

Library(p) ==
  \/ PredecessorExited(p) \/ Commit(p) \/ Rollback(p)
  \/ \E c \in Procs : Fork(p, c)
  \/ ForkFails(p) \/ JoinReturns(p) \/ Exit(p)

Next ==
  \/ \E p \in Procs : Touch(p) \/ Calling(p) \/ RealSegfault(p) \/ Library(p) \/ InitReaps(p)
  \/ Terminated

Spec == Init /\ [][Next]_vars

\* Every section of the program comes to a call, the library and init are
\* never stopped for ever.
Fairness == \A p \in Procs : WF_vars(Calling(p)) /\ WF_vars(Library(p)) /\ WF_vars(InitReaps(p))

FairSpec == Spec /\ Fairness

-----------------------------------------------------------------------------
(* Properties *)

\* Every variable keeps its type; a process that was not forked has no parent.
TypeOK ==
  /\ phase \in [Procs -> Phases]
  /\ touched \in [Procs -> BOOLEAN]
  /\ conflict \in [Procs -> BOOLEAN]
  /\ call \in [Procs -> Calls]
  /\ origin \in [Procs -> Procs \cup {NoPid}]
  /\ parent \in [Procs -> Procs \cup {NoPid}]
  /\ predecessor \in [Procs -> Procs \cup {NoPid}]
  /\ reaped \in SUBSET Procs
  /\ gthreads \in [Procs -> Seq(Procs)]
  /\ handle \in [Procs -> [Procs -> Nat \cup {NoHandle}]]
  /\ joined \in SUBSET Procs
  /\ before \in [Procs -> SUBSET Procs]
  /\ hasty \in SUBSET Procs

\* However often a rollback repeats the end of pthread_create, in the process
\* that called it or in one forked later, a handle leads to the thread it was
\* given for.
HandlesDenoteThreads ==
  \A p, t \in Procs :
    handle[p][t] # NoHandle =>
      handle[p][t] < Len(gthreads[p]) /\ gthreads[p][handle[p][t] + 1] = t

\* pthread_join returns only when the thread has exited: its last section is
\* in the heap before the caller's next snapshot.
JoinedThreadsExited ==
  \A t \in joined : phase[t] = "exited"

\* The process that p waits for in WaitExited.
Awaited(p) ==
  IF phase[p] = "waiting" THEN predecessor[p]
  ELSE IF phase[p] = "ended" /\ call[p].op = "join" THEN Joinee(p, call[p].thread)
  ELSE NoPid

Stuck(p) ==
  LET t == Awaited(p)
  IN  t # NoPid /\ t \notin reaped /\ ~(parent[t] = p /\ phase[t] = "exited")

\* Waiting never closes a circle: as long as there is a process, one of them
\* is not waiting for another, or init has one to collect.
SomeoneMoves ==
  \/ \A p \in Procs : phase[p] \in {"unborn", "exited"}
  \/ \E p \in Procs : phase[p] \notin {"unborn", "exited"} /\ ~Stuck(p)
  \/ \E c \in Procs : phase[c] = "exited" /\ c \notin reaped
                        /\ parent[c] \in Procs /\ phase[parent[c]] = "exited"

\* Every process comes to its end.
Termination == <>(\A p \in Procs : phase[p] \in {"unborn", "exited"})

\* WaitExited returns once the process it waits for has exited.
WaitsEnd ==
  \A p, t \in Procs :
    (Awaited(p) = t /\ phase[t] = "exited") ~> Awaited(p) # t

\* A section that touched the heap commits only after all threads that come
\* before it in the serial program have completed.
SequentialSemantics ==
  [][\A p \in Procs :
       phase[p] = "validating" /\ phase'[p] = "ended" =>
         \A q \in before[p] : phase[q] = "exited"]_vars

\* The only way around that is a thread among those to be waited for that ended
\* in a section without touching the heap, or at a fault: nobody has waited for
\* those before it.
SequentialUnlessHasty ==
  [][\A p \in Procs :
       phase[p] = "validating" /\ phase'[p] = "ended" =>
         \A q \in before[p] : phase[q] = "exited" \/ before[p] \cap hasty # {}]_vars

=============================================================================
