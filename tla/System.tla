------------------------------- MODULE System -------------------------------
(***************************************************************************)
(* A program running on G-Thread: the processes of module GThread, each    *)
(* with the code of a thread (ExamplePrograms), its stack, which a         *)
(* rollback restores (Checkpoint), and its view of the heap, page by page  *)
(* (Gstm).  Every step is a step of GThread or, to GThread, none.          *)
(*                                                                         *)
(* What Gstm shows in detail is one step here: AtomicBegin with its        *)
(* snapshot, a fault with the access it is for, the commit of all pages of *)
(* a section.  A version that has changed since the snapshot is a page     *)
(* that another process has committed since.                               *)
(***************************************************************************)
EXTENDS ExamplePrograms, FiniteSets

CONSTANTS
  Procs, Root, NoPid, NoHandle, NoOrder, MaxEntries, \* see GThread
  Programs, \* programs that are run, one at a time
  Layout    \* the pages: a partition of the objects

ASSUME SystemAssumption ==
  /\ Procs \subseteq Nat /\ IsFiniteSet(Procs)
  /\ Root \in Procs /\ NoPid \notin Procs /\ NoHandle \notin Nat
  /\ NoOrder \in BOOLEAN /\ MaxEntries \in Nat \ {0}
  /\ Programs \subseteq DOMAIN Code
  /\ UNION Layout = Objects
  /\ \A g, h \in Layout : g # h => g \cap h = {}

VARIABLES
  phase, touched, conflict, call, origin, parent, predecessor, reaped,
  gthreads, handle, joined, before, hasty, \* see GThread
  program,    \* the program that runs
  heap,       \* the heap's file
  copies,     \* the private copies of the pages a process has written
  reads,      \* the pages in read_set_version
  writes,     \* the pages in write_set_version
  newer,      \* pages whose version is not that of local_page_version any more
  stack,      \* what a process has on its stack and in its registers
  checkpoint, \* the same at its last AtomicBegin
  locked,     \* the program's mutex, in the static memory of a process
  failed      \* processes in which REQUIRE has failed

G == INSTANCE GThread WITH ForeignJoin <- FALSE, ForkJoin <- FALSE, Faults <- FALSE

gvars == <<phase, touched, conflict, call, origin, parent, predecessor, reaped,
           gthreads, handle, joined, before, hasty>>
heapVars == <<heap, copies, reads, writes, newer>>
programVars == <<stack, checkpoint, locked, failed>>
vars == <<gvars, program, heapVars, programVars>>

Page(o) == CHOOSE g \in Layout : o \in g

\* A thread at the beginning of its function.
Enter(f) == [fn |-> f, pc |-> 1, reg |-> 0, threads |-> <<>>]

Running(p) == phase[p] = "running" /\ p # Root /\ p \notin failed
AtEnd(p) == stack[p].pc > Len(Code[program][stack[p].fn])
Op(p) == Code[program][stack[p].fn][stack[p].pc]
At(p, what) == Running(p) /\ ~AtEnd(p) /\ Op(p).op = what

Advance(p) == stack' = [stack EXCEPT ![p].pc = @ + 1]

-----------------------------------------------------------------------------
(* Accesses to the heap, inside a section *)

Value(p, o) == IF Page(o) \in writes[p] THEN copies[p][o] ELSE heap[o]

\* The fault that puts the page into the read set, if it is not there.
Fault(p, o) ==
  /\ IF touched[p] THEN UNCHANGED gvars ELSE G!Touch(p)
  /\ reads' = [reads EXCEPT ![p] = @ \cup {Page(o)}]
  /\ UNCHANGED <<program, heap, newer, checkpoint, locked>>

LoadStep(p) ==
  /\ At(p, "load")
  /\ Fault(p, Op(p).at)
  /\ stack' = [stack EXCEPT ![p].pc = @ + 1, ![p].reg = Value(p, Op(p).at)]
  /\ UNCHANGED <<copies, writes, failed>>

\* A page that is written becomes the process's own, as the file has it now.
Write(p, o, v) ==
  /\ copies' = [copies EXCEPT ![p] =
                  [q \in Objects |-> IF q = o THEN v
                                     ELSE IF q \in Page(o) THEN Value(p, q)
                                     ELSE copies[p][q]]]
  /\ writes' = [writes EXCEPT ![p] = @ \cup {Page(o)}]

StoreStep(p) ==
  /\ \/ At(p, "increment") /\ Write(p, Op(p).at, stack[p].reg + 1)
     \/ At(p, "put") /\ Write(p, Op(p).at, Op(p).val)
     \/ At(p, "put_if") /\ stack[p].reg = 1 /\ Write(p, Op(p).at, Op(p).val)
  /\ Fault(p, Op(p).at)
  /\ Advance(p)
  /\ UNCHANGED failed

SkipStep(p) ==
  /\ At(p, "put_if") /\ stack[p].reg # 1
  /\ Advance(p)
  /\ UNCHANGED <<gvars, program, heapVars, checkpoint, locked, failed>>

RequireStep(p) ==
  /\ At(p, "require")
  /\ Fault(p, Op(p).at)
  /\ failed' = IF Value(p, Op(p).at) = Op(p).val THEN failed ELSE failed \cup {p}
  /\ Advance(p)
  /\ UNCHANGED <<copies, writes>>

\* pthread_mutex_lock is not interposed. What it locks is private to the process.
MutexStep(p) ==
  /\ \/ At(p, "lock") /\ ~locked[p]
     \/ At(p, "unlock")
  /\ locked' = [locked EXCEPT ![p] = ~@]
  /\ Advance(p)
  /\ UNCHANGED <<gvars, program, heapVars, checkpoint, failed>>

ProgramStep(p) ==
  LoadStep(p) \/ StoreStep(p) \/ SkipStep(p) \/ RequireStep(p) \/ MutexStep(p)

-----------------------------------------------------------------------------
(* The calls that end a section *)

\* The program calls pthread_join with the handle it has for t.
Joins(p, t) == At(p, "join") /\ t = stack[p].threads[Op(p).index]

\* Mutant: a thread function that returns ends its process, not its section.
CallingUnended(p) ==
  /\ \/ At(p, "create") /\ G!CallCreate(p)
     \/ \E t \in Procs : Joins(p, t) /\ G!CallJoin(p, t)
     \/ Running(p) /\ AtEnd(p) /\ G!Leave(p)
     \/ p = Root /\ G!WrappedMain
  /\ UNCHANGED <<program, heapVars, programVars>>

Calling(p) ==
  /\ \/ At(p, "create") /\ G!CallCreate(p)
     \/ \E t \in Procs : Joins(p, t) /\ G!CallJoin(p, t)
     \/ Running(p) /\ AtEnd(p) /\ G!CallExit(p)
     \/ p = Root /\ G!WrappedMain
  /\ UNCHANGED <<program, heapVars, programVars>>

PredecessorExited(p) ==
  /\ G!PredecessorExited(p)
  /\ UNCHANGED <<program, heapVars, programVars>>

\* Mutants: one of the two sets is not validated.
ConsistentReads(p) == (reads[p] \ writes[p]) \cap newer[p] = {}

ConsistentWrites(p) == writes[p] \cap newer[p] = {}

\* IsHeapConsistent
Consistent(p) == reads[p] \cap newer[p] = {}

\* CommitHeap
Commit(p) ==
  /\ Consistent(p)
  /\ G!Commit(p)
  /\ heap' = [o \in Objects |-> Value(p, o)]
  /\ newer' = [q \in Procs |-> IF q = p THEN newer[q] ELSE newer[q] \cup writes[p]]
  /\ UNCHANGED <<program, copies, reads, writes, programVars>>

\* Mutants: no UpdateHeap; no new snapshot.
AtomicBeginSameView(ps) ==
  /\ reads' = [q \in Procs |-> IF q \in ps THEN {} ELSE reads[q]]
  /\ newer' = [q \in Procs |-> IF q \in ps THEN {} ELSE newer[q]]
  /\ checkpoint' = [q \in Procs |-> IF q \in ps THEN stack'[q] ELSE checkpoint[q]]
  /\ UNCHANGED <<program, heap, copies, writes, failed>>

AtomicBeginOldSnapshot(ps) ==
  /\ reads' = [q \in Procs |-> IF q \in ps THEN {} ELSE reads[q]]
  /\ writes' = [q \in Procs |-> IF q \in ps THEN {} ELSE writes[q]]
  /\ copies' = [q \in Procs |-> IF q \in ps THEN [o \in Objects |-> 0] ELSE copies[q]]
  /\ checkpoint' = [q \in Procs |-> IF q \in ps THEN stack'[q] ELSE checkpoint[q]]
  /\ UNCHANGED <<program, heap, newer, failed>>

\* AtomicBegin, for the processes of a set: empty read and write sets, a new
\* snapshot, a fresh view of the heap, a copy of the stack.
AtomicBegin(ps) ==
  /\ reads' = [q \in Procs |-> IF q \in ps THEN {} ELSE reads[q]]
  /\ writes' = [q \in Procs |-> IF q \in ps THEN {} ELSE writes[q]]
  /\ newer' = [q \in Procs |-> IF q \in ps THEN {} ELSE newer[q]]
  /\ copies' = [q \in Procs |-> IF q \in ps THEN [o \in Objects |-> 0] ELSE copies[q]]
  /\ checkpoint' = [q \in Procs |-> IF q \in ps THEN stack'[q] ELSE checkpoint[q]]
  /\ UNCHANGED <<program, heap, failed>>

\* The stack goes back to what AtomicBegin has saved; the static memory does not.
Rollback(p) ==
  /\ ~Consistent(p)
  /\ G!Rollback(p)
  /\ stack' = [stack EXCEPT ![p] = checkpoint[p]]
  /\ AtomicBegin({p})
  /\ UNCHANGED locked

\* A program's main is the thread of wrapped_main. Process ids are given in
\* order.
Fork(p, c) ==
  /\ \A q \in Procs : q < c => phase[q] # "unborn"
  /\ G!Fork(p, c)
  /\ stack' = [stack EXCEPT
                 ![p].pc = @ + 1,
                 ![p].threads = Append(@, c),
                 ![c] = Enter(IF p = Root THEN "main" ELSE Op(p).fn)]
  /\ locked' = [locked EXCEPT ![c] = locked[p]]
  /\ AtomicBegin({p, c})

JoinReturns(p) ==
  /\ G!JoinReturns(p)
  /\ Advance(p)
  /\ AtomicBegin({p})
  /\ UNCHANGED locked

Exit(p) ==
  /\ G!Exit(p)
  /\ UNCHANGED <<program, heapVars, programVars>>

Library(p) ==
  \/ PredecessorExited(p) \/ Commit(p) \/ Rollback(p) \/ JoinReturns(p) \/ Exit(p)
  \/ \E c \in Procs : Fork(p, c)

Terminated ==
  /\ \A p \in Procs : phase[p] \in {"unborn", "exited"}
  /\ UNCHANGED vars

Init ==
  /\ G!Init
  /\ program \in Programs
  /\ heap = [o \in Objects |-> 0]
  /\ copies = [p \in Procs |-> [o \in Objects |-> 0]]
  /\ reads = [p \in Procs |-> {}]
  /\ writes = [p \in Procs |-> {}]
  /\ newer = [p \in Procs |-> {}]
  /\ stack = [p \in Procs |-> Enter("main")]
  /\ checkpoint = stack
  /\ locked = [p \in Procs |-> FALSE]
  /\ failed = {}

\* Every program joins its threads: nothing is left to init.
Next ==
  \/ \E p \in Procs : ProgramStep(p) \/ Calling(p) \/ Library(p)
  \/ Terminated

Spec == Init /\ [][Next]_vars

\* Every process is scheduled.
FairSpec ==
  Spec /\ \A p \in Procs : WF_vars(ProgramStep(p)) /\ WF_vars(Calling(p)) /\ WF_vars(Library(p))

-----------------------------------------------------------------------------
(* Properties *)

Born == {p \in Procs \ {Root} : phase[p] # "unborn"}

\* The operations of p whose effect is in the heap: those before its section
\* began and, if the section has been committed, those of the section.
Committed(p) ==
  1..((IF phase[p] \in G!Open THEN checkpoint[p].pc ELSE stack[p].pc) - 1)

\* The counters of the programs count: in the heap is every increment of a
\* section that has been committed, once, and none of a section that has not,
\* however many sections were rolled back.
NoUpdateLost ==
  program # "order_violation" =>
    \A o \in Objects :
      heap[o] = Cardinality(
        UNION {{p} \X {i \in Committed(p) :
                         Code[program][stack[p].fn][i] = Increment(o)} : p \in Born})

\* verify() never fails (test.cc, lock.cc, nolock.cc, serial.cc), nor is there
\* anything to print at the end of race_condition.cc.
VerifySucceeds == failed = {}

\* order_violation.cc: of the two threads, which each test what the other one
\* clears, one comes first; never does each take the other for later.
OneThreadFirst ==
  program = "order_violation" /\ (\E p \in Born : stack[p].fn # "main")
    => heap["x"] = 1 \/ heap["y"] = 1

\* A process that cannot commit has been overtaken: a rollback always has the
\* commit of another process for a cause, and every step of the whole is one of
\* GThread, which knows of the heap only this.
RollbacksExplained ==
  \A p \in Procs : phase[p] \in G!Open /\ ~Consistent(p) => conflict[p]

ImplementsGThread == G!FairSpec

\* Without NO_ORDER: threads commit in the order of the serial program, but for
\* those behind one that ended in a section that touched nothing.
SequentialUnlessHasty == G!SequentialUnlessHasty

\* Without NO_ORDER a program leaves in the heap what it leaves there if every
\* pthread_create is replaced by a call of the function.
SequentialResult ==
  (\A p \in Procs : phase[p] \in {"unborn", "exited"}) => heap = SerialOutcome(program)

\* The program comes to its end: no rollback for ever, no mutex that a process
\* waits for.
Completes == <>(\A p \in Procs : phase[p] \in {"unborn", "exited"})

=============================================================================
