---------------------------- MODULE SystemProofs ----------------------------
(***************************************************************************)
(* Theorems about System, for the programs of ExamplePrograms with any     *)
(* number of threads, any number of processes and any layout of the heap:  *)
(* a section that cannot commit is one that another process has overtaken; *)
(* every step is one of GThread, so that without NO_ORDER the order of the *)
(* serial program is kept; no increment of a counter is lost or made       *)
(* twice; of the two threads of order_violation.cc one comes first; the    *)
(* checks that the programs make at their end pass; and what a program     *)
(* leaves in the heap is what it leaves there without threads.             *)
(***************************************************************************)
EXTENDS System, FiniteSetTheorems, TLAPS

Functions ==
  /\ phase = [p \in Procs |-> phase[p]]
  /\ conflict = [p \in Procs |-> conflict[p]]
  /\ newer = [p \in Procs |-> newer[p]]

\* What has changed since the snapshot of an open section was committed by
\* another process, be it in what the section has read or not.
ChangesAreConflicts ==
  \A p \in Procs : phase[p] \in G!Open /\ newer[p] # {} => conflict[p]

IInv == Functions /\ ChangesAreConflicts

LEMMA InitInvariant == Init => IInv
BY DEF Init, G!Init, IInv, Functions, ChangesAreConflicts

\* A step that begins no section and commits none: a process changes its phase
\* at most, and to one of an open section only from another.
LEMMA PhaseStep ==
  ASSUME IInv, NEW p \in Procs, NEW to,
         phase' = [phase EXCEPT ![p] = to],
         to \in G!Open => phase[p] \in G!Open,
         UNCHANGED <<conflict, newer>>
  PROVE  IInv'
<1>1. Functions'
  BY DEF IInv, Functions
<1>2. ChangesAreConflicts'
  <2> SUFFICES ASSUME NEW q \in Procs, phase'[q] \in G!Open, newer'[q] # {}
               PROVE  conflict'[q]
    BY DEF ChangesAreConflicts
  <2>1. phase[q] \in G!Open
    BY DEF IInv, Functions
  <2>. QED
    BY <2>1 DEF IInv, ChangesAreConflicts
<1>. QED
  BY <1>1, <1>2 DEF IInv

\* A step that begins a section for some processes leaves the others alone.
LEMMA BeginStep ==
  ASSUME IInv, NEW ps \in SUBSET Procs, AtomicBegin(ps), Functions',
         \A q \in Procs \ ps : phase'[q] = phase[q] /\ conflict'[q] = conflict[q]
  PROVE  IInv'
<1>1. ChangesAreConflicts'
  <2> SUFFICES ASSUME NEW q \in Procs, phase'[q] \in G!Open, newer'[q] # {}
               PROVE  conflict'[q]
    BY DEF ChangesAreConflicts
  <2>1. newer' = [r \in Procs |-> IF r \in ps THEN {} ELSE newer[r]]
    BY DEF AtomicBegin
  <2>2. q \notin ps /\ newer'[q] = newer[q]
    BY <2>1
  <2>. QED
    BY <2>2 DEF IInv, ChangesAreConflicts
<1>. QED
  BY <1>1 DEF IInv

LEMMA ProgramStepInvariant ==
  ASSUME IInv, NEW p \in Procs, ProgramStep(p)
  PROVE  IInv'
<1>1. UNCHANGED <<phase, conflict, newer>>
  BY DEF ProgramStep, LoadStep, StoreStep, SkipStep, RequireStep, MutexStep,
         Fault, G!Touch, gvars, heapVars
<1>. QED
  BY <1>1 DEF IInv, Functions, ChangesAreConflicts

LEMMA CallingInvariant ==
  ASSUME IInv, NEW p \in Procs, Calling(p)
  PROVE  IInv'
<1>1. UNCHANGED newer
  BY DEF Calling, heapVars
<1>2. ASSUME NEW r \in Procs, NEW what, G!EndSection(r, what)
      PROVE  IInv'
  <2>1. /\ phase[r] = "running"
        /\ phase' = [phase EXCEPT ![r] = IF touched[r] THEN "waiting" ELSE "ended"]
        /\ UNCHANGED conflict
    BY <1>2 DEF G!EndSection, G!Goto, G!sectionVars
  <2>. QED
    BY <2>1, <1>1, PhaseStep DEF G!Open
<1>3. CASE G!CallCreate(p)
  BY <1>2, <1>3 DEF G!CallCreate
<1>4. CASE \E t \in Procs : G!CallJoin(p, t)
  BY <1>2, <1>4 DEF G!CallJoin
<1>5. CASE G!CallExit(p)
  BY <1>2, <1>5 DEF G!CallExit
<1>6. CASE p = Root /\ G!WrappedMain
  BY <1>2, <1>6 DEF G!WrappedMain
<1>. QED
  BY <1>3, <1>4, <1>5, <1>6 DEF Calling

LEMMA CommitInvariant ==
  ASSUME IInv, NEW p \in Procs, Commit(p)
  PROVE  IInv'
<1>1. /\ phase[p] = "validating"
      /\ phase' = [phase EXCEPT ![p] = "ended"]
      /\ conflict' = [q \in Procs |-> IF q # p /\ phase[q] \in G!Open THEN TRUE ELSE conflict[q]]
      /\ newer' = [q \in Procs |-> IF q = p THEN newer[q] ELSE newer[q] \cup writes[p]]
  BY DEF Commit, G!Commit, G!Goto
<1>2. Functions'
  BY <1>1 DEF IInv, Functions
<1>3. ChangesAreConflicts'
  <2> SUFFICES ASSUME NEW q \in Procs, phase'[q] \in G!Open, newer'[q] # {}
               PROVE  conflict'[q]
    BY DEF ChangesAreConflicts
  <2>1. q # p /\ phase[q] \in G!Open
    BY <1>1 DEF IInv, Functions, G!Open
  <2>. QED
    BY <1>1, <2>1
<1>. QED
  BY <1>2, <1>3 DEF IInv

LEMMA RollbackInvariant ==
  ASSUME IInv, NEW p \in Procs, Rollback(p)
  PROVE  IInv'
<1>1. /\ phase' = [phase EXCEPT ![p] = "running"]
      /\ conflict' = [conflict EXCEPT ![p] = FALSE]
      /\ AtomicBegin({p})
  BY DEF Rollback, G!Rollback, G!Goto, G!Begin
<1>2. Functions'
  BY <1>1 DEF IInv, Functions, AtomicBegin
<1>3. \A q \in Procs \ {p} : phase'[q] = phase[q] /\ conflict'[q] = conflict[q]
  BY <1>1 DEF IInv, Functions
<1>. QED
  BY <1>1, <1>2, <1>3, BeginStep

LEMMA ForkInvariant ==
  ASSUME IInv, NEW p \in Procs, NEW c \in Procs, Fork(p, c)
  PROVE  IInv'
<1>1. /\ phase' = [phase EXCEPT ![p] = "running", ![c] = "running"]
      /\ conflict' = [conflict EXCEPT ![p] = FALSE]
      /\ AtomicBegin({p, c})
  BY DEF Fork, G!Fork, G!Begin
<1>2. Functions'
  BY <1>1 DEF IInv, Functions, AtomicBegin
<1>3. \A q \in Procs \ {p, c} : phase'[q] = phase[q] /\ conflict'[q] = conflict[q]
  BY <1>1 DEF IInv, Functions
<1>. QED
  BY <1>1, <1>2, <1>3, BeginStep

LEMMA JoinReturnsInvariant ==
  ASSUME IInv, NEW p \in Procs, JoinReturns(p)
  PROVE  IInv'
<1>1. /\ phase' = [phase EXCEPT ![p] = "running"]
      /\ conflict' = [conflict EXCEPT ![p] = FALSE]
      /\ AtomicBegin({p})
  BY DEF JoinReturns, G!JoinReturns, G!Goto, G!Begin
<1>2. Functions'
  BY <1>1 DEF IInv, Functions, AtomicBegin
<1>3. \A q \in Procs \ {p} : phase'[q] = phase[q] /\ conflict'[q] = conflict[q]
  BY <1>1 DEF IInv, Functions
<1>. QED
  BY <1>1, <1>2, <1>3, BeginStep

LEMMA LibraryInvariant ==
  ASSUME IInv, NEW p \in Procs, Library(p)
  PROVE  IInv'
<1>1. CASE PredecessorExited(p)
  <2>1. /\ phase[p] = "waiting"
        /\ phase' = [phase EXCEPT ![p] = "validating"]
        /\ UNCHANGED <<conflict, newer>>
    BY <1>1 DEF PredecessorExited, G!PredecessorExited, G!Goto, G!sectionVars, heapVars
  <2>. QED
    BY <2>1, PhaseStep DEF G!Open
<1>2. CASE Exit(p)
  <2>1. /\ phase' = [phase EXCEPT ![p] = "exited"]
        /\ UNCHANGED <<conflict, newer>>
    BY <1>2 DEF Exit, G!Exit, G!Leave, G!Goto, G!sectionVars, heapVars
  <2>. QED
    BY <2>1, PhaseStep DEF G!Open
<1>. QED
  BY <1>1, <1>2, CommitInvariant, RollbackInvariant, ForkInvariant, JoinReturnsInvariant
     DEF Library

\* A section finds its reads changed only if another process has committed
\* since AtomicBegin took its snapshot (gthread.cc:73, gstm.cc:179): no rollback
\* has the section itself, or a commit from before it, for a cause.
THEOREM RollbacksHaveACause == Spec => []RollbacksExplained
<1>1. IInv /\ [Next]_vars => IInv'
  <2> SUFFICES ASSUME IInv, [Next]_vars PROVE IInv'
    OBVIOUS
  <2>1. CASE UNCHANGED <<phase, conflict, newer>>
    BY <2>1 DEF IInv, Functions, ChangesAreConflicts
  <2>2. CASE UNCHANGED vars
    BY <2>1, <2>2 DEF vars, gvars, heapVars
  <2>. QED
    BY <2>1, <2>2, ProgramStepInvariant, CallingInvariant, LibraryInvariant
       DEF Next, Terminated
<1>2. IInv => RollbacksExplained
  BY DEF IInv, ChangesAreConflicts, RollbacksExplained, Consistent
<1>. QED
  BY <1>1, <1>2, InitInvariant, PTL DEF Spec

-----------------------------------------------------------------------------
(* Every step of the whole is one of GThread, or none *)

LEMMA ProgramStepMaps ==
  ASSUME NEW p \in Procs, ProgramStep(p)
  PROVE  [G!Next]_(G!vars)
<1>1. UNCHANGED gvars => UNCHANGED G!vars
  BY DEF gvars, G!vars, G!sectionVars, G!familyVars, G!threadVars
<1>2. G!Touch(p) => G!Next
  BY DEF G!Next
<1>. QED
  BY <1>1, <1>2 DEF ProgramStep, LoadStep, StoreStep, SkipStep, RequireStep, MutexStep, Fault

LEMMA CallingMaps ==
  ASSUME NEW p \in Procs, Calling(p)
  PROVE  G!Next
<1>1. G!Calling(p)
  BY DEF Calling, G!Calling
<1>. QED
  BY <1>1 DEF G!Next

LEMMA LibraryMaps ==
  ASSUME NEW p \in Procs, Library(p)
  PROVE  G!Next
<1>1. G!Library(p)
  BY DEF Library, PredecessorExited, Commit, Rollback, Fork, JoinReturns, Exit, G!Library
<1>. QED
  BY <1>1 DEF G!Next

\* A program on its heap does to its threads only what GThread does
\* (libgthread.hh, gthread.cc): what is proved of GThread holds of it.
THEOREM StepsOfGThread == Spec => G!Spec
<1>1. Init => G!Init
  BY DEF Init
<1>2. [Next]_vars => [G!Next]_(G!vars)
  <2> SUFFICES ASSUME [Next]_vars PROVE [G!Next]_(G!vars)
    OBVIOUS
  <2>1. CASE UNCHANGED vars
    BY <2>1 DEF vars, gvars, G!vars, G!sectionVars, G!familyVars, G!threadVars
  <2>. QED
    BY <2>1, ProgramStepMaps, CallingMaps, LibraryMaps DEF Next, Terminated
<1>. QED
  BY <1>1, <1>2, PTL DEF Spec, G!Spec

-----------------------------------------------------------------------------
(* What is proved of GThread is at hand: GThreadProofs has the same threads *)

\* The same module twice, once with its theorems: what G and GP define is the
\* same, which the provers have to be told.
GP == INSTANCE GThreadProofs WITH ForeignJoin <- FALSE, ForkJoin <- FALSE, Faults <- FALSE

LEMMA SameVars == G!vars = GP!vars
BY DEF G!vars, G!sectionVars, G!familyVars, G!threadVars,
       GP!vars, GP!sectionVars, GP!familyVars, GP!threadVars

LEMMA SameEnd ==
  ASSUME NEW p, NEW what
  PROVE  G!EndSection(p, what) <=> GP!EndSection(p, what)
BY DEF G!EndSection, G!Goto, G!sectionVars, G!familyVars, G!threadVars,
       GP!EndSection, GP!Goto, GP!sectionVars, GP!familyVars, GP!threadVars

LEMMA SameCalling ==
  ASSUME NEW p \in Procs, G!Calling(p)
  PROVE  GP!Calling(p)
<1>0. G!Room(p) <=> GP!Room(p)
  BY Zenon DEF G!Room, GP!Room, G!Cardinality, GP!Cardinality
<1>1. G!CallCreate(p) => GP!CallCreate(p)
  BY SameEnd, <1>0, Zenon DEF G!CallCreate, GP!CallCreate
<1>2. G!CallExit(p) => GP!CallExit(p)
  BY SameEnd, Zenon DEF G!CallExit, GP!CallExit, G!Children, GP!Children
<1>3. ASSUME NEW t \in Procs PROVE G!CallJoin(p, t) => GP!CallJoin(p, t)
  BY SameEnd, Zenon DEF G!CallJoin, GP!CallJoin
<1>4. G!WrappedMain => GP!WrappedMain
  BY SameEnd, Zenon DEF G!WrappedMain, GP!WrappedMain, G!Children, GP!Children
<1>. QED
  BY <1>1, <1>2, <1>3, <1>4 DEF G!Calling, GP!Calling

LEMMA SameOthers ==
  ASSUME NEW p \in Procs
  PROVE  /\ G!Touch(p) => GP!Touch(p)
         /\ G!InitReaps(p) => GP!InitReaps(p)
         /\ G!RealSegfault(p) => GP!RealSegfault(p)
<1>1. G!Touch(p) => GP!Touch(p)
  BY Zenon DEF G!Touch, GP!Touch, G!familyVars, GP!familyVars, G!threadVars, GP!threadVars
<1>2. G!InitReaps(p) => GP!InitReaps(p)
  BY Zenon DEF G!InitReaps, GP!InitReaps, G!sectionVars, GP!sectionVars, G!threadVars, GP!threadVars
<1>3. G!RealSegfault(p) => GP!RealSegfault(p)
  BY DEF G!RealSegfault
<1>. QED
  BY <1>1, <1>2, <1>3

LEMMA SameLibrary ==
  ASSUME NEW p \in Procs, G!Library(p)
  PROVE  GP!Library(p)
<1>1. G!PredecessorExited(p) <=> GP!PredecessorExited(p)
  BY DEF G!PredecessorExited, G!WaitExited, G!Goto, G!sectionVars, G!threadVars,
         GP!PredecessorExited, GP!WaitExited, GP!Goto, GP!sectionVars, GP!threadVars
<1>2. G!Commit(p) <=> GP!Commit(p)
  BY DEF G!Commit, G!Goto, G!Open, G!familyVars, G!threadVars,
         GP!Commit, GP!Goto, GP!Open, GP!familyVars, GP!threadVars
<1>3. G!Rollback(p) <=> GP!Rollback(p)
  BY DEF G!Rollback, G!Goto, G!Begin, G!PushBack, G!NoCall, G!familyVars,
         GP!Rollback, GP!Goto, GP!Begin, GP!PushBack, GP!NoCall, GP!familyVars
<1>4. ASSUME NEW c \in Procs PROVE G!Fork(p, c) <=> GP!Fork(p, c)
  BY DEF G!Fork, G!Begin, G!PushBack, G!NoCall, G!ChildPredecessor,
         GP!Fork, GP!Begin, GP!PushBack, GP!NoCall, GP!ChildPredecessor
<1>5. G!Leave(p) <=> GP!Leave(p)
  BY DEF G!Leave, G!Goto, G!NoCall, G!sectionVars, G!familyVars, G!threadVars,
         GP!Leave, GP!Goto, GP!NoCall, GP!sectionVars, GP!familyVars, GP!threadVars
<1>6. G!JoinReturns(p) <=> GP!JoinReturns(p)
  BY DEF G!JoinReturns, G!WaitExited, G!Joinee, G!Goto, G!Begin, G!NoCall,
         GP!JoinReturns, GP!WaitExited, GP!Joinee, GP!Goto, GP!Begin, GP!NoCall
<1>. QED
  BY <1>1, <1>2, <1>3, <1>4, <1>5, <1>6
     DEF G!Library, G!ForkFails, G!Exit, GP!Library, GP!ForkFails, GP!Exit

LEMMA SameInit == G!Init => GP!Init
BY DEF G!Init, GP!Init, G!NoCall, GP!NoCall

LEMMA SameNext == [G!Next]_(G!vars) => [GP!Next]_(GP!vars)
<1>1. G!Terminated => GP!Terminated
  BY SameVars DEF G!Terminated, GP!Terminated, G!vars, G!sectionVars, G!familyVars, G!threadVars,
       GP!vars, GP!sectionVars, GP!familyVars, GP!threadVars
<1>2. G!Next => GP!Next
  BY <1>1, SameLibrary, SameCalling, SameOthers DEF G!Next, GP!Next
<1>3. UNCHANGED G!vars => UNCHANGED GP!vars
  BY DEF G!vars, G!sectionVars, G!familyVars, G!threadVars,
       GP!vars, GP!sectionVars, GP!familyVars, GP!threadVars
<1>. QED
  BY <1>2, <1>3

LEMMA SameSpec == G!Spec => GP!Spec
BY SameInit, SameNext, PTL DEF G!Spec, GP!Spec

LEMMA ThreadsAssumption == GP!GThreadAssumption
BY SystemAssumption DEF GP!GThreadAssumption

LEMMA SameOrder == GP!SequentialUnlessHasty => G!SequentialUnlessHasty
<1>1. [\A p \in Procs :
       phase[p] = "validating" /\ phase'[p] = "ended" =>
         \A q \in before[p] : phase[q] = "exited" \/ before[p] \cap hasty # {}]_(GP!vars)
   => [\A p \in Procs :
       phase[p] = "validating" /\ phase'[p] = "ended" =>
         \A q \in before[p] : phase[q] = "exited" \/ before[p] \cap hasty # {}]_(G!vars)
  BY DEF G!vars, G!sectionVars, G!familyVars, G!threadVars,
       GP!vars, GP!sectionVars, GP!familyVars, GP!threadVars
<1>. QED
  BY <1>1, PTL DEF GP!SequentialUnlessHasty, G!SequentialUnlessHasty

\* Without NO_ORDER, a thread of a program commits after every thread that the
\* serial program would have run before it has exited, unless one of those was
\* hasty: WaitExited before the validation (gthread.cc:100), in whatever
\* program and however its sections conflict.
THEOREM ProgramsAreOrdered ==
  ASSUME ~NoOrder
  PROVE  Spec => SequentialUnlessHasty
<1>1. GP!Spec => GP!SequentialUnlessHasty
  BY ThreadsAssumption, GP!SerialOrder
<1>. QED
  BY <1>1, StepsOfGThread, SameSpec, SameOrder DEF SequentialUnlessHasty

\* What the proofs use of GThread.
Threads ==
  /\ phase \in [Procs -> G!Phases]
  /\ touched \in [Procs -> BOOLEAN]
  /\ parent \in [Procs -> Procs \cup {NoPid}]
  /\ call = [p \in Procs |-> call[p]]
  /\ \A c \in Procs : phase[c] = "unborn" => parent[c] = NoPid

LEMMA ThreadsKnown == Spec => []Threads
<1>1. GP!IInv /\ GP!FamilyInv => Threads
  BY DEF GP!IInv, GP!TypeOK, GP!Phases, G!Phases, GP!FamilyInv, GP!UnbornUnrelated, Threads
<1>2. GP!Spec => []GP!IInv
  BY ThreadsAssumption, GP!InductiveInvariant
<1>3. GP!Spec => []GP!FamilyInv
  BY ThreadsAssumption, GP!FamilyInvariant
<1>. QED
  BY <1>1, <1>2, <1>3, StepsOfGThread, SameSpec, PTL

-----------------------------------------------------------------------------
(* The code of the programs *)

\* What a thread function can consist of, in a program with functions fs.
Operations(fs) ==
  [op : {"load", "increment"}, at : Objects]
    \cup [op : {"put", "put_if", "require"}, at : Objects, val : Nat]
    \cup [op : {"create"}, fn : fs \ {"main"}]
    \cup [op : {"join"}, index : Nat]
    \cup [op : {"lock", "unlock"}]

\* A counter is loaded just before it is incremented.
LoadsFirst(s) ==
  \A i \in 1..Len(s), o \in Objects :
    s[i] = Increment(o) => i > 1 /\ s[i - 1] = Load(o)

PutsNothing(s) == \A i \in 1..Len(s) : s[i].op \notin {"put", "put_if"}

PutsZeros(s) ==
  \A i \in 1..Len(s) :
    /\ s[i].op # "put_if"
    /\ s[i].op = "put" => s[i].val = 0 /\ \A j \in 1..(i - 1) : s[j].op = "put"

LEMMA ConcatLoadsFirst ==
  ASSUME NEW X, NEW s \in Seq(X), NEW t \in Seq(X), LoadsFirst(s), LoadsFirst(t)
  PROVE  s \o t \in Seq(X) /\ LoadsFirst(s \o t)
<1> SUFFICES ASSUME NEW i \in 1..Len(s \o t), NEW o \in Objects, (s \o t)[i] = Increment(o)
             PROVE  i > 1 /\ (s \o t)[i - 1] = Load(o)
  BY DEF LoadsFirst
<1>1. CASE i \in 1..Len(s)
  <2>1. s[i] = Increment(o)
    BY <1>1
  <2>. QED
    BY <1>1, <2>1 DEF LoadsFirst
<1>2. CASE i - Len(s) \in 1..Len(t)
  <2>1. t[i - Len(s)] = Increment(o)
    BY <1>2
  <2>2. i - Len(s) > 1 /\ t[i - Len(s) - 1] = Load(o)
    BY <1>2, <2>1 DEF LoadsFirst
  <2>. QED
    BY <1>2, <2>2
<1>. QED
  BY <1>1, <1>2

LEMMA ConcatPuts ==
  ASSUME NEW X, NEW s \in Seq(X), NEW t \in Seq(X), PutsNothing(t)
  PROVE  /\ PutsNothing(s) => PutsNothing(s \o t)
         /\ PutsZeros(s) => PutsZeros(s \o t)
<1>1. \A i \in 1..Len(s) : (s \o t)[i] = s[i]
  OBVIOUS
<1>2. \A i \in 1..Len(s \o t) : i \notin 1..Len(s) => (s \o t)[i].op \notin {"put", "put_if"}
  <2> SUFFICES ASSUME NEW i \in 1..Len(s \o t), i \notin 1..Len(s)
               PROVE  (s \o t)[i].op \notin {"put", "put_if"}
    OBVIOUS
  <2>1. i - Len(s) \in 1..Len(t) /\ (s \o t)[i] = t[i - Len(s)]
    OBVIOUS
  <2>. QED
    BY <2>1 DEF PutsNothing
<1>3. ASSUME PutsNothing(s) PROVE PutsNothing(s \o t)
  BY <1>1, <1>2, <1>3 DEF PutsNothing
<1>4. ASSUME PutsZeros(s) PROVE PutsZeros(s \o t)
  <2> SUFFICES ASSUME NEW i \in 1..Len(s \o t)
               PROVE  /\ (s \o t)[i].op # "put_if"
                      /\ (s \o t)[i].op = "put" =>
                            (s \o t)[i].val = 0 /\ \A j \in 1..(i - 1) : (s \o t)[j].op = "put"
    BY DEF PutsZeros
  <2>1. CASE i \in 1..Len(s)
    <3>1. \A j \in 1..(i - 1) : j \in 1..Len(s)
      BY <2>1
    <3>. QED
      BY <1>1, <1>4, <2>1, <3>1 DEF PutsZeros
  <2>. QED
    BY <2>1, <1>2
<1>. QED
  BY <1>3, <1>4

LEMMA Distinct ==
  \A o, q \in Objects :
    /\ Load(o) # Increment(q)
    /\ Increment(o) = Increment(q) => o = q
    /\ Load(o).op = "load" /\ Load(o).at = o
    /\ Increment(o).op = "increment" /\ Increment(o).at = o
<1>1. \A o : Load(o).op = "load" /\ Load(o).at = o
  BY DEF Load
<1>2. \A o : Increment(o).op = "increment" /\ Increment(o).at = o
  BY DEF Increment
<1>3. "load" # "increment"
  OBVIOUS
<1>. QED
  BY <1>1, <1>2, <1>3

LEMMA IncrementAllLoadsFirst ==
  ASSUME NEW fs, NEW objs \in Seq(Objects)
  PROVE  /\ IncrementAll(objs) \in Seq(Operations(fs))
         /\ LoadsFirst(IncrementAll(objs)) /\ PutsNothing(IncrementAll(objs))
<1> DEFINE s == IncrementAll(objs)
<1>0. \A o \in Objects : Load(o) \in Operations(fs) /\ Increment(o) \in Operations(fs)
  BY DEF Load, Increment, Operations
<1>1. ASSUME NEW i \in 1..(2 * Len(objs))
      PROVE \/ \E o \in Objects : s[i] = Load(o)
            \/ \E o \in Objects : i > 1 /\ s[i] = Increment(o) /\ s[i - 1] = Load(o)
  <2>1. CASE i % 2 = 1
    <3>1. (i + 1) \div 2 \in 1..Len(objs) /\ s[i] = Load(objs[(i + 1) \div 2])
      BY <2>1 DEF IncrementAll
    <3>. QED
      BY <3>1
  <2>2. CASE i % 2 = 0
    <3>1. /\ i - 1 \in 1..(2 * Len(objs)) /\ (i - 1) % 2 = 1 /\ ((i - 1) + 1) \div 2 = i \div 2
          /\ i \div 2 \in 1..Len(objs)
      BY <2>2
    <3>2. i > 1 /\ s[i] = Increment(objs[i \div 2]) /\ s[i - 1] = Load(objs[i \div 2])
      BY <2>2, <3>1 DEF IncrementAll
    <3>. QED
      BY <3>1, <3>2
  <2>. QED
    BY <2>1, <2>2
<1>2. s = [i \in 1..(2 * Len(objs)) |-> s[i]]
  BY DEF IncrementAll
<1> HIDE DEF s
<1>3. \A i \in 1..(2 * Len(objs)) : s[i] \in Operations(fs) /\ s[i].op \notin {"put", "put_if"}
  <2> TAKE i \in 1..(2 * Len(objs))
  <2>1. PICK o \in Objects : s[i] = Load(o) \/ s[i] = Increment(o)
    BY <1>1
  <2>2. s[i].op \in {"load", "increment"}
    BY <2>1, Distinct
  <2>. QED
    BY <1>0, <2>1, <2>2
<1>4. s \in Seq(Operations(fs)) /\ Len(s) = 2 * Len(objs)
  BY <1>2, <1>3
<1>5. LoadsFirst(s)
  <2> SUFFICES ASSUME NEW i \in 1..(2 * Len(objs)), NEW o \in Objects, s[i] = Increment(o)
               PROVE  i > 1 /\ s[i - 1] = Load(o)
    BY <1>4 DEF LoadsFirst
  <2>. QED
    BY <1>1, Distinct
<1>6. PutsNothing(s)
  BY <1>3, <1>4 DEF PutsNothing
<1>. QED
  BY <1>4, <1>5, <1>6 DEF s

\* The other parts load and increment nothing.
LEMMA OtherParts ==
  ASSUME NEW fs, NEW n \in Nat, NEW v \in Nat, NEW objs \in Seq(Objects)
  PROVE  /\ PutAll(objs, v) \in Seq(Operations(fs)) /\ LoadsFirst(PutAll(objs, v))
         /\ PutsZeros(PutAll(objs, 0))
         /\ RequireAll(objs, v) \in Seq(Operations(fs))
         /\ LoadsFirst(RequireAll(objs, v)) /\ PutsNothing(RequireAll(objs, v))
         /\ \A f \in fs \ {"main"} : /\ CreateAll(n, f) \in Seq(Operations(fs))
                                   /\ LoadsFirst(CreateAll(n, f))
                                   /\ PutsNothing(CreateAll(n, f))
         /\ JoinAll(n) \in Seq(Operations(fs))
         /\ LoadsFirst(JoinAll(n)) /\ PutsNothing(JoinAll(n))
<1>1. ASSUME NEW s, NEW m \in Nat, NEW what \in {"put", "require", "create", "join"},
             s = [i \in 1..m |-> s[i]],
             \A i \in 1..m : s[i] \in Operations(fs) /\ s[i].op = what
      PROVE  /\ s \in Seq(Operations(fs)) /\ Len(s) = m /\ LoadsFirst(s)
             /\ what # "put" => PutsNothing(s)
  <2>1. s \in Seq(Operations(fs)) /\ Len(s) = m
    BY <1>1
  <2>2. LoadsFirst(s)
    BY <1>1, <2>1, Distinct DEF LoadsFirst
  <2>3. what # "put" => PutsNothing(s)
    BY <1>1, <2>1 DEF PutsNothing
  <2>. QED
    BY <2>1, <2>2, <2>3
<1>2. \A o \in Objects, w \in Nat : /\ Put(o, w) \in Operations(fs)
                                    /\ Put(o, w).op = "put" /\ Put(o, w).val = w
  BY DEF Operations, Put
<1>3. \A o \in Objects, w \in Nat : Require(o, w) \in Operations(fs) /\ Require(o, w).op = "require"
  BY DEF Operations, Require
<1>4. \A f \in fs \ {"main"} : Create(f) \in Operations(fs) /\ Create(f).op = "create"
  BY DEF Operations, Create
<1>5. \A i \in Nat : Join(i) \in Operations(fs) /\ Join(i).op = "join"
  BY DEF Operations, Join
<1>6. ASSUME NEW w \in Nat
      PROVE  /\ PutAll(objs, w) \in Seq(Operations(fs)) /\ Len(PutAll(objs, w)) = Len(objs)
             /\ LoadsFirst(PutAll(objs, w))
  <2>1. PutAll(objs, w) = [i \in 1..Len(objs) |-> PutAll(objs, w)[i]]
    BY DEF PutAll
  <2>2. \A i \in 1..Len(objs) : PutAll(objs, w)[i] \in Operations(fs) /\ PutAll(objs, w)[i].op = "put"
    BY <1>2 DEF PutAll
  <2>3. Len(objs) \in Nat
    OBVIOUS
  <2>. QED
    BY <1>1, <2>1, <2>2, <2>3
<1>7. PutsZeros(PutAll(objs, 0))
  <2>1. \A i \in 1..Len(objs) : PutAll(objs, 0)[i].op = "put" /\ PutAll(objs, 0)[i].val = 0
    BY <1>2 DEF PutAll
  <2>. QED
    BY <1>6, <2>1 DEF PutsZeros
<1>8. RequireAll(objs, v) \in Seq(Operations(fs)) /\ LoadsFirst(RequireAll(objs, v)) /\ PutsNothing(RequireAll(objs, v))
  <2>1. RequireAll(objs, v) = [i \in 1..Len(objs) |-> RequireAll(objs, v)[i]]
    BY DEF RequireAll
  <2>2. \A i \in 1..Len(objs) : RequireAll(objs, v)[i] \in Operations(fs) /\ RequireAll(objs, v)[i].op = "require"
    BY <1>3 DEF RequireAll
  <2>3. Len(objs) \in Nat
    OBVIOUS
  <2>. QED
    BY <1>1, <2>1, <2>2, <2>3
<1>9. ASSUME NEW f \in fs \ {"main"}
      PROVE  CreateAll(n, f) \in Seq(Operations(fs)) /\ LoadsFirst(CreateAll(n, f)) /\ PutsNothing(CreateAll(n, f))
  <2>1. CreateAll(n, f) = [i \in 1..n |-> CreateAll(n, f)[i]]
    BY DEF CreateAll
  <2>2. \A i \in 1..n : CreateAll(n, f)[i] \in Operations(fs) /\ CreateAll(n, f)[i].op = "create"
    BY <1>4 DEF CreateAll
  <2>. QED
    BY <1>1, <2>1, <2>2
<1>10. JoinAll(n) \in Seq(Operations(fs)) /\ LoadsFirst(JoinAll(n)) /\ PutsNothing(JoinAll(n))
  <2>1. JoinAll(n) = [i \in 1..n |-> JoinAll(n)[i]]
    BY DEF JoinAll
  <2>2. \A i \in 1..n : JoinAll(n)[i] \in Operations(fs) /\ JoinAll(n)[i].op = "join"
    BY <1>5 DEF JoinAll
  <2>. QED
    BY <1>1, <2>1, <2>2
<1>. QED
  BY <1>6, <1>7, <1>8, <1>9, <1>10
-----------------------------------------------------------------------------
\* What NoUpdateLost needs of the code of a thread function f.
Tame(s, f, fs) ==
  /\ s \in Seq(Operations(fs))
  /\ LoadsFirst(s)
  /\ f = "main" => PutsZeros(s)
  /\ f # "main" => PutsNothing(s)

LEMMA TameConcat ==
  ASSUME NEW f, NEW fs, NEW s, NEW t, Tame(s, f, fs),
         t \in Seq(Operations(fs)), LoadsFirst(t), PutsNothing(t)
  PROVE  Tame(s \o t, f, fs)
BY ConcatLoadsFirst, ConcatPuts, Zenon DEF Tame

LEMMA MutexParts ==
  ASSUME NEW fs
  PROVE  /\ <<Lock>> \in Seq(Operations(fs)) /\ LoadsFirst(<<Lock>>) /\ PutsNothing(<<Lock>>)
         /\ <<Unlock>> \in Seq(Operations(fs)) /\ LoadsFirst(<<Unlock>>) /\ PutsNothing(<<Unlock>>)
<1>1. /\ Lock \in Operations(fs) /\ Lock.op = "lock"
      /\ Unlock \in Operations(fs) /\ Unlock.op = "unlock"
  BY DEF Operations, Lock, Unlock
<1>2. ASSUME NEW x \in Operations(fs), x.op \in {"lock", "unlock"}
      PROVE  <<x>> \in Seq(Operations(fs)) /\ LoadsFirst(<<x>>) /\ PutsNothing(<<x>>)
  BY <1>2, Distinct DEF LoadsFirst, PutsNothing
<1>. QED
  BY <1>1, <1>2

LEMMA SerialTame ==
  ASSUME NEW fs
  PROVE Tame(serial_main, "main", fs)
<1> DEFINE s == IncrementAll(Blob)
           n == 2 * Len(Blob)
           t == [i \in 1..(n * ThreadNum) |-> s[1 + ((i - 1) % n)]]
<1>1. Blob \in Seq(Objects) /\ Len(Blob) = 3
  BY DEF Blob, Objects
<1>2. s \in Seq(Operations(fs)) /\ LoadsFirst(s) /\ PutsNothing(s)
  BY <1>1, IncrementAllLoadsFirst
<1>3. Len(s) = n /\ n = 6
  BY <1>1 DEF IncrementAll
<1>4. n * ThreadNum \in Nat
  BY <1>3, ProgramsAssumption
<1>5. \A i \in 1..(n * ThreadNum) : 1 + ((i - 1) % n) \in 1..n
  BY <1>3, <1>4
<1> HIDE DEF s
<1>6. t \in Seq(Operations(fs)) /\ Len(t) = n * ThreadNum
  BY <1>2, <1>3, <1>4, <1>5
<1>7. LoadsFirst(t)
  <2> SUFFICES ASSUME NEW i \in 1..(n * ThreadNum), NEW o \in Objects, t[i] = Increment(o)
               PROVE  i > 1 /\ t[i - 1] = Load(o)
    BY <1>6 DEF LoadsFirst
  <2> DEFINE k == 1 + ((i - 1) % n)
  <2>1. k \in 1..n /\ s[k] = Increment(o)
    BY <1>5
  <2>2. k > 1 /\ s[k - 1] = Load(o)
    BY <1>2, <1>3, <2>1 DEF LoadsFirst
  <2>3. i > 1 /\ i - 1 \in 1..(n * ThreadNum) /\ 1 + ((i - 1 - 1) % n) = k - 1
    BY <1>3, <1>4, <2>2
  <2>. QED
    BY <2>2, <2>3
<1>8. PutsNothing(t)
  BY <1>2, <1>3, <1>5, <1>6 DEF PutsNothing
<1>9. /\ PutAll(Blob, 0) \in Seq(Operations(fs)) /\ LoadsFirst(PutAll(Blob, 0))
      /\ PutsZeros(PutAll(Blob, 0))
      /\ serial_verify \in Seq(Operations(fs)) /\ LoadsFirst(serial_verify)
      /\ PutsNothing(serial_verify)
  <2>1. ThreadNum \in Nat
    BY ProgramsAssumption
  <2>. QED
    BY <1>1, <2>1, OtherParts DEF serial_verify
<1>10. Tame(PutAll(Blob, 0) \o t, "main", fs)
  BY <1>6, <1>7, <1>8, <1>9, TameConcat DEF Tame
<1>. QED
  BY <1>9, <1>10, TameConcat DEF serial_main, s
LEMMA CodeTame ==
  ASSUME NEW name \in DOMAIN Code, name # "order_violation", NEW f \in DOMAIN Code[name]
  PROVE  Tame(Code[name][f], f, DOMAIN Code[name])
<1> DEFINE fs == DOMAIN Code[name]
           Part(s) == s \in Seq(Operations(fs)) /\ LoadsFirst(s) /\ PutsNothing(s)
<1>1. Blob \in Seq(Objects) /\ Pair \in Seq(Objects)
  BY DEF Blob, Pair, Objects
<1>2. /\ ThreadNum \in Nat /\ SecondaryThreadNum \in Nat
      /\ ThreadNum * (SecondaryThreadNum + 1) \in Nat
  BY ProgramsAssumption
<1>p. \A objs \in Seq(Objects), n, v \in Nat :
         /\ Part(RequireAll(objs, v)) /\ Part(JoinAll(n)) /\ Tame(PutAll(objs, 0), "main", fs)
         /\ \A g \in fs \ {"main"} : Part(CreateAll(n, g))
  BY OtherParts DEF Tame
<1>3. /\ \A objs \in Seq(Objects) : Part(IncrementAll(objs))
      /\ \A objs \in Seq(Objects), v \in Nat : Part(RequireAll(objs, v))
      /\ \A v \in Nat, g \in fs \ {"main"} : Part(CreateAll(v, g))
  <2>1. \A objs \in Seq(Objects) : Part(IncrementAll(objs))
    BY IncrementAllLoadsFirst
  <2> HIDE DEF Part
  <2>. QED
    BY <1>1, <1>p, <2>1
<1>4. /\ \A v \in Nat : Part(JoinAll(v))
      /\ \A objs \in Seq(Objects) : Tame(PutAll(objs, 0), "main", fs)
  <2> HIDE DEF Part
  <2>. QED
    BY <1>1, <1>p
<1>5. Part(<<Lock>>) /\ Part(<<Unlock>>) /\ Part(<<>>)
  BY MutexParts DEF LoadsFirst, PutsNothing
<1>6. \A s, t : Part(s) /\ Part(t) => Part(s \o t)
  BY ConcatLoadsFirst, ConcatPuts
<1>7. \A s, t : Tame(s, "main", fs) /\ Part(t) => Tame(s \o t, "main", fs)
  BY TameConcat
<1>8. \A s, g : Part(s) /\ g # "main" => Tame(s, g, fs)
  BY DEF Tame
<1>s. Tame(serial_main, "main", fs)
  BY SerialTame
<1> HIDE DEF Part
<1>9. CASE name = "test"
  <2>1. Code[name] = [main |-> test_main, fn1 |-> test_fn1, fn2 |-> test_fn2]
    BY <1>9 DEF Code
  <2>2. fs = {"main", "fn1", "fn2"}
    BY <2>1
  <2>3. Part(test_fn1) /\ Part(test_fn2)
    BY <1>1, <1>2, <1>3, <2>2 DEF test_fn1, test_fn2
  <2>4. Tame(test_main, "main", fs)
    BY <1>1, <1>2, <1>3, <1>4, <1>7, <2>2 DEF test_main, test_verify
  <2>. QED
    BY <1>8, <2>1, <2>2, <2>3, <2>4
<1>10. CASE name = "nolock"
  <2>1. Code[name] = [main |-> nolock_main, fn1 |-> nolock_fn1, fn2 |-> nolock_fn2]
    BY <1>10 DEF Code
  <2>2. fs = {"main", "fn1", "fn2"}
    BY <2>1
  <2>3. Part(nolock_fn1) /\ Part(nolock_fn2)
    BY <1>1, <1>2, <1>3, <1>4, <1>6, <2>2 DEF nolock_fn1, nolock_fn2
  <2>4. Tame(nolock_main, "main", fs)
    BY <1>1, <1>2, <1>3, <1>4, <1>7, <2>2 DEF nolock_main, nolock_verify
  <2>. QED
    BY <1>8, <2>1, <2>2, <2>3, <2>4
<1>11. CASE name = "lock"
  <2>1. Code[name] = [main |-> lock_main, fn1 |-> lock_fn1, fn2 |-> lock_fn2]
    BY <1>11 DEF Code
  <2>2. fs = {"main", "fn1", "fn2"}
    BY <2>1
  <2>3. Part(lock_fn1) /\ Part(lock_fn2)
    BY <1>1, <1>3, <1>2, <1>5, <1>6, <2>2 DEF lock_fn1, lock_fn2
  <2>4. Tame(lock_main, "main", fs)
    BY <1>1, <1>2, <1>3, <1>4, <1>7, <2>2 DEF lock_main, lock_verify
  <2>. QED
    BY <1>8, <2>1, <2>2, <2>3, <2>4
<1>12. CASE name = "race_condition"
  <2>1. Code[name] = [main |-> race_condition_main, fn1 |-> race_condition_fn1]
    BY <1>12 DEF Code
  <2>2. fs = {"main", "fn1"}
    BY <2>1
  <2>3. Part(race_condition_fn1)
    BY <1>1, <1>2, <1>3, <2>2 DEF race_condition_fn1
  <2>4. Tame(race_condition_main, "main", fs)
    BY <1>1, <1>2, <1>3, <1>4, <1>7, <2>2 DEF race_condition_main
  <2>. QED
    BY <1>8, <2>1, <2>2, <2>3, <2>4
<1>13. CASE name = "serial"
  <2>1. Code[name] = [main |-> serial_main]
    BY <1>13 DEF Code
  <2>2. fs = {"main"}
    BY <2>1
  <2>. QED
    BY <1>s, <2>1, <2>2
<1>14. CASE name = "noheap"
  <2>1. Code[name] = [main |-> noheap_main, fn1 |-> noheap_fn1]
    BY <1>14 DEF Code
  <2>2. fs = {"main", "fn1"}
    BY <2>1
  <2>3. Part(noheap_fn1)
    BY <1>5 DEF noheap_fn1
  <2>4. Tame(noheap_main, "main", fs)
    <3>1. Part(noheap_main)
      BY <1>2, <1>3, <1>4, <1>1, <1>6, <2>2 DEF noheap_main
    <3>. QED
      BY <3>1 DEF Part, Tame, PutsNothing, PutsZeros
  <2>. QED
    BY <1>8, <2>1, <2>2, <2>3, <2>4
<1>15. name \in {"test", "nolock", "lock", "race_condition", "serial", "noheap"}
  BY DEF Code
<1>. QED
  BY <1>9, <1>10, <1>11, <1>12, <1>13, <1>14, <1>15

-----------------------------------------------------------------------------
(* What the steps do *)

Frames == [fn : DOMAIN Code[program], pc : Nat \ {0}, reg : Nat, threads : Seq(Procs)]

Shapes ==
  /\ program \in Programs
  /\ heap \in [Objects -> Nat]
  /\ copies \in [Procs -> [Objects -> Nat]]
  /\ reads \in [Procs -> SUBSET Layout]
  /\ writes \in [Procs -> SUBSET Layout]
  /\ newer \in [Procs -> SUBSET Layout]
  /\ stack \in [Procs -> Frames]
  /\ checkpoint \in [Procs -> Frames]

Body(p) == Code[program][stack[p].fn]

LEMMA PageOf ==
  ASSUME NEW o \in Objects
  PROVE  /\ Page(o) \in Layout /\ o \in Page(o)
         /\ \A q \in Objects : q \in Page(o) <=> Page(q) = Page(o)
<1>1. \A q \in Objects : Page(q) \in Layout /\ q \in Page(q)
  BY SystemAssumption DEF Page
<1>. QED
  BY <1>1, SystemAssumption

\* order_violation.cc included.
LEMMA CodeIsOps ==
  ASSUME NEW name \in DOMAIN Code, NEW f \in DOMAIN Code[name]
  PROVE  /\ Code[name][f] \in Seq(Operations(DOMAIN Code[name]))
         /\ "main" \in DOMAIN Code[name]
<1>1. CASE name # "order_violation"
  BY <1>1, CodeTame DEF Tame, Code
<1>2. CASE name = "order_violation"
  <2>1. Code[name] = [main |-> order_violation_main,
                      fn1 |-> order_violation_fn1, fn2 |-> order_violation_fn2]
    BY <1>2 DEF Code
  <2> DEFINE fs == {"main", "fn1", "fn2"}
  <2>2. DOMAIN Code[name] = fs
    BY <2>1
  <2>3. /\ \A o \in Objects : Load(o) \in Operations(fs) /\ PutIf(o, 0) \in Operations(fs)
        /\ Create("fn1") \in Operations(fs) /\ Create("fn2") \in Operations(fs)
    BY DEF Operations, Load, PutIf, Create
  <2>4. PutAll(Pair, 1) \in Seq(Operations(fs)) /\ JoinAll(2) \in Seq(Operations(fs))
    <3>1. Pair \in Seq(Objects)
      BY DEF Pair, Objects
    <3>2. \A n, v \in Nat : PutAll(Pair, v) \in Seq(Operations(fs)) /\ JoinAll(n) \in Seq(Operations(fs))
      BY <3>1, OtherParts
    <3>. QED
      BY <3>2
  <2>5. order_violation_main \in Seq(Operations(fs))
    BY <2>3, <2>4 DEF order_violation_main
  <2>6. order_violation_fn1 \in Seq(Operations(fs)) /\ order_violation_fn2 \in Seq(Operations(fs))
    BY <2>3 DEF order_violation_fn1, order_violation_fn2, Objects
  <2>. QED
    BY <2>1, <2>2, <2>5, <2>6
<1>. QED
  BY <1>1, <1>2

LEMMA OpTyped ==
  ASSUME Shapes, NEW p \in Procs, ~AtEnd(p)
  PROVE  /\ Op(p) \in Operations(DOMAIN Code[program])
         /\ Op(p).op \in {"load", "increment", "put", "put_if", "require"} => Op(p).at \in Objects
         /\ Op(p).op \in {"put", "put_if", "require"} => Op(p).val \in Nat
         /\ Op(p).op = "create" => Op(p).fn \in DOMAIN Code[program] \ {"main"}
         /\ \A o \in Objects : Op(p) = Increment(o) <=> Op(p).op = "increment" /\ Op(p).at = o
<1>1. stack[p].fn \in DOMAIN Code[program] /\ stack[p].pc \in Nat \ {0} /\ program \in DOMAIN Code
  BY SystemAssumption DEF Shapes, Frames
<1>2. Code[program][stack[p].fn] \in Seq(Operations(DOMAIN Code[program]))
  BY <1>1, CodeIsOps
<1>3. stack[p].pc \in 1..Len(Code[program][stack[p].fn])
  BY <1>1, <1>2 DEF AtEnd
<1>4. Op(p) \in Operations(DOMAIN Code[program])
  BY <1>2, <1>3 DEF Op
<1>5. \A fs, x : x \in Operations(fs) =>
         /\ x.op \in {"load", "increment", "put", "put_if", "require"} => x.at \in Objects
         /\ x.op \in {"put", "put_if", "require"} => x.val \in Nat
         /\ x.op = "create" => x.fn \in fs \ {"main"}
         /\ \A o \in Objects : x = Increment(o) <=> x.op = "increment" /\ x.at = o
  BY DEF Operations, Increment
<1>. QED
  BY <1>4, <1>5

LEMMA ValueTyped ==
  ASSUME Shapes, NEW p \in Procs, NEW o \in Objects
  PROVE  Value(p, o) \in Nat
BY DEF Shapes, Value

\* A frame with some fields replaced, field by field.
LEMMA FrameFields ==
  ASSUME NEW fs,
         NEW fr \in [fn : fs, pc : Nat \ {0}, reg : Nat, threads : Seq(Procs)], NEW r, NEW ts
  PROVE  /\ [fr EXCEPT !.pc = @ + 1, !.reg = r] =
              [fn |-> fr.fn, pc |-> fr.pc + 1, reg |-> r, threads |-> fr.threads]
         /\ [fr EXCEPT !.pc = @ + 1] =
              [fn |-> fr.fn, pc |-> fr.pc + 1, reg |-> fr.reg, threads |-> fr.threads]
         /\ [fr EXCEPT !.pc = @ + 1, !.threads = ts] =
              [fn |-> fr.fn, pc |-> fr.pc + 1, reg |-> fr.reg, threads |-> ts]
<1>1. ASSUME NEW g, g = [fr EXCEPT !.pc = @ + 1, !.reg = r]
      PROVE  g = [fn |-> fr.fn, pc |-> fr.pc + 1, reg |-> r, threads |-> fr.threads]
  BY <1>1
<1>2. ASSUME NEW g, g = [fr EXCEPT !.pc = @ + 1]
      PROVE  g = [fn |-> fr.fn, pc |-> fr.pc + 1, reg |-> fr.reg, threads |-> fr.threads]
  BY <1>2
<1>3. ASSUME NEW g, g = [fr EXCEPT !.pc = @ + 1, !.threads = ts]
      PROVE  g = [fn |-> fr.fn, pc |-> fr.pc + 1, reg |-> fr.reg, threads |-> ts]
  BY <1>3
<1>. QED
  BY <1>1, <1>2, <1>3, Zenon

LEMMA AdvanceEffect ==
  ASSUME stack \in [Procs -> Frames], NEW p \in Procs,
         Advance(p) \/ \E r \in Nat : stack' = [stack EXCEPT ![p].pc = @ + 1, ![p].reg = r]
  PROVE  /\ stack' \in [Procs -> Frames]
         /\ stack'[p].fn = stack[p].fn /\ stack'[p].pc = stack[p].pc + 1
         /\ stack'[p].threads = stack[p].threads
         /\ \A q \in Procs \ {p} : stack'[q] = stack[q]
<1>1. stack' = [stack EXCEPT ![p] = stack'[p]]
  BY DEF Advance
<1>2. \/ stack'[p] = [stack[p] EXCEPT !.pc = @ + 1]
      \/ \E r \in Nat : stack'[p] = [stack[p] EXCEPT !.pc = @ + 1, !.reg = r]
  BY DEF Advance
<1>3. PICK r \in Nat : stack'[p] = [fn |-> stack[p].fn, pc |-> stack[p].pc + 1,
                                    reg |-> r, threads |-> stack[p].threads]
  <2>1. stack[p] \in [fn : DOMAIN Code[program], pc : Nat \ {0}, reg : Nat, threads : Seq(Procs)]
    BY DEF Frames
  <2>2. CASE stack'[p] = [stack[p] EXCEPT !.pc = @ + 1]
    BY <2>1, <2>2, FrameFields
  <2>3. ASSUME NEW r \in Nat, stack'[p] = [stack[p] EXCEPT !.pc = @ + 1, !.reg = r]
        PROVE  stack'[p] = [fn |-> stack[p].fn, pc |-> stack[p].pc + 1,
                            reg |-> r, threads |-> stack[p].threads]
    <3>1. [stack[p] EXCEPT !.pc = @ + 1, !.reg = r] =
            [fn |-> stack[p].fn, pc |-> stack[p].pc + 1, reg |-> r, threads |-> stack[p].threads]
      BY <2>1, FrameFields, Zenon
    <3>. QED
      BY <2>3, <3>1, Zenon
  <2>. QED
    BY <1>2, <2>2, <2>3
<1>4. /\ stack'[p] \in Frames /\ stack'[p].fn = stack[p].fn /\ stack'[p].pc = stack[p].pc + 1
      /\ stack'[p].threads = stack[p].threads
  BY <1>3 DEF Frames
<1>. QED
  BY <1>1, <1>4

\* One step of the program of p, inside its section.
LEMMA ProgramEffect ==
  ASSUME Shapes, Threads, NEW p \in Procs, ProgramStep(p)
  PROVE  /\ p \in Born /\ phase[p] = "running" /\ ~AtEnd(p)
         /\ UNCHANGED <<phase, call, parent, program, heap, newer, checkpoint>>
         /\ Shapes'
         /\ stack'[p].fn = stack[p].fn /\ stack'[p].pc = stack[p].pc + 1
         /\ stack'[p].threads = stack[p].threads
         /\ reads[p] \subseteq reads'[p]
         /\ writes[p] \subseteq reads[p] => writes'[p] \subseteq reads'[p]
         /\ (reads[p] # {} => touched[p]) => (reads'[p] # {} => touched'[p])
         /\ \A q \in Procs \ {p} :
              /\ stack'[q] = stack[q] /\ touched'[q] = touched[q] /\ copies'[q] = copies[q]
              /\ reads'[q] = reads[q] /\ writes'[q] = writes[q]
<1>1. p \in Born /\ phase[p] = "running" /\ ~AtEnd(p)
  BY DEF ProgramStep, LoadStep, StoreStep, SkipStep, RequireStep, MutexStep, At, Running, Born
<1>2. UNCHANGED <<phase, call, parent, program, heap, newer, checkpoint>>
  BY DEF ProgramStep, LoadStep, StoreStep, SkipStep, RequireStep, MutexStep, Fault,
         G!Touch, G!familyVars, gvars, heapVars
<1>3. /\ stack \in [Procs -> Frames] /\ reads \in [Procs -> SUBSET Layout]
      /\ writes \in [Procs -> SUBSET Layout] /\ copies \in [Procs -> [Objects -> Nat]]
      /\ touched \in [Procs -> BOOLEAN]
  BY DEF Shapes, Threads
<1>s. ASSUME \/ Advance(p)
             \/ \E r \in Nat : stack' = [stack EXCEPT ![p].pc = @ + 1, ![p].reg = r]
      PROVE  /\ stack' \in [Procs -> Frames]
             /\ stack'[p].fn = stack[p].fn /\ stack'[p].pc = stack[p].pc + 1
             /\ stack'[p].threads = stack[p].threads
             /\ \A q \in Procs \ {p} : stack'[q] = stack[q]
  BY <1>s, <1>3, AdvanceEffect
<1>f. ASSUME NEW o \in Objects, Fault(p, o)
      PROVE  /\ reads' \in [Procs -> SUBSET Layout] /\ touched' \in [Procs -> BOOLEAN]
             /\ reads'[p] = reads[p] \cup {Page(o)} /\ touched'[p]
             /\ \A q \in Procs \ {p} : reads'[q] = reads[q] /\ touched'[q] = touched[q]
  <2>1. Page(o) \in Layout
    BY PageOf
  <2>2. touched' = [touched EXCEPT ![p] = TRUE]
    BY <1>f, <1>3 DEF Fault, G!Touch, gvars
  <2>. QED
    BY <1>f, <1>3, <2>1, <2>2 DEF Fault
<1>w. ASSUME NEW o \in Objects, NEW v \in Nat, Write(p, o, v)
      PROVE  /\ writes' \in [Procs -> SUBSET Layout] /\ copies' \in [Procs -> [Objects -> Nat]]
             /\ writes'[p] = writes[p] \cup {Page(o)}
             /\ \A q \in Procs \ {p} : writes'[q] = writes[q] /\ copies'[q] = copies[q]
  <2>1. Page(o) \in Layout /\ \A q \in Objects : Value(p, q) \in Nat
    BY PageOf, ValueTyped
  <2>. QED
    BY <1>w, <1>3, <2>1 DEF Write
<1>c. ASSUME /\ stack' \in [Procs -> Frames] /\ reads' \in [Procs -> SUBSET Layout]
             /\ writes' \in [Procs -> SUBSET Layout] /\ copies' \in [Procs -> [Objects -> Nat]]
      PROVE  Shapes'
  BY <1>c, <1>2 DEF Shapes, Frames
<1>4. CASE LoadStep(p)
  <2>1. Op(p).at \in Objects
    BY <1>1, <1>4, OpTyped DEF LoadStep, At
  <2>2. Value(p, Op(p).at) \in Nat
    BY <2>1, ValueTyped
  <2>3. /\ \E r \in Nat : stack' = [stack EXCEPT ![p].pc = @ + 1, ![p].reg = r]
        /\ Fault(p, Op(p).at) /\ UNCHANGED <<copies, writes>>
    BY <1>4, <2>2 DEF LoadStep
  <2>4. /\ stack' \in [Procs -> Frames]
        /\ stack'[p].fn = stack[p].fn /\ stack'[p].pc = stack[p].pc + 1
        /\ stack'[p].threads = stack[p].threads
        /\ \A q \in Procs \ {p} : stack'[q] = stack[q]
    BY <1>s, <2>3
  <2>5. /\ reads' \in [Procs -> SUBSET Layout] /\ touched' \in [Procs -> BOOLEAN]
        /\ reads'[p] = reads[p] \cup {Page(Op(p).at)} /\ touched'[p]
        /\ \A q \in Procs \ {p} : reads'[q] = reads[q] /\ touched'[q] = touched[q]
    BY <1>f, <2>1, <2>3
  <2>. QED
    BY <1>1, <1>2, <1>3, <1>c, <2>3, <2>4, <2>5
<1>5. CASE StoreStep(p)
  <2>2. \E v \in Nat : Write(p, Op(p).at, v)
    <3>1. stack[p].reg + 1 \in Nat
      BY <1>3 DEF Frames
    <3>2. Op(p).op \in {"put", "put_if"} => Op(p).val \in Nat
      BY <1>1, OpTyped
    <3>3. \/ Write(p, Op(p).at, stack[p].reg + 1)
          \/ Op(p).op \in {"put", "put_if"} /\ Write(p, Op(p).at, Op(p).val)
      BY <1>5 DEF StoreStep, At
    <3>. QED
      BY <3>1, <3>2, <3>3
  <2>3. Advance(p) /\ Fault(p, Op(p).at)
    BY <1>5 DEF StoreStep
  <2>4. Op(p).at \in Objects
    BY <1>1, <1>5, OpTyped DEF StoreStep, At
  <2>. QED
    BY <1>1, <1>2, <1>3, <1>s, <1>f, <1>w, <1>c, <2>2, <2>3, <2>4
<1>6. CASE SkipStep(p) \/ MutexStep(p)
  <2>1. Advance(p) /\ UNCHANGED <<touched, reads, writes, copies>>
    BY <1>6 DEF SkipStep, MutexStep, gvars, heapVars
  <2>. QED
    BY <1>1, <1>2, <1>3, <1>s, <1>c, <2>1
<1>7. CASE RequireStep(p)
  <2>1. Op(p).at \in Objects
    BY <1>1, <1>7, OpTyped DEF RequireStep, At
  <2>2. Advance(p) /\ Fault(p, Op(p).at) /\ UNCHANGED <<copies, writes>>
    BY <1>7 DEF RequireStep
  <2>. QED
    BY <1>1, <1>2, <1>3, <1>s, <1>f, <1>c, <2>1, <2>2
<1>. QED
  BY <1>4, <1>5, <1>6, <1>7 DEF ProgramStep

\* Nothing has happened to q.
Same(q) ==
  UNCHANGED <<phase[q], touched[q], call[q], stack[q], checkpoint[q],
              reads[q], writes[q], copies[q]>>

\* A step that only takes p from one phase to another.
LEMMA PhaseEffect ==
  ASSUME Shapes, Threads, NEW p \in Procs, Calling(p) \/ PredecessorExited(p) \/ Exit(p)
  PROVE  /\ UNCHANGED <<program, heapVars, programVars, touched, parent>>
         /\ Shapes'
         /\ \A q \in Procs \ {p} : Same(q)
         /\ \/ /\ phase[p] = "running"
               /\ phase'[p] = IF touched[p] THEN "waiting" ELSE "ended"
               /\ call'[p].op \in {"create", "join"} =>
                    \/ p = Root /\ (call'[p].op = "create" => G!Children(Root) = {})
                    \/ p # Root /\ ~AtEnd(p) /\ Op(p).op = call'[p].op
            \/ phase[p] = "waiting" /\ phase'[p] = "validating" /\ call'[p] = call[p]
            \/ phase[p] = "ended" /\ phase'[p] = "exited" /\ call'[p] = G!NoCall
<1>1. UNCHANGED <<program, heapVars, programVars, touched, parent>>
  BY DEF Calling, PredecessorExited, Exit, G!PredecessorExited, G!Exit, G!Leave,
         G!CallCreate, G!CallJoin, G!CallExit, G!WrappedMain, G!EndSection,
         G!sectionVars, G!familyVars
<1>2. Shapes'
  BY <1>1 DEF Shapes, Frames, heapVars, programVars
<1>s. ASSUME NEW s, G!Goto(p, s), call' = call \/ \E what : call' = [call EXCEPT ![p] = what]
      PROVE  \A q \in Procs \ {p} : Same(q)
  BY <1>1, <1>s DEF Same, Threads, G!Goto, heapVars, programVars
<1>g. ASSUME NEW s, G!Goto(p, s) PROVE phase'[p] = s
  BY <1>g DEF Threads, G!Goto
<1>c. ASSUME NEW what, call' = [call EXCEPT ![p] = what] PROVE call'[p] = what
  BY <1>c DEF Threads
<1>3. ASSUME NEW what, G!EndSection(p, what)
      PROVE  /\ phase[p] = "running" /\ phase'[p] = IF touched[p] THEN "waiting" ELSE "ended"
             /\ call'[p] = what /\ \A q \in Procs \ {p} : Same(q)
  BY <1>3, <1>s, <1>g, <1>c DEF G!EndSection
<1>4. CASE Calling(p)
  <2>1. CASE At(p, "create") /\ G!CallCreate(p)
    <3>1. PICK n : G!EndSection(p, [op |-> "create", slot |-> n])
      BY <2>1 DEF G!CallCreate
    <3>. QED
      BY <1>1, <1>2, <1>3, <2>1, <3>1 DEF At, Running
  <2>2. CASE \E t \in Procs : Joins(p, t) /\ G!CallJoin(p, t)
    <3>1. PICK t \in Procs : Joins(p, t) /\ G!EndSection(p, [op |-> "join", thread |-> t])
      BY <2>2 DEF G!CallJoin
    <3>. QED
      BY <1>1, <1>2, <1>3, <3>1 DEF Joins, At, Running
  <2>3. CASE Running(p) /\ AtEnd(p) /\ G!CallExit(p)
    BY <1>1, <1>2, <1>3, <2>3 DEF G!CallExit
  <2>4. CASE p = Root /\ G!WrappedMain
    <3>1. PICK what : G!EndSection(p, what) /\ (what.op = "create" => G!Children(Root) = {})
      <4>1. CASE G!Children(Root) = {} /\ G!EndSection(Root, [op |-> "create", slot |-> 0])
        BY <2>4, <4>1
      <4>2. CASE \E t : G!EndSection(Root, [op |-> "join", thread |-> t])
        <5>1. PICK t : G!EndSection(Root, [op |-> "join", thread |-> t])
          BY <4>2
        <5>2. [op |-> "join", thread |-> t].op # "create"
          OBVIOUS
        <5>. QED
          BY <2>4, <5>1, <5>2
      <4>3. CASE G!EndSection(Root, [op |-> "exit"])
        <5>2. [op |-> "exit"].op # "create"
          OBVIOUS
        <5>. QED
          BY <2>4, <4>3, <5>2
      <4>. QED
        BY <2>4, <4>1, <4>2, <4>3 DEF G!WrappedMain
    <3>. QED
      BY <1>1, <1>2, <1>3, <2>4, <3>1
  <2>. QED
    BY <1>4, <2>1, <2>2, <2>3, <2>4 DEF Calling
<1>5. CASE PredecessorExited(p)
  BY <1>1, <1>2, <1>5, <1>s, <1>g DEF PredecessorExited, G!PredecessorExited
<1>6. CASE Exit(p)
  BY <1>1, <1>2, <1>6, <1>s, <1>g, <1>c DEF Exit, G!Exit, G!Leave
<1>. QED
  BY <1>4, <1>5, <1>6

LEMMA CommitEffect ==
  ASSUME Shapes, Threads, NEW p \in Procs, Commit(p)
  PROVE  /\ UNCHANGED <<program, programVars, touched, parent, call, reads, writes, copies>>
         /\ Shapes'
         /\ \A q \in Procs \ {p} : Same(q)
         /\ phase[p] = "validating" /\ phase'[p] = "ended"
         /\ \A o \in Objects : heap'[o] = Value(p, o)
         /\ \A q \in Procs \ {p} : newer'[q] = newer[q] \cup writes[p]
         /\ reads[p] \cap newer[p] = {}
<1>1. /\ UNCHANGED <<program, programVars, touched, parent, call, reads, writes, copies>>
      /\ phase[p] = "validating" /\ phase' = [phase EXCEPT ![p] = "ended"]
      /\ heap' = [o \in Objects |-> Value(p, o)]
      /\ newer' = [q \in Procs |-> IF q = p THEN newer[q] ELSE newer[q] \cup writes[p]]
      /\ reads[p] \cap newer[p] = {}
  BY DEF Commit, G!Commit, G!Goto, G!familyVars, Consistent
<1>2. heap' \in [Objects -> Nat] /\ newer' \in [Procs -> SUBSET Layout]
  BY <1>1, ValueTyped DEF Shapes
<1>3. Shapes'
  BY <1>1, <1>2 DEF Shapes, Frames, programVars
<1>4. \A q \in Procs \ {p} : Same(q)
  BY <1>1 DEF Same, Threads, programVars
<1>. QED
  BY <1>1, <1>3, <1>4 DEF Threads

\* The processes of ps begin a section each.
Begins(ps) ==
  /\ Shapes' /\ UNCHANGED <<program, heap>>
  /\ \A q \in ps : /\ touched'[q] => touched[q]
                   /\ phase'[q] = "running"
                   /\ reads'[q] = {} /\ writes'[q] = {} /\ newer'[q] = {}
                   /\ checkpoint'[q] = stack'[q]
  /\ \A q \in Procs \ ps : Same(q) /\ newer'[q] = newer[q]

LEMMA BeginEffect ==
  ASSUME Shapes, Threads, NEW ps \in SUBSET Procs, AtomicBegin(ps), stack' \in [Procs -> Frames],
         \A q \in ps : (touched'[q] => touched[q]) /\ phase'[q] = "running",
         \A q \in Procs \ ps :
           UNCHANGED <<stack[q], touched[q], phase[q], call[q]>>
  PROVE  Begins(ps)
<1>1. /\ reads' = [q \in Procs |-> IF q \in ps THEN {} ELSE reads[q]]
      /\ writes' = [q \in Procs |-> IF q \in ps THEN {} ELSE writes[q]]
      /\ newer' = [q \in Procs |-> IF q \in ps THEN {} ELSE newer[q]]
      /\ copies' = [q \in Procs |-> IF q \in ps THEN [o \in Objects |-> 0] ELSE copies[q]]
      /\ checkpoint' = [q \in Procs |-> IF q \in ps THEN stack'[q] ELSE checkpoint[q]]
      /\ UNCHANGED <<program, heap, failed>>
  BY DEF AtomicBegin
<1>2. reads' \in [Procs -> SUBSET Layout] /\ writes' \in [Procs -> SUBSET Layout]
      /\ newer' \in [Procs -> SUBSET Layout]
  BY <1>1 DEF Shapes
<1>3. copies' \in [Procs -> [Objects -> Nat]]
  BY <1>1 DEF Shapes
<1>4. checkpoint' \in [Procs -> Frames]
  BY <1>1 DEF Shapes
<1>5. Shapes'
  BY <1>1, <1>2, <1>3, <1>4 DEF Shapes, Frames
<1>. QED
  BY <1>1, <1>5 DEF Begins, Same

LEMMA RollbackEffect ==
  ASSUME Shapes, Threads, NEW p \in Procs, Rollback(p)
  PROVE  /\ Begins({p}) /\ UNCHANGED parent /\ call'[p] = G!NoCall
         /\ phase[p] = "validating" /\ reads[p] \cap newer[p] # {}
         /\ stack'[p] = checkpoint[p]
<1>1. /\ stack' = [stack EXCEPT ![p] = checkpoint[p]]
      /\ phase[p] = "validating" /\ phase' = [phase EXCEPT ![p] = "running"]
      /\ call' = [call EXCEPT ![p] = G!NoCall]
      /\ touched' = [touched EXCEPT ![p] = FALSE]
      /\ reads[p] \cap newer[p] # {} /\ UNCHANGED parent
      /\ AtomicBegin({p})
  BY DEF Rollback, G!Rollback, G!Begin, G!Goto, G!familyVars, Consistent
<1>2. stack \in [Procs -> Frames] /\ checkpoint \in [Procs -> Frames]
  BY DEF Shapes
<1>3. stack' \in [Procs -> Frames] /\ stack'[p] = checkpoint[p]
      /\ \A q \in Procs \ {p} : stack'[q] = stack[q]
  BY <1>1, <1>2
<1>4. Begins({p})
  BY <1>1, <1>3, BeginEffect DEF Threads
<1>. QED
  BY <1>1, <1>3, <1>4 DEF Threads

LEMMA JoinEffect ==
  ASSUME Shapes, Threads, NEW p \in Procs, JoinReturns(p)
  PROVE  /\ Begins({p}) /\ UNCHANGED parent /\ call'[p] = G!NoCall
         /\ phase[p] = "ended" /\ call[p].op = "join"
         /\ stack'[p].fn = stack[p].fn /\ stack'[p].pc = stack[p].pc + 1
         /\ stack'[p].threads = stack[p].threads
<1>1. /\ Advance(p)
      /\ phase[p] = "ended" /\ phase' = [phase EXCEPT ![p] = "running"]
      /\ call[p].op = "join" /\ call' = [call EXCEPT ![p] = G!NoCall]
      /\ touched' = [touched EXCEPT ![p] = FALSE]
      /\ UNCHANGED parent
      /\ AtomicBegin({p})
  BY DEF JoinReturns, G!JoinReturns, G!Begin, G!Goto
<1>2. /\ stack' \in [Procs -> Frames]
      /\ stack'[p].fn = stack[p].fn /\ stack'[p].pc = stack[p].pc + 1
      /\ stack'[p].threads = stack[p].threads
      /\ \A q \in Procs \ {p} : stack'[q] = stack[q]
  BY <1>1, AdvanceEffect DEF Shapes
<1>3. Begins({p})
  BY <1>1, <1>2, BeginEffect DEF Threads
<1>. QED
  BY <1>1, <1>2, <1>3 DEF Threads

LEMMA ForkEffect ==
  ASSUME Shapes, Threads, NEW p \in Procs, NEW c \in Procs, Fork(p, c),
         p # Root => ~AtEnd(p) /\ Op(p).op = "create"
  PROVE  /\ c # p /\ Begins({p, c})
         /\ call'[p] = G!NoCall /\ call'[c] = call[c]
         /\ phase[p] = "ended" /\ call[p].op = "create" /\ phase[c] = "unborn"
         /\ parent' = [parent EXCEPT ![c] = p]
         /\ stack'[p].fn = stack[p].fn /\ stack'[p].pc = stack[p].pc + 1
         /\ stack'[p].threads = Append(stack[p].threads, c)
         /\ stack'[c] = Enter(IF p = Root THEN "main" ELSE Op(p).fn)
<1> DEFINE e == Enter(IF p = Root THEN "main" ELSE Op(p).fn)
<1>1. /\ phase[p] = "ended" /\ phase[c] = "unborn"
      /\ phase' = [phase EXCEPT ![p] = "running", ![c] = "running"]
      /\ call[p].op = "create" /\ call' = [call EXCEPT ![p] = G!NoCall]
      /\ touched' = [touched EXCEPT ![p] = FALSE]
      /\ parent' = [parent EXCEPT ![c] = p]
      /\ AtomicBegin({p, c})
  BY DEF Fork, G!Fork, G!Begin
<1>2. stack' = [stack EXCEPT ![p].pc = @ + 1, ![p].threads = Append(@, c), ![c] = e]
  BY DEF Fork
<1>3. c # p
  BY <1>1
<1>4. stack'[p] = [stack[p] EXCEPT !.pc = @ + 1, !.threads = Append(@, c)]
  BY <1>2, <1>3 DEF Shapes
<1>5. stack'[c] = e /\ stack' = [stack EXCEPT ![p] = stack'[p], ![c] = stack'[c]]
  BY <1>2, <1>3 DEF Shapes
<1>6. stack[p] \in [fn : DOMAIN Code[program], pc : Nat \ {0}, reg : Nat, threads : Seq(Procs)]
  BY DEF Shapes, Frames
<1>7. stack'[p] = [fn |-> stack[p].fn, pc |-> stack[p].pc + 1, reg |-> stack[p].reg,
                   threads |-> Append(stack[p].threads, c)]
  BY <1>4, <1>6, FrameFields
<1>8. /\ stack'[p] \in Frames /\ stack'[p].fn = stack[p].fn /\ stack'[p].pc = stack[p].pc + 1
      /\ stack'[p].threads = Append(stack[p].threads, c)
  BY <1>6, <1>7 DEF Frames
<1>9. e \in Frames
  <2>1. (IF p = Root THEN "main" ELSE Op(p).fn) \in DOMAIN Code[program]
    <3>1. "main" \in DOMAIN Code[program]
      BY SystemAssumption, CodeIsOps DEF Shapes, Frames
    <3>. QED
      BY <3>1, OpTyped
  <2>. QED
    BY <2>1 DEF Frames, Enter
<1>10. stack' \in [Procs -> Frames] /\ \A q \in Procs \ {p, c} : stack'[q] = stack[q]
  BY <1>5, <1>8, <1>9 DEF Shapes
<1>11. Begins({p, c})
  BY <1>1, <1>10, BeginEffect DEF Threads
<1>. QED
  BY <1>1, <1>3, <1>5, <1>8, <1>11 DEF Threads

\* A write changes what p finds at one address.
LEMMA WriteEffect ==
  ASSUME Shapes, NEW p \in Procs, NEW o \in Objects, NEW v, Write(p, o, v), UNCHANGED heap
  PROVE  /\ writes'[p] = writes[p] \cup {Page(o)}
         /\ \A x \in Objects : Value(p, x)' = IF x = o THEN v ELSE Value(p, x)
<1>1. writes \in [Procs -> SUBSET Layout] /\ copies \in [Procs -> [Objects -> Nat]]
  BY DEF Shapes
<1>2. /\ writes'[p] = writes[p] \cup {Page(o)}
      /\ \A x \in Objects :
           copies'[p][x] = IF x = o THEN v
                           ELSE IF x \in Page(o) THEN Value(p, x) ELSE copies[p][x]
  BY <1>1 DEF Write
<1>3. ASSUME NEW x \in Objects PROVE Value(p, x)' = IF x = o THEN v ELSE Value(p, x)
  <2>1. x \in Page(o) <=> Page(x) = Page(o)
    BY PageOf
  <2>2. Value(p, x)' = IF Page(x) \in writes'[p] THEN copies'[p][x] ELSE heap[x]
    BY DEF Value, Page
  <2>3. Value(p, x) = IF Page(x) \in writes[p] THEN copies[p][x] ELSE heap[x]
    BY DEF Value
  <2>. QED
    BY <1>2, <2>1, <2>2, <2>3, PageOf
<1>. QED
  BY <1>2, <1>3

LEMMA ProgramIsFixed == [Next]_vars => program' = program
BY DEF Next, ProgramStep, LoadStep, StoreStep, SkipStep, RequireStep, MutexStep, Fault,
       Calling, Library, PredecessorExited, Commit, Rollback, JoinReturns, Exit, Fork,
       AtomicBegin, Terminated, vars

-----------------------------------------------------------------------------
(* Where a program stands between its calls *)

\* A section runs on from its checkpoint in the same function, and what it has
\* access to is recorded.  The call a process has made is the one that its
\* program makes there.
SectionRunsOn(p) ==
  /\ checkpoint[p].fn = stack[p].fn /\ checkpoint[p].pc <= stack[p].pc
  /\ writes[p] \subseteq reads[p]
  /\ phase[p] \in G!Open /\ reads[p] # {} => touched[p]
  /\ phase[p] \in {"waiting", "validating", "ended"} /\ call[p].op \in {"create", "join"} =>
       ~AtEnd(p) /\ Op(p).op = call[p].op

\* wrapped_main touches no heap, and creates main before anything else.
RootAlone ==
  /\ phase[Root] \notin {"unborn", "waiting", "validating"} /\ ~touched[Root]
  /\ call[Root].op = "create" => Born = {}
  /\ Born # {} => \E c \in Procs : parent[c] = Root

\* main is before the threads that it creates: none of them is there before it
\* has committed what comes before pthread_create.
Creates(f, n) == \E i \in 1..n : Code[program][f][i].op = "create"

MainFirst ==
  \A p, q \in Born :
    p # q /\ stack[p].fn = "main" =>
      stack[q].fn # "main" /\ Creates("main", checkpoint[p].pc - 1)

Control ==
  /\ Shapes
  /\ \A p \in Born : SectionRunsOn(p)
  /\ RootAlone
  /\ MainFirst

LEMMA SectionStays ==
  ASSUME NEW q, Same(q), UNCHANGED program, SectionRunsOn(q)
  PROVE  SectionRunsOn(q)'
BY DEF Same, SectionRunsOn, AtEnd, Op

LEMMA MainStaysFirst ==
  ASSUME Control, Threads, Shapes', UNCHANGED program,
         \A q \in Procs : phase'[q] = "unborn" <=> phase[q] = "unborn",
         \A q \in Born : stack'[q].fn = stack[q].fn /\ checkpoint'[q].pc >= checkpoint[q].pc
  PROVE  MainFirst' /\ Born' = Born
<1>1. Born' = Born
  BY DEF Born
<1>2. \A q \in Born : checkpoint[q].pc \in Nat /\ checkpoint'[q].pc \in Nat
  BY DEF Control, Shapes, Frames, Born
<1>3. \A m, n \in Nat : \A f : m <= n /\ Creates(f, m - 1) => Creates(f, n - 1)'
  BY DEF Creates
<1>. QED
  BY <1>1, <1>2, <1>3 DEF Control, MainFirst

LEMMA ProgramControl ==
  ASSUME Control, Threads, NEW p \in Procs, ProgramStep(p)
  PROVE  Control'
<1>1. Shapes
  BY DEF Control
<1>2. /\ p \in Born /\ phase[p] = "running" /\ ~AtEnd(p)
      /\ UNCHANGED <<phase, call, parent, program, heap, newer, checkpoint>>
      /\ Shapes'
      /\ stack'[p].fn = stack[p].fn /\ stack'[p].pc = stack[p].pc + 1
      /\ writes[p] \subseteq reads[p] => writes'[p] \subseteq reads'[p]
      /\ (reads[p] # {} => touched[p]) => (reads'[p] # {} => touched'[p])
      /\ \A q \in Procs \ {p} :
           /\ stack'[q] = stack[q] /\ touched'[q] = touched[q] /\ copies'[q] = copies[q]
           /\ reads'[q] = reads[q] /\ writes'[q] = writes[q]
  BY <1>1, ProgramEffect
<1>3. \A q \in Procs \ {p} : Same(q)
  BY <1>2 DEF Same
<1>4. MainFirst' /\ Born' = Born
  <2>1. \A q \in Born : checkpoint[q].pc \in Nat /\ stack'[q].fn = stack[q].fn
    BY <1>1, <1>2 DEF Shapes, Frames, Born
  <2>. QED
    BY <1>2, <2>1, MainStaysFirst
<1>5. SectionRunsOn(p)'
  BY <1>1, <1>2 DEF Control, SectionRunsOn, G!Open, Shapes, Frames
<1>6. \A q \in Born' : SectionRunsOn(q)'
  BY <1>2, <1>3, <1>4, <1>5, SectionStays DEF Control, Born
<1>7. RootAlone'
  BY <1>2, <1>4, SystemAssumption DEF Control, RootAlone, Born
<1>. QED
  BY <1>2, <1>4, <1>6, <1>7 DEF Control

LEMMA PhaseControl ==
  ASSUME Control, Threads, NEW p \in Procs, Calling(p) \/ PredecessorExited(p) \/ Exit(p)
  PROVE  Control'
<1>1. Shapes
  BY DEF Control
<1>2. /\ UNCHANGED <<program, heapVars, programVars, touched, parent>>
      /\ Shapes'
      /\ \A q \in Procs \ {p} : Same(q)
      /\ \/ /\ phase[p] = "running"
            /\ phase'[p] = IF touched[p] THEN "waiting" ELSE "ended"
            /\ call'[p].op \in {"create", "join"} =>
                 \/ p = Root /\ (call'[p].op = "create" => G!Children(Root) = {})
                 \/ p # Root /\ ~AtEnd(p) /\ Op(p).op = call'[p].op
         \/ phase[p] = "waiting" /\ phase'[p] = "validating" /\ call'[p] = call[p]
         \/ phase[p] = "ended" /\ phase'[p] = "exited" /\ call'[p] = G!NoCall
  BY <1>1, PhaseEffect
<1>3. \A q \in Procs : phase'[q] = "unborn" <=> phase[q] = "unborn"
  BY <1>2 DEF Same
<1>4. MainFirst' /\ Born' = Born
  <2>1. UNCHANGED <<stack, checkpoint>>
    BY <1>2 DEF programVars
  <2>2. \A q \in Born : checkpoint[q].pc \in Nat
    BY <1>1 DEF Shapes, Frames, Born
  <2>. QED
    BY <1>2, <1>3, <2>1, <2>2, MainStaysFirst
<1>5. p \in Born => SectionRunsOn(p)'
  BY <1>1, <1>2 DEF Control, SectionRunsOn, G!Open, heapVars, programVars, AtEnd, Op, Born
<1>6. \A q \in Born' : SectionRunsOn(q)'
  BY <1>2, <1>4, <1>5, SectionStays DEF Control, Born
<1>7. RootAlone'
  <2>1. p = Root => phase'[p] \in {"ended", "exited"}
                    /\ (call'[p].op = "create" => G!Children(Root) = {} \/ call'[p] = call[p])
    BY <1>2 DEF Control, RootAlone, G!NoCall
  <2>2. p # Root => phase'[Root] = phase[Root] /\ call'[Root] = call[Root]
    BY <1>2, SystemAssumption DEF Same
  <2>3. G!Children(Root) = {} => Born = {}
    BY DEF Control, RootAlone, G!Children
  <2>. QED
    BY <1>2, <1>4, <2>1, <2>2, <2>3 DEF Control, RootAlone
<1>. QED
  BY <1>2, <1>4, <1>6, <1>7 DEF Control

LEMMA CommitControl ==
  ASSUME Control, Threads, NEW p \in Procs, Commit(p)
  PROVE  Control'
<1>1. Shapes
  BY DEF Control
<1>2. /\ UNCHANGED <<program, programVars, touched, parent, call, reads, writes, copies>>
      /\ Shapes'
      /\ \A q \in Procs \ {p} : Same(q)
      /\ phase[p] = "validating" /\ phase'[p] = "ended"
  BY <1>1, CommitEffect
<1>3. \A q \in Procs : phase'[q] = "unborn" <=> phase[q] = "unborn"
  BY <1>2 DEF Same
<1>4. MainFirst' /\ Born' = Born
  <2>1. UNCHANGED <<stack, checkpoint>>
    BY <1>2 DEF programVars
  <2>2. \A q \in Born : checkpoint[q].pc \in Nat
    BY <1>1 DEF Shapes, Frames, Born
  <2>. QED
    BY <1>2, <1>3, <2>1, <2>2, MainStaysFirst
<1>5. p \in Born => SectionRunsOn(p)'
  BY <1>1, <1>2 DEF Control, SectionRunsOn, G!Open, programVars, AtEnd, Op, Born
<1>6. \A q \in Born' : SectionRunsOn(q)'
  BY <1>2, <1>4, <1>5, SectionStays DEF Control, Born
<1>7. RootAlone'
  BY <1>2, <1>4, SystemAssumption DEF Control, RootAlone, Same
<1>. QED
  BY <1>2, <1>4, <1>6, <1>7 DEF Control

LEMMA ResumeControl ==
  ASSUME Control, Threads, NEW p \in Procs, Rollback(p) \/ JoinReturns(p)
  PROVE  Control'
<1>1. Shapes
  BY DEF Control
<1>2. /\ Begins({p}) /\ UNCHANGED parent /\ call'[p] = G!NoCall
      /\ phase[p] \in {"validating", "ended"}
      /\ \/ stack'[p] = checkpoint[p]
         \/ stack'[p].fn = stack[p].fn /\ stack'[p].pc = stack[p].pc + 1
  BY <1>1, RollbackEffect, JoinEffect
<1>3. /\ UNCHANGED <<program, heap>> /\ Shapes'
      /\ (touched'[p] => touched[p]) /\ phase'[p] = "running"
      /\ reads'[p] = {} /\ writes'[p] = {} /\ newer'[p] = {} /\ checkpoint'[p] = stack'[p]
      /\ \A q \in Procs \ {p} : Same(q) /\ newer'[q] = newer[q]
  BY <1>2 DEF Begins
<1>4. \A q \in Procs : phase'[q] = "unborn" <=> phase[q] = "unborn"
  BY <1>2, <1>3 DEF Same
<1>5. MainFirst' /\ Born' = Born
  <2>1. \A q \in Born : stack'[q].fn = stack[q].fn /\ checkpoint'[q].pc >= checkpoint[q].pc
    <3> TAKE q \in Born
    <3>1. /\ stack[q].pc \in Nat /\ checkpoint[q].pc \in Nat
          /\ checkpoint[q].fn = stack[q].fn /\ checkpoint[q].pc <= stack[q].pc
      BY DEF Control, SectionRunsOn, Shapes, Frames, Born
    <3>2. CASE q = p
      BY <1>2, <1>3, <3>1, <3>2
    <3>3. CASE q # p
      BY <1>3, <3>1, <3>3 DEF Same, Born
    <3>. QED
      BY <3>2, <3>3
  <2>. QED
    BY <1>3, <1>4, <2>1, MainStaysFirst
<1>6. SectionRunsOn(p)'
  BY <1>3 DEF SectionRunsOn, Shapes, Frames
<1>7. \A q \in Born' : SectionRunsOn(q)'
  BY <1>3, <1>5, <1>6, SectionStays DEF Control, Born
<1>8. RootAlone'
  <2>1. phase'[Root] \notin {"unborn", "waiting", "validating"} /\ ~touched'[Root]
    BY <1>3, SystemAssumption DEF Control, RootAlone, Same
  <2>2. call'[Root].op = "create" => call'[Root] = call[Root]
    BY <1>2, <1>3, SystemAssumption DEF Same, G!NoCall
  <2>. QED
    BY <1>2, <1>5, <2>1, <2>2 DEF Control, RootAlone
<1>. QED
  BY <1>3, <1>5, <1>7, <1>8 DEF Control

LEMMA ForkControl ==
  ASSUME Control, Threads, NEW p \in Procs, NEW c \in Procs, Fork(p, c)
  PROVE  Control'
<1>1. Shapes
  BY DEF Control
<1>p. phase[p] = "ended" /\ call[p].op = "create"
  BY DEF Fork, G!Fork
<1>2. p # Root => ~AtEnd(p) /\ Op(p).op = "create" /\ p \in Born
  BY <1>p DEF Control, SectionRunsOn, Born
<1>3. /\ c # p /\ Begins({p, c})
      /\ call'[p] = G!NoCall /\ call'[c] = call[c]
      /\ phase[c] = "unborn"
      /\ parent' = [parent EXCEPT ![c] = p]
      /\ stack'[p].fn = stack[p].fn /\ stack'[p].pc = stack[p].pc + 1
      /\ stack'[c] = Enter(IF p = Root THEN "main" ELSE Op(p).fn)
  BY <1>1, <1>2, ForkEffect
<1>4. /\ UNCHANGED <<program, heap>> /\ Shapes'
      /\ \A q \in {p, c} : /\ (touched'[q] => touched[q]) /\ phase'[q] = "running"
                           /\ reads'[q] = {} /\ writes'[q] = {} /\ newer'[q] = {}
                           /\ checkpoint'[q] = stack'[q]
      /\ \A q \in Procs \ {p, c} : Same(q) /\ newer'[q] = newer[q]
  BY <1>3 DEF Begins
<1>5. c # Root /\ Born' = Born \cup {c} /\ c \notin Born
  BY <1>p, <1>3, <1>4 DEF Control, RootAlone, Born, Same
<1>6. p = Root => Born = {}
  BY <1>p DEF Control, RootAlone
<1>7. MainFirst'
  <2> SUFFICES ASSUME NEW q \in Born', NEW r \in Born', q # r, stack'[q].fn = "main"
               PROVE  stack'[r].fn # "main" /\ Creates("main", checkpoint[q].pc - 1)'
    BY DEF MainFirst
  <2>1. p # Root
    BY <1>5, <1>6
  <2>2. stack'[c].fn # "main"
    BY <1>1, <1>2, <1>3, <2>1, OpTyped DEF Enter
  <2>3. q # c /\ q \in Born
    BY <1>5, <2>2
  <2>4. \A s \in Born : stack'[s].fn = stack[s].fn
    BY <1>3, <1>4, <1>5 DEF Same, Born
  <2>5. r \in Born => stack'[r].fn # "main"
    BY <2>3, <2>4 DEF Control, MainFirst
  <2>6. CASE q = p
    <3>1. checkpoint'[q].pc - 1 = stack[q].pc /\ stack[q].pc \in Nat \ {0} /\ stack[q].fn = "main"
      <4>1. stack[q].pc \in Nat \ {0}
        BY <1>1, <2>3 DEF Shapes, Frames, Born
      <4>2. checkpoint'[q] = stack'[q] /\ stack'[q].pc = stack[q].pc + 1
        BY <1>3, <1>4, <2>6
      <4>. QED
        BY <2>3, <2>4, <4>1, <4>2
    <3>2. Code[program]["main"][stack[q].pc].op = "create"
      BY <1>2, <2>1, <2>6, <3>1 DEF Op
    <3>3. Creates("main", checkpoint[q].pc - 1)'
      BY <1>4, <3>1, <3>2 DEF Creates
    <3>. QED
      BY <1>5, <2>2, <2>5, <3>3
  <2>7. CASE q # p
    <3>1. Creates("main", checkpoint[q].pc - 1)
      BY <1>2, <2>1, <2>3, <2>4, <2>7 DEF Control, MainFirst
    <3>2. checkpoint'[q] = checkpoint[q]
      BY <1>4, <2>3, <2>7 DEF Same, Born
    <3>3. Creates("main", checkpoint[q].pc - 1)'
      BY <1>4, <3>1, <3>2 DEF Creates
    <3>. QED
      BY <1>5, <2>2, <2>5, <3>3
  <2>. QED
    BY <2>6, <2>7
<1>8. \A q \in Born' : SectionRunsOn(q)'
  <2>1. \A q \in {p, c} : SectionRunsOn(q)'
    <3> TAKE q \in {p, c}
    <3>1. checkpoint'[q] = stack'[q] /\ stack'[q].pc \in Nat /\ phase'[q] = "running"
          /\ reads'[q] = {} /\ writes'[q] = {}
      BY <1>4 DEF Shapes, Frames
    <3>. QED
      BY <3>1 DEF SectionRunsOn
  <2>2. \A q \in Born \ {p} : SectionRunsOn(q)'
    BY <1>4, <1>5, SectionStays DEF Control, Born
  <2>. QED
    BY <1>5, <2>1, <2>2
<1>9. RootAlone'
  <2>1. phase'[Root] \notin {"unborn", "waiting", "validating"} /\ ~touched'[Root]
    BY <1>4, <1>5, SystemAssumption DEF Control, RootAlone, Same
  <2>2. call'[Root].op # "create"
    BY <1>2, <1>3, <1>4, <1>5, SystemAssumption DEF Same, G!NoCall, Control, RootAlone
  <2>3. \E r \in Procs : parent'[r] = Root
    <3>1. CASE p = Root
      BY <1>3, <3>1 DEF Threads
    <3>2. CASE p # Root
      <4>1. PICK r \in Procs : parent[r] = Root
        BY <1>2, <3>2 DEF Control, RootAlone
      <4>2. r # c
        BY <1>3, <4>1, SystemAssumption DEF Threads
      <4>. QED
        BY <1>3, <4>1, <4>2 DEF Threads
    <3>. QED
      BY <3>1, <3>2
  <2>. QED
    BY <2>1, <2>2, <2>3 DEF RootAlone
<1>. QED
  BY <1>4, <1>7, <1>8, <1>9 DEF Control

LEMMA InitControl == Init => Control
<1> SUFFICES ASSUME Init PROVE Control
  OBVIOUS
<1>1. Shapes
  <2>1. "main" \in DOMAIN Code[program]
    BY SystemAssumption DEF Init, Code
  <2>2. Enter("main") \in Frames
    BY <2>1 DEF Enter, Frames
  <2>. QED
    BY <2>2 DEF Init, Shapes
<1>2. Born = {}
  BY DEF Init, G!Init, Born
<1>3. RootAlone
  BY <1>2, SystemAssumption DEF Init, G!Init, RootAlone, G!NoCall
<1>. QED
  BY <1>1, <1>2, <1>3 DEF Control, MainFirst

LEMMA NextControl == Control /\ Threads /\ [Next]_vars => Control'
<1> SUFFICES ASSUME Control, Threads, [Next]_vars PROVE Control'
  OBVIOUS
<1>1. CASE UNCHANGED vars
  <2>1. UNCHANGED <<phase, touched, call, parent, program, heapVars, stack, checkpoint>>
    BY <1>1 DEF vars, gvars, programVars
  <2>2. Shapes'
    BY <2>1 DEF Control, Shapes, Frames, heapVars
  <2>3. \A p \in Born' : SectionRunsOn(p)'
    BY <2>1 DEF Control, SectionRunsOn, Born, AtEnd, Op, heapVars
  <2>4. RootAlone' /\ MainFirst'
    BY <2>1 DEF Control, RootAlone, MainFirst, Born, Creates
  <2>. QED
    BY <2>2, <2>3, <2>4 DEF Control
<1>. QED
  BY <1>1, ProgramControl, PhaseControl, CommitControl, ResumeControl, ForkControl
     DEF Next, Library, Terminated

-----------------------------------------------------------------------------
(* Counters *)

\* The lines of p's section that have incremented o.
Done(p, o) == {i \in checkpoint[p].pc..(stack[p].pc - 1) : Body(p)[i] = Increment(o)}

\* The lines of p whose increment of o is in the heap.
Counted(p, o) == {i \in Committed(p) : Body(p)[i] = Increment(o)}

\* In its view of the heap a section finds its own increments on top of those
\* that have been committed, as long as nobody else has committed to the page;
\* and between the load and the store of an increment it has that in a register.
SectionCounts(p) ==
  phase[p] \in G!Open =>
    \A o \in Objects :
      /\ Page(o) \notin writes[p] => Done(p, o) = {}
      /\ Page(o) \notin newer[p] => Value(p, o) = heap[o] + Cardinality(Done(p, o))
      /\ checkpoint[p].pc <= Len(Body(p)) => Body(p)[checkpoint[p].pc] # Increment(o)
      /\ phase[p] = "running" /\ ~AtEnd(p) /\ Op(p) = Increment(o) =>
           /\ Page(o) \in reads[p]
           /\ Page(o) \notin newer[p] => stack[p].reg = Value(p, o)

Applied(o) == UNION {{p} \X Counted(p, o) : p \in Born}

HeapCounts == \A o \in Objects : IsFiniteSet(Applied(o)) /\ heap[o] = Cardinality(Applied(o))

CountInv == (\A p \in Born : SectionCounts(p)) /\ HeapCounts

LEMMA LinesTame ==
  ASSUME Shapes, program # "order_violation", NEW p \in Procs
  PROVE  /\ Len(Body(p)) \in Nat
         /\ \A i \in 1..Len(Body(p)), o \in Objects :
              Body(p)[i] = Increment(o) => i > 1 /\ Body(p)[i - 1] = Load(o)
         /\ ~AtEnd(p) => stack[p].pc \in 1..Len(Body(p)) /\ Op(p) = Body(p)[stack[p].pc]
         /\ ~AtEnd(p) /\ Op(p).op = "put" =>
              /\ stack[p].fn = "main" /\ Op(p).val = 0
              /\ \A j \in 1..(stack[p].pc - 1) : Body(p)[j].op = "put"
         /\ ~AtEnd(p) => Op(p).op # "put_if"
<1> DEFINE f == stack[p].fn
<1>1. program \in DOMAIN Code /\ f \in DOMAIN Code[program] /\ stack[p].pc \in Nat \ {0}
  BY SystemAssumption DEF Shapes, Frames
<1>2. Tame(Body(p), f, DOMAIN Code[program])
  BY <1>1, CodeTame DEF Body
<1>3. Len(Body(p)) \in Nat
  BY <1>2 DEF Tame
<1>4. ~AtEnd(p) => stack[p].pc \in 1..Len(Body(p)) /\ Op(p) = Body(p)[stack[p].pc]
  BY <1>1, <1>3 DEF AtEnd, Op, Body
<1>5. f # "main" => PutsNothing(Body(p))
  BY <1>2 DEF Tame
<1>6. f = "main" => PutsZeros(Body(p))
  BY <1>2 DEF Tame
<1>7. LoadsFirst(Body(p))
  BY <1>2 DEF Tame
<1>. QED
  BY <1>3, <1>4, <1>5, <1>6, <1>7 DEF PutsNothing, PutsZeros, LoadsFirst

\* What comes before the line of an increment.
LEMMA LineBefore ==
  ASSUME Shapes, program # "order_violation", NEW p \in Procs, NEW i \in Nat, NEW o \in Objects,
         i + 1 <= Len(Body(p)), Body(p)[i + 1] = Increment(o)
  PROVE  i > 0 /\ Body(p)[i] = Load(o)
<1> DEFINE k == i + 1
<1>1. Len(Body(p)) \in Nat /\ k \in 1..Len(Body(p)) /\ Body(p)[k] = Increment(o)
  BY LinesTame
<1>2. k - 1 = i
  OBVIOUS
<1> HIDE DEF k
<1>3. k > 1 /\ Body(p)[k - 1] = Load(o)
  BY <1>1, LinesTame
<1>. QED
  BY <1>2, <1>3 DEF k

LEMMA DoneFinite ==
  ASSUME Shapes, NEW p \in Procs, NEW o
  PROVE  IsFiniteSet(Done(p, o)) /\ Cardinality(Done(p, o)) \in Nat
<1>1. checkpoint[p].pc \in Int /\ stack[p].pc - 1 \in Int
  BY DEF Shapes, Frames
<1>2. IsFiniteSet(checkpoint[p].pc..(stack[p].pc - 1))
  BY <1>1, FS_Interval
<1>3. IsFiniteSet(Done(p, o))
  BY <1>2, FS_Subset DEF Done
<1>. QED
  BY <1>3, FS_CardinalityType

LEMMA DoneGrows ==
  ASSUME Shapes, NEW p \in Procs, NEW o, UNCHANGED <<program, checkpoint[p]>>,
         checkpoint[p].pc <= stack[p].pc,
         stack'[p].fn = stack[p].fn, stack'[p].pc = stack[p].pc + 1
  PROVE  /\ Body(p)[stack[p].pc] # Increment(o) => Done(p, o)' = Done(p, o)
         /\ Body(p)[stack[p].pc] = Increment(o) =>
              Cardinality(Done(p, o)') = Cardinality(Done(p, o)) + 1
<1>1. stack[p].pc \in Nat /\ checkpoint[p].pc \in Nat
  BY DEF Shapes, Frames
<1>2. Body(p)' = Body(p)
  BY DEF Body
<1>3. Body(p)[stack[p].pc] # Increment(o) => Done(p, o)' = Done(p, o)
  BY <1>1, <1>2 DEF Done
<1>4. ASSUME Body(p)[stack[p].pc] = Increment(o)
      PROVE  Cardinality(Done(p, o)') = Cardinality(Done(p, o)) + 1
  <2>1. Done(p, o)' = Done(p, o) \cup {stack[p].pc} /\ stack[p].pc \notin Done(p, o)
    BY <1>1, <1>2, <1>4 DEF Done
  <2>. QED
    BY <2>1, DoneFinite, FS_AddElement
<1>. QED
  BY <1>3, <1>4

\* What another process does to the section of q: it makes a page newer.
LEMMA CountsStay ==
  ASSUME NEW q, Same(q), UNCHANGED program, SectionCounts(q),
         \A o \in Objects :
           Page(o) \notin newer'[q] => Page(o) \notin newer[q] /\ heap'[o] = heap[o]
  PROVE  SectionCounts(q)'
<1>1. \A o \in Objects : Done(q, o)' = Done(q, o)
  BY DEF Same, Done, Body
<1>2. \A o \in Objects : Page(o) \notin newer'[q] => Value(q, o)' = Value(q, o)
  BY DEF Same, Value, Page
<1>3. Body(q)' = Body(q) /\ AtEnd(q)' = AtEnd(q) /\ Op(q)' = Op(q)
  BY DEF Same, Body, AtEnd, Op
<1>. QED
  BY <1>1, <1>2, <1>3 DEF SectionCounts, Same

LEMMA HeapStaysCounted ==
  ASSUME HeapCounts, UNCHANGED heap, Born \subseteq Born',
         \A q \in Born, o \in Objects : Counted(q, o)' = Counted(q, o),
         \A q \in Born' \ Born, o \in Objects : Counted(q, o)' = {}
  PROVE  HeapCounts'
<1>1. \A o \in Objects : Applied(o)' = Applied(o)
  BY DEF Applied
<1>. QED
  BY <1>1 DEF HeapCounts

\* Nothing is counted before its section commits.
LEMMA CountedStays ==
  ASSUME NEW q, NEW o, UNCHANGED <<program, checkpoint[q], stack[q].fn>>,
         phase[q] \in G!Open, phase'[q] \in G!Open
  PROVE  Counted(q, o)' = Counted(q, o)
BY DEF Counted, Committed, Body

LEMMA SameCounted ==
  ASSUME NEW q, NEW o, Same(q), UNCHANGED program
  PROVE  Counted(q, o)' = Counted(q, o)
BY DEF Same, Counted, Committed, Body

\* The state of a section after a line that changes its view of no counter but
\* by an increment.
LEMMA LineCounts ==
  ASSUME Control, CountInv, program # "order_violation", NEW p \in Born,
         phase[p] = "running", ~AtEnd(p),
         UNCHANGED <<phase, program, heap, newer, checkpoint>>,
         stack'[p].fn = stack[p].fn, stack'[p].pc = stack[p].pc + 1,
         writes[p] \subseteq writes'[p],
         \A o \in Objects :
           IF Op(p) = Increment(o)
           THEN /\ Page(o) \in writes'[p]
                /\ Page(o) \notin newer[p] => Value(p, o)' = Value(p, o) + 1
           ELSE Page(o) \notin newer[p] => Value(p, o)' = Value(p, o),
         \A o \in Objects :
           Op(p) = Load(o) => Page(o) \in reads'[p] /\ stack'[p].reg = Value(p, o)
  PROVE  SectionCounts(p)'
<1>1. Shapes /\ p \in Procs /\ checkpoint[p].pc <= stack[p].pc /\ SectionCounts(p)
  BY DEF Control, SectionRunsOn, CountInv, Born
<1>2. /\ Len(Body(p)) \in Nat /\ stack[p].pc \in 1..Len(Body(p)) /\ Op(p) = Body(p)[stack[p].pc]
      /\ \A i \in 1..Len(Body(p)), o \in Objects :
           Body(p)[i] = Increment(o) => i > 1 /\ Body(p)[i - 1] = Load(o)
  BY <1>1, LinesTame
<1>3. Body(p)' = Body(p)
  BY DEF Body
<1>4. \A o \in Objects : /\ Op(p) # Increment(o) => Done(p, o)' = Done(p, o)
                         /\ Op(p) = Increment(o) => Cardinality(Done(p, o)') = Cardinality(Done(p, o)) + 1
  BY <1>1, <1>2, DoneGrows
<1>5. ASSUME NEW o \in Objects, ~AtEnd(p)', Op(p)' = Increment(o)
      PROVE  Op(p) = Load(o)
  <2>1. stack[p].pc + 1 <= Len(Body(p)) /\ Body(p)[stack[p].pc + 1] = Increment(o)
    BY <1>2, <1>3, <1>5 DEF AtEnd, Op, Body
  <2>. QED
    BY <1>1, <1>2, <2>1, LineBefore
<1>6. SUFFICES ASSUME NEW o \in Objects
      PROVE  /\ Page(o) \notin writes'[p] => Done(p, o)' = {}
             /\ Page(o) \notin newer[p] =>
                  Value(p, o)' = heap[o] + Cardinality(Done(p, o)')
             /\ checkpoint[p].pc <= Len(Body(p)) => Body(p)[checkpoint[p].pc] # Increment(o)
             /\ ~AtEnd(p)' /\ Op(p)' = Increment(o) =>
                  /\ Page(o) \in reads'[p]
                  /\ Page(o) \notin newer[p] => stack'[p].reg = Value(p, o)'
  BY <1>3 DEF SectionCounts
<1>7. /\ Page(o) \notin writes[p] => Done(p, o) = {}
      /\ Page(o) \notin newer[p] => Value(p, o) = heap[o] + Cardinality(Done(p, o))
      /\ checkpoint[p].pc <= Len(Body(p)) => Body(p)[checkpoint[p].pc] # Increment(o)
  BY <1>1 DEF SectionCounts, G!Open
<1>8. Page(o) \notin writes'[p] => Done(p, o)' = {}
  BY <1>4, <1>7
<1>9. Page(o) \notin newer[p] => Value(p, o)' = heap[o] + Cardinality(Done(p, o)')
  <2>1. heap[o] \in Nat /\ Cardinality(Done(p, o)) \in Nat
    BY <1>1, DoneFinite DEF Shapes
  <2>. QED
    BY <1>4, <1>7, <2>1
<1>10. ASSUME ~AtEnd(p)', Op(p)' = Increment(o)
       PROVE  /\ Page(o) \in reads'[p]
              /\ Page(o) \notin newer[p] => stack'[p].reg = Value(p, o)'
  <2>1. Op(p) = Load(o) /\ Op(p) # Increment(o)
    BY <1>5, <1>10, Distinct
  <2>. QED
    BY <2>1
<1>. QED
  BY <1>7, <1>8, <1>9, <1>10

\* Before the first pthread_create of main there is nobody else, and nothing
\* but zeros in the heap.
LEMMA PutsAlone ==
  ASSUME Control, CountInv, program # "order_violation", NEW p \in Born,
         phase[p] = "running", ~AtEnd(p), Op(p).op = "put", NEW o \in Objects
  PROVE  Value(p, o) = 0 \/ Page(o) \in newer[p]
<1>1. Shapes /\ p \in Procs /\ checkpoint[p].pc <= stack[p].pc /\ SectionCounts(p)
  BY DEF Control, SectionRunsOn, CountInv, Born
<1>2. /\ stack[p].fn = "main" /\ stack[p].pc \in Nat /\ checkpoint[p].pc \in Nat
      /\ \A j \in 1..(stack[p].pc - 1) : Body(p)[j].op = "put" /\ Body(p)[j] # Increment(o)
  <2>1. \A j : Body(p)[j].op = "put" => Body(p)[j] # Increment(o)
    BY Distinct
  <2>. QED
    BY <1>1, <2>1, LinesTame DEF Shapes, Frames
<1>3. Born = {p}
  <2>1. ASSUME NEW q \in Born, q # p PROVE FALSE
    <3>1. Creates("main", checkpoint[p].pc - 1)
      BY <1>2, <2>1 DEF Control, MainFirst
    <3>. QED
      BY <1>1, <1>2, <3>1 DEF Creates, Body
  <2>. QED
    BY <2>1
<1>4. Counted(p, o) = {} /\ Done(p, o) = {}
  <2>1. checkpoint[p].pc \in Nat \ {0}
    BY <1>1 DEF Shapes, Frames
  <2>. QED
    BY <1>1, <1>2, <2>1 DEF Counted, Committed, Done, G!Open
<1>5. Applied(o) = {}
  BY <1>3, <1>4 DEF Applied
<1>6. heap[o] = 0
  BY <1>5, FS_EmptySet DEF CountInv, HeapCounts
<1>7. Page(o) \notin newer[p] => Value(p, o) = heap[o] + Cardinality(Done(p, o))
  BY <1>1 DEF SectionCounts, G!Open
<1>. QED
  BY <1>4, <1>6, <1>7, FS_EmptySet

LEMMA ProgramCounts ==
  ASSUME Control, Threads, CountInv, program # "order_violation", NEW p \in Procs, ProgramStep(p)
  PROVE  CountInv'
<1>1. Shapes
  BY DEF Control
<1>2. /\ p \in Born /\ phase[p] = "running" /\ ~AtEnd(p)
      /\ UNCHANGED <<phase, call, parent, program, heap, newer, checkpoint>>
      /\ Shapes'
      /\ stack'[p].fn = stack[p].fn /\ stack'[p].pc = stack[p].pc + 1
      /\ \A q \in Procs \ {p} :
           /\ stack'[q] = stack[q] /\ touched'[q] = touched[q] /\ copies'[q] = copies[q]
           /\ reads'[q] = reads[q] /\ writes'[q] = writes[q]
  BY <1>1, ProgramEffect
<1>3. \A q \in Procs \ {p} : Same(q)
  BY <1>2 DEF Same
<1>4. Born' = Born
  BY <1>2 DEF Born
<1>5. HeapCounts'
  <2>1. \A q \in Born, o \in Objects : Counted(q, o)' = Counted(q, o)
    <3> TAKE q \in Born, o \in Objects
    <3>1. q # p => Counted(q, o)' = Counted(q, o)
      BY <1>2, <1>3, SameCounted DEF Born
    <3>2. Counted(p, o)' = Counted(p, o)
      BY <1>2, CountedStays DEF G!Open
    <3>. QED
      BY <3>1, <3>2
  <2>. QED
    BY <1>2, <1>4, <2>1, HeapStaysCounted DEF CountInv
<1>6. SectionCounts(p)'
  <2>1. /\ Op(p).op # "put_if"
        /\ Op(p).op = "put" => Op(p).val = 0
        /\ Op(p).op \in {"load", "increment", "put", "put_if", "require"} => Op(p).at \in Objects
        /\ \A o \in Objects : Op(p) = Increment(o) <=> Op(p).op = "increment" /\ Op(p).at = o
    BY <1>1, <1>2, LinesTame, OpTyped
  <2>2. \A o \in Objects : Op(p) = Load(o) => Op(p).op = "load" /\ Op(p).at = o
    BY Distinct
  <2>3. writes \in [Procs -> SUBSET Layout] /\ reads \in [Procs -> SUBSET Layout]
        /\ copies \in [Procs -> [Objects -> Nat]] /\ stack \in [Procs -> Frames]
    BY <1>1 DEF Shapes
  <2>4. CASE LoadStep(p)
    <3>1. Op(p).op = "load" /\ UNCHANGED <<copies, writes, heap>>
      BY <1>2, <2>4 DEF LoadStep, At
    <3>2. Page(Op(p).at) \in reads'[p] /\ stack'[p].reg = Value(p, Op(p).at)
      BY <2>3, <2>4 DEF LoadStep, Fault, Frames
    <3>3. \A o \in Objects : Value(p, o)' = Value(p, o)
      BY <3>1 DEF Value, Page
    <3>. QED
      BY <1>2, <2>1, <2>2, <3>1, <3>2, <3>3, LineCounts
  <2>5. CASE SkipStep(p)
    BY <2>1, <2>5 DEF SkipStep, At
  <2>6. CASE RequireStep(p) \/ MutexStep(p)
    <3>1. Op(p).op \in {"require", "lock", "unlock"} /\ UNCHANGED <<copies, writes, heap>>
      BY <1>2, <2>6 DEF RequireStep, MutexStep, At, heapVars
    <3>2. \A o \in Objects : Value(p, o)' = Value(p, o)
      BY <3>1 DEF Value, Page
    <3>. QED
      BY <1>2, <2>1, <2>2, <3>1, <3>2, LineCounts
  <2>7. CASE StoreStep(p)
    <3>1. PICK v : /\ Write(p, Op(p).at, v)
                   /\ \/ Op(p).op = "increment" /\ v = stack[p].reg + 1
                      \/ Op(p).op = "put" /\ v = 0
      BY <2>1, <2>7 DEF StoreStep, At
    <3>2. Op(p).at \in Objects
      BY <2>1, <3>1
    <3>3. writes'[p] = writes[p] \cup {Page(Op(p).at)}
      BY <1>1, <1>2, <3>1, <3>2, WriteEffect
    <3>4. \A o \in Objects : Value(p, o)' = IF o = Op(p).at THEN v ELSE Value(p, o)
      BY <1>1, <1>2, <3>1, <3>2, WriteEffect
    <3>5. \A o \in Objects :
            IF Op(p) = Increment(o)
            THEN /\ Page(o) \in writes'[p]
                 /\ Page(o) \notin newer[p] => Value(p, o)' = Value(p, o) + 1
            ELSE Page(o) \notin newer[p] => Value(p, o)' = Value(p, o)
      <4> TAKE o \in Objects
      <4>1. CASE Op(p) = Increment(o)
        <5>1. Op(p).at = o /\ v = stack[p].reg + 1
          BY <2>1, <3>1, <4>1
        <5>2. Page(o) \notin newer[p] => stack[p].reg = Value(p, o)
          BY <1>2, <4>1 DEF CountInv, SectionCounts, G!Open
        <5>. QED
          BY <3>3, <3>4, <4>1, <5>1, <5>2
      <4>2. CASE Op(p) # Increment(o) /\ o = Op(p).at
        <5>1. Op(p).op = "put" /\ v = 0
          BY <2>1, <3>1, <4>2
        <5>2. Value(p, o) = 0 \/ Page(o) \in newer[p]
          BY <1>2, <5>1, PutsAlone
        <5>. QED
          BY <3>4, <4>2, <5>1, <5>2
      <4>3. CASE Op(p) # Increment(o) /\ o # Op(p).at
        BY <3>4, <4>3
      <4>. QED
        BY <4>1, <4>2, <4>3
    <3>6. Op(p).op # "load"
      BY <3>1
    <3>. QED
      BY <1>2, <2>2, <3>3, <3>5, <3>6, LineCounts
  <2>. QED
    BY <2>4, <2>5, <2>6, <2>7 DEF ProgramStep
<1>7. \A q \in Born' : SectionCounts(q)'
  BY <1>2, <1>3, <1>4, <1>6, CountsStay DEF CountInv, Born
<1>. QED
  BY <1>5, <1>7 DEF CountInv

LEMMA PhaseCounts ==
  ASSUME Control, Threads, CountInv, program # "order_violation", NEW p \in Procs,
         Calling(p) \/ PredecessorExited(p) \/ Exit(p)
  PROVE  CountInv'
<1>1. Shapes
  BY DEF Control
<1>2. /\ UNCHANGED <<program, heapVars, programVars, touched, parent>>
      /\ \A q \in Procs \ {p} : Same(q)
      /\ \/ phase[p] = "running" /\ phase'[p] = IF touched[p] THEN "waiting" ELSE "ended"
         \/ phase[p] = "waiting" /\ phase'[p] = "validating"
         \/ phase[p] = "ended" /\ phase'[p] = "exited"
  BY <1>1, PhaseEffect
<1>3. UNCHANGED <<program, heap, copies, reads, writes, newer, stack, checkpoint>>
  BY <1>2 DEF heapVars, programVars
<1>4. Born' = Born
  BY <1>2 DEF Born, Same
<1>5. /\ \A o : Done(p, o)' = Done(p, o)
      /\ \A o : Value(p, o)' = Value(p, o)
      /\ Body(p)' = Body(p)
  BY <1>3 DEF Done, Value, Body, Page
<1>6. ASSUME p \in Born PROVE SectionCounts(p)'
  BY <1>2, <1>3, <1>5, <1>6 DEF CountInv, SectionCounts, G!Open
<1>7. \A q \in Born' : SectionCounts(q)'
  BY <1>2, <1>3, <1>4, <1>6, CountsStay DEF CountInv, Born
<1>8. ASSUME p \in Born, NEW o \in Objects PROVE Counted(p, o)' = Counted(p, o)
  <2>1. CASE phase[p] \in G!Open /\ phase'[p] \in G!Open
    BY <1>3, <2>1, CountedStays
  <2>2. CASE phase[p] \notin G!Open /\ phase'[p] \notin G!Open
    BY <1>3, <2>2 DEF Counted, Committed, Body
  <2>3. CASE phase[p] = "running" /\ ~touched[p] /\ phase'[p] = "ended"
    <3>1. /\ writes[p] = {} /\ checkpoint[p].pc <= stack[p].pc
          /\ checkpoint[p].pc \in Nat \ {0} /\ stack[p].pc \in Nat
      BY <1>1, <1>8, <2>3 DEF Control, SectionRunsOn, Shapes, Frames, G!Open, Born
    <3>2. Done(p, o) = {}
      BY <1>8, <2>3, <3>1 DEF CountInv, SectionCounts, G!Open
    <3>. QED
      BY <1>3, <2>3, <3>1, <3>2 DEF Counted, Committed, Done, Body, G!Open
  <2>. QED
    BY <1>2, <2>1, <2>2, <2>3 DEF G!Open
<1>9. HeapCounts'
  <2>1. \A q \in Born, o \in Objects : Counted(q, o)' = Counted(q, o)
    BY <1>2, <1>8, SameCounted DEF Born
  <2>. QED
    BY <1>3, <1>4, <2>1, HeapStaysCounted DEF CountInv
<1>. QED
  BY <1>7, <1>9 DEF CountInv

LEMMA CommitCounts ==
  ASSUME Control, Threads, CountInv, program # "order_violation", NEW p \in Procs, Commit(p)
  PROVE  CountInv'
<1>1. Shapes
  BY DEF Control
<1>2. /\ UNCHANGED <<program, programVars, touched, parent, call, reads, writes, copies>>
      /\ \A q \in Procs \ {p} : Same(q)
      /\ phase[p] = "validating" /\ phase'[p] = "ended"
      /\ \A o \in Objects : heap'[o] = Value(p, o)
      /\ \A q \in Procs \ {p} : newer'[q] = newer[q] \cup writes[p]
      /\ reads[p] \cap newer[p] = {}
  BY <1>1, CommitEffect
<1>3. UNCHANGED <<stack, checkpoint>>
  BY <1>2 DEF programVars
<1>4. p \in Born /\ Born' = Born
  BY <1>2 DEF Control, RootAlone, Born, Same
<1>5. /\ writes[p] \subseteq reads[p] /\ checkpoint[p].pc <= stack[p].pc
      /\ checkpoint[p].pc \in Nat \ {0} /\ stack[p].pc \in Nat \ {0}
  BY <1>1, <1>4 DEF Control, SectionRunsOn, Shapes, Frames, Born
<1>6. \A o \in Objects : /\ Page(o) \notin writes[p] => heap'[o] = heap[o]
                         /\ heap'[o] = heap[o] + Cardinality(Done(p, o))
  <2> TAKE o \in Objects
  <2>1. /\ Page(o) \notin writes[p] => Done(p, o) = {}
        /\ Page(o) \notin newer[p] => Value(p, o) = heap[o] + Cardinality(Done(p, o))
    BY <1>2, <1>4 DEF CountInv, SectionCounts, G!Open
  <2>2. CASE Page(o) \in writes[p]
    BY <1>2, <1>5, <2>1, <2>2
  <2>3. CASE Page(o) \notin writes[p]
    <3>1. heap'[o] = heap[o] /\ heap[o] \in Nat
      BY <1>1, <1>2, <2>3 DEF Value, Shapes
    <3>. QED
      BY <2>1, <2>3, <3>1, FS_EmptySet
  <2>. QED
    BY <2>2, <2>3
<1>7. \A q \in Born' : SectionCounts(q)'
  <2>1. SectionCounts(p)'
    BY <1>2 DEF SectionCounts, G!Open
  <2>2. \A q \in Born \ {p} : SectionCounts(q)'
    BY <1>2, <1>6, CountsStay DEF CountInv, Born
  <2>. QED
    BY <1>4, <2>1, <2>2
<1>8. ASSUME NEW o \in Objects
      PROVE  IsFiniteSet(Applied(o)') /\ heap'[o] = Cardinality(Applied(o)')
  <2>1. Counted(p, o)' = Counted(p, o) \cup Done(p, o) /\ Counted(p, o) \cap Done(p, o) = {}
    BY <1>2, <1>3, <1>5 DEF Counted, Committed, Done, Body, G!Open
  <2>2. \A q \in Born \ {p} : Counted(q, o)' = Counted(q, o)
    BY <1>2, SameCounted DEF Born
  <2>3. Applied(o)' = Applied(o) \cup ({p} \X Done(p, o))
    <3>1. Applied(o)' = UNION {{q} \X Counted(q, o)' : q \in Born}
      BY <1>4 DEF Applied
    <3>. QED
      BY <1>4, <2>1, <2>2, <3>1 DEF Applied
  <2>4. Applied(o) \cap ({p} \X Done(p, o)) = {}
    BY <2>1 DEF Applied
  <2>5. IsFiniteSet(Done(p, o)) /\ Cardinality(Done(p, o)) \in Nat
    BY <1>1, DoneFinite
  <2>6. IsFiniteSet({p} \X Done(p, o)) /\ Cardinality({p} \X Done(p, o)) = Cardinality(Done(p, o))
    <3>1. IsFiniteSet({p}) /\ Cardinality({p}) = 1
      BY FS_Singleton
    <3>2. /\ IsFiniteSet({p} \X Done(p, o))
          /\ Cardinality({p} \X Done(p, o)) = Cardinality({p}) * Cardinality(Done(p, o))
      BY <2>5, <3>1, FS_Product
    <3>. QED
      BY <2>5, <3>1, <3>2
  <2>7. IsFiniteSet(Applied(o)) /\ heap[o] = Cardinality(Applied(o))
    BY DEF CountInv, HeapCounts
  <2>8. /\ IsFiniteSet(Applied(o)')
        /\ Cardinality(Applied(o)') = Cardinality(Applied(o)) + Cardinality(Done(p, o)) - Cardinality({})
    BY <2>3, <2>4, <2>6, <2>7, FS_Union
  <2>9. Cardinality(Applied(o)) \in Nat
    BY <2>7, FS_CardinalityType
  <2>. QED
    BY <1>6, <2>5, <2>7, <2>8, <2>9, FS_EmptySet
<1>. QED
  BY <1>7, <1>8 DEF CountInv, HeapCounts

\* A section that begins has done nothing, and sees the heap as it is.
LEMMA NewSectionCounts ==
  ASSUME Shapes', NEW q \in Procs,
         writes'[q] = {}, newer'[q] = {}, checkpoint'[q] = stack'[q],
         \A o \in Objects : ~AtEnd(q)' => Op(q)' # Increment(o)
  PROVE  SectionCounts(q)'
<1>1. \A o \in Objects : Done(q, o)' = {}
  <2>1. stack'[q].pc \in Nat
    BY DEF Shapes, Frames
  <2>. QED
    BY <2>1 DEF Done
<1>2. \A o \in Objects : Value(q, o)' = heap'[o] /\ heap'[o] \in Nat
  BY DEF Value, Shapes
<1>3. Cardinality({}) = 0
  BY FS_EmptySet
<1>4. \A o \in Objects : Value(q, o)' = heap'[o] + Cardinality(Done(q, o)')
  BY <1>1, <1>2, <1>3
<1>5. AtEnd(q)' <=> ~(checkpoint'[q].pc <= Len(Body(q)'))
  <2>1. Len(Body(q)') \in Nat /\ checkpoint'[q].pc \in Nat
    <3>1. program' \in DOMAIN Code /\ stack'[q].fn \in DOMAIN Code[program']
      BY SystemAssumption DEF Shapes, Frames
    <3>2. Code[program'][stack'[q].fn] \in Seq(Operations(DOMAIN Code[program']))
      BY <3>1, CodeIsOps
    <3>. QED
      BY <3>2 DEF Body, Shapes, Frames
  <2>. QED
    BY <2>1 DEF AtEnd, Body
<1>6. Op(q)' = Body(q)'[checkpoint'[q].pc]
  BY DEF Op, Body
<1>. QED
  BY <1>1, <1>4, <1>5, <1>6 DEF SectionCounts

LEMMA ResumeCounts ==
  ASSUME Control, Threads, CountInv, program # "order_violation", NEW p \in Procs,
         Rollback(p) \/ JoinReturns(p)
  PROVE  CountInv'
<1>1. Shapes
  BY DEF Control
<1>2. Begins({p}) /\ phase[p] \in {"validating", "ended"}
  BY <1>1, RollbackEffect, JoinEffect
<1>3. /\ UNCHANGED <<program, heap>> /\ Shapes'
      /\ phase'[p] = "running" /\ writes'[p] = {} /\ newer'[p] = {} /\ checkpoint'[p] = stack'[p]
      /\ \A q \in Procs \ {p} : Same(q) /\ newer'[q] = newer[q]
  BY <1>2 DEF Begins
<1>4. Born' = Born
  BY <1>2, <1>3 DEF Born, Same
<1>5. ASSUME p \in Born
      PROVE  /\ \A o \in Objects : ~AtEnd(p)' => Op(p)' # Increment(o)
             /\ \A o \in Objects : Counted(p, o)' = Counted(p, o)
  <2>1. /\ checkpoint[p].fn = stack[p].fn
        /\ phase[p] = "ended" /\ call[p].op = "join" => ~AtEnd(p) /\ Op(p).op = "join"
    BY <1>5 DEF Control, SectionRunsOn
  <2>2. /\ stack[p].pc \in Nat \ {0} /\ checkpoint[p].pc \in Nat \ {0}
        /\ Len(Body(p)) \in Nat
        /\ \A i \in 1..Len(Body(p)), o \in Objects :
             Body(p)[i] = Increment(o) => i > 1 /\ Body(p)[i - 1] = Load(o)
        /\ ~AtEnd(p) => Op(p) = Body(p)[stack[p].pc]
    BY <1>1, LinesTame DEF Shapes, Frames
  <2>3. CASE Rollback(p)
    <3>1. phase[p] = "validating" /\ stack'[p] = checkpoint[p]
      BY <1>1, <2>3, RollbackEffect
    <3>2. Body(p)' = Body(p)
      BY <1>3, <2>1, <3>1 DEF Body
    <3>3. \A o \in Objects : checkpoint[p].pc <= Len(Body(p)) => Body(p)[checkpoint[p].pc] # Increment(o)
      BY <1>5, <3>1 DEF CountInv, SectionCounts, G!Open
    <3>4. /\ AtEnd(p)' <=> ~(checkpoint[p].pc <= Len(Body(p)))
          /\ Op(p)' = Body(p)[checkpoint[p].pc]
      BY <2>2, <3>1, <3>2 DEF AtEnd, Op, Body
    <3>5. \A o \in Objects : Counted(p, o)' = Counted(p, o)
      BY <1>3, <2>1, <3>1, CountedStays DEF G!Open
    <3>. QED
      BY <3>3, <3>4, <3>5
  <2>4. CASE JoinReturns(p)
    <3>1. /\ phase[p] = "ended" /\ call[p].op = "join"
          /\ stack'[p].fn = stack[p].fn /\ stack'[p].pc = stack[p].pc + 1
      BY <1>1, <2>4, JoinEffect
    <3>2. Body(p)' = Body(p)
      BY <1>3, <3>1 DEF Body
    <3>3. Body(p)[stack[p].pc].op = "join"
      BY <2>1, <2>2, <3>1
    <3>4. \A o \in Objects : Body(p)[stack[p].pc] # Increment(o) /\ Body(p)[stack[p].pc] # Load(o)
      BY <3>3, Distinct
    <3>5. /\ AtEnd(p)' <=> stack[p].pc + 1 > Len(Body(p))
          /\ Op(p)' = Body(p)[stack[p].pc + 1]
      BY <3>1, <3>2 DEF AtEnd, Op, Body
    <3>6. \A o \in Objects : ~AtEnd(p)' => Op(p)' # Increment(o)
      <4> SUFFICES ASSUME NEW o \in Objects, ~AtEnd(p)', Op(p)' = Increment(o)
                   PROVE  FALSE
        OBVIOUS
      <4> DEFINE k == stack[p].pc
      <4>1. k \in Nat /\ k + 1 <= Len(Body(p)) /\ Body(p)[k + 1] = Increment(o)
        BY <2>2, <3>5
      <4> HIDE DEF k
      <4>2. Body(p)[k] = Load(o)
        BY <1>1, <4>1, LineBefore
      <4>. QED
        BY <3>4, <4>2 DEF k
    <3>7. Committed(p)' = Committed(p) \cup {stack[p].pc}
      BY <1>3, <2>2, <3>1 DEF Committed, G!Open
    <3>8. \A o \in Objects : Counted(p, o)' = Counted(p, o)
      BY <3>2, <3>4, <3>7 DEF Counted
    <3>. QED
      BY <3>6, <3>8
  <2>. QED
    BY <2>3, <2>4
<1>6. \A q \in Born' : SectionCounts(q)'
  <2>1. p \in Born => SectionCounts(p)'
    BY <1>3, <1>5, NewSectionCounts
  <2>2. \A q \in Born \ {p} : SectionCounts(q)'
    BY <1>3, CountsStay DEF CountInv, Born
  <2>. QED
    BY <1>4, <2>1, <2>2
<1>7. HeapCounts'
  <2>1. \A q \in Born, o \in Objects : Counted(q, o)' = Counted(q, o)
    BY <1>3, <1>5, SameCounted DEF Born
  <2>. QED
    BY <1>3, <1>4, <2>1, HeapStaysCounted DEF CountInv
<1>. QED
  BY <1>6, <1>7 DEF CountInv

LEMMA ForkCounts ==
  ASSUME Control, Threads, CountInv, program # "order_violation",
         NEW p \in Procs, NEW c \in Procs, Fork(p, c)
  PROVE  CountInv'
<1>1. Shapes
  BY DEF Control
<1>p. phase[p] = "ended" /\ call[p].op = "create"
  BY DEF Fork, G!Fork
<1>2. p # Root => ~AtEnd(p) /\ Op(p).op = "create" /\ p \in Born
  BY <1>p DEF Control, SectionRunsOn, Born
<1>3. /\ c # p /\ Begins({p, c}) /\ phase[c] = "unborn"
      /\ stack'[p].fn = stack[p].fn /\ stack'[p].pc = stack[p].pc + 1
      /\ stack'[c].pc = 1
  <2>1. \A f : Enter(f).pc = 1
    BY DEF Enter
  <2>2. /\ c # p /\ Begins({p, c}) /\ phase[c] = "unborn"
        /\ stack'[p].fn = stack[p].fn /\ stack'[p].pc = stack[p].pc + 1
        /\ stack'[c] = Enter(IF p = Root THEN "main" ELSE Op(p).fn)
    BY <1>1, <1>2, ForkEffect
  <2>. QED
    BY <2>1, <2>2
<1>4. /\ UNCHANGED <<program, heap>> /\ Shapes'
      /\ \A q \in {p, c} : /\ phase'[q] = "running" /\ writes'[q] = {} /\ newer'[q] = {}
                           /\ checkpoint'[q] = stack'[q]
      /\ \A q \in Procs \ {p, c} : Same(q) /\ newer'[q] = newer[q]
  BY <1>3 DEF Begins
<1>5. c # Root /\ Born' = Born \cup {c} /\ c \notin Born
  BY <1>p, <1>3, <1>4 DEF Control, RootAlone, Born, Same
<1>6. ASSUME p # Root
      PROVE  /\ \A o \in Objects : ~AtEnd(p)' => Op(p)' # Increment(o)
             /\ \A o \in Objects : Counted(p, o)' = Counted(p, o)
  <2>1. stack[p].pc \in Nat \ {0} /\ Len(Body(p)) \in Nat /\ Op(p) = Body(p)[stack[p].pc]
    BY <1>1, <1>2, <1>6, LinesTame DEF Shapes, Frames
  <2>2. Body(p)' = Body(p)
    BY <1>3, <1>4 DEF Body
  <2>3. \A o \in Objects : Body(p)[stack[p].pc] # Increment(o) /\ Body(p)[stack[p].pc] # Load(o)
    BY <1>2, <1>6, <2>1, Distinct
  <2>4. AtEnd(p)' <=> stack[p].pc + 1 > Len(Body(p))
    BY <1>3, <2>2 DEF AtEnd, Body
  <2>5. Op(p)' = Body(p)[stack[p].pc + 1]
    BY <1>3, <2>2 DEF Op, Body
  <2>6. \A o \in Objects : ~AtEnd(p)' => Op(p)' # Increment(o)
    BY <1>1, <2>1, <2>3, <2>4, <2>5, LineBefore
  <2>7. Committed(p)' = Committed(p) \cup {stack[p].pc}
    <3>1. phase'[p] = "running" /\ checkpoint'[p].pc = stack[p].pc + 1
      BY <1>3, <1>4
    <3>. QED
      BY <1>p, <2>1, <3>1 DEF Committed, G!Open
  <2>8. \A o \in Objects : Counted(p, o)' = Counted(p, o)
    BY <2>2, <2>3, <2>7 DEF Counted
  <2>. QED
    BY <2>6, <2>8
<1>7. \A o \in Objects : ~AtEnd(c)' => Op(c)' # Increment(o)
  <2> SUFFICES ASSUME NEW o \in Objects, ~AtEnd(c)', Op(c)' = Increment(o)
               PROVE  FALSE
    OBVIOUS
  <2>1. program' # "order_violation" /\ stack'[c].pc = 1
    BY <1>3, <1>4
  <2>2. stack'[c].fn \in DOMAIN Code[program'] /\ program' \in DOMAIN Code
    BY <1>4, SystemAssumption DEF Shapes, Frames
  <2>3. LoadsFirst(Code[program'][stack'[c].fn]) /\ Len(Code[program'][stack'[c].fn]) \in Nat
    BY <2>1, <2>2, CodeTame DEF Tame
  <2>. QED
    BY <2>1, <2>3 DEF LoadsFirst, AtEnd, Op
<1>8. \A q \in Born' : SectionCounts(q)'
  <2>1. \A q \in Born' \cap {p, c} : SectionCounts(q)'
    BY <1>4, <1>5, <1>6, <1>7, NewSectionCounts DEF Born
  <2>2. \A q \in Born \ {p} : SectionCounts(q)'
    BY <1>4, <1>5, CountsStay DEF CountInv, Born
  <2>. QED
    BY <1>5, <2>1, <2>2
<1>9. HeapCounts'
  <2>1. \A q \in Born, o \in Objects : Counted(q, o)' = Counted(q, o)
    BY <1>4, <1>5, <1>6, SameCounted DEF Born
  <2>2. \A o \in Objects : Counted(c, o)' = {}
    <3>1. checkpoint'[c].pc - 1 = 0 /\ phase'[c] \in G!Open
      BY <1>3, <1>4 DEF G!Open
    <3>2. Committed(c)' = {}
      BY <3>1 DEF Committed
    <3>. QED
      BY <3>2 DEF Counted
  <2>. QED
    BY <1>4, <1>5, <2>1, <2>2, HeapStaysCounted DEF CountInv
<1>. QED
  BY <1>8, <1>9 DEF CountInv

LEMMA InitCounts == Init => CountInv
<1> SUFFICES ASSUME Init PROVE CountInv
  OBVIOUS
<1>1. Born = {}
  BY DEF Init, G!Init, Born
<1>2. \A o \in Objects : Applied(o) = {}
  BY <1>1 DEF Applied
<1>. QED
  BY <1>1, <1>2, FS_EmptySet DEF Init, CountInv, HeapCounts

LEMMA NextCounts ==
  Control /\ Threads /\ CountInv /\ program # "order_violation" /\ [Next]_vars => CountInv'
<1> SUFFICES ASSUME Control, Threads, CountInv, program # "order_violation", [Next]_vars
             PROVE  CountInv'
  OBVIOUS
<1>1. CASE UNCHANGED vars
  <2>1. UNCHANGED <<program, heap, newer>> /\ \A q \in Procs : Same(q)
    BY <1>1 DEF vars, gvars, heapVars, programVars, Same
  <2>2. Born' = Born
    BY <2>1 DEF Born, Same
  <2>3. \A q \in Born' : SectionCounts(q)'
    BY <2>1, <2>2, CountsStay DEF CountInv, Born
  <2>4. \A q \in Born, o \in Objects : Counted(q, o)' = Counted(q, o)
    BY <2>1, SameCounted DEF Born
  <2>. QED
    BY <2>1, <2>2, <2>3, <2>4, HeapStaysCounted DEF CountInv
<1>2. CASE Terminated
  BY <1>1, <1>2 DEF Terminated
<1>. QED
  BY <1>1, <1>2, ProgramCounts, PhaseCounts, CommitCounts, ResumeCounts, ForkCounts
     DEF Next, Library

\* However many threads increment a counter at the same time, with a mutex or
\* without, whatever shares a page with it and however often a section is rolled
\* back and run again, in the heap is every committed increment, once
\* (IsHeapConsistent and CommitHeap, gstm.cc:179 and 197; AtomicAbort,
\* gthread.cc:120).
THEOREM UpdatesKept == Spec => []NoUpdateLost
<1> DEFINE I == Control /\ (program # "order_violation" => CountInv)
<1>1. Init => I
  BY InitControl, InitCounts
<1>2. Threads /\ I /\ [Next]_vars => I'
  <2> SUFFICES ASSUME Threads, I, [Next]_vars PROVE I'
    OBVIOUS
  <2>1. Control'
    BY NextControl
  <2>2. program' = program
    BY ProgramIsFixed
  <2>. QED
    BY <2>1, <2>2, NextCounts
<1>3. I => NoUpdateLost
  <2> SUFFICES ASSUME I, program # "order_violation", NEW o \in Objects
               PROVE  heap[o] = Cardinality(UNION {{p} \X {i \in Committed(p) :
                         Code[program][stack[p].fn][i] = Increment(o)} : p \in Born})
    BY DEF NoUpdateLost
  <2>. QED
    BY DEF CountInv, HeapCounts, Applied, Counted, Body
<1>. QED
  BY <1>1, <1>2, <1>3, ThreadsKnown, PTL DEF Spec

-----------------------------------------------------------------------------
(* order_violation.cc *)

\* The object that fn1 or fn2 of order_violation.cc loads.
Tested(f) == IF f = "fn1" THEN "y" ELSE "x"

SomethingLeft == heap["x"] = 1 \/ heap["y"] = 1

\* main sets x and y in its first section, and does no more in the others.
MainSets(p) ==
  /\ checkpoint[p].pc = 1 /\ stack[p].pc > 1 /\ phase[p] \in G!Open =>
       Page("x") \in writes[p] /\ Value(p, "x") = 1
  /\ stack[p].pc = 1 /\ phase[p] \in G!Open => writes[p] = {}
  /\ checkpoint[p].pc # 1 =>
       checkpoint[p].pc > 2 /\ (phase[p] \in G!Open => writes[p] = {})
  /\ checkpoint[p].pc # 1 \/ (phase[p] = "ended" /\ call[p].op \in {"create", "join"}) =>
       SomethingLeft

\* A thread that clears the one object has found 1 in the other, and will not
\* commit if that is not so any more.
ThreadTests(p) ==
  LET o == Tested(stack[p].fn)
  IN  /\ SomethingLeft
      /\ checkpoint[p].pc = 1
      /\ phase[p] \in G!Open /\ stack[p].pc > 1 =>
           /\ Page(o) \in reads[p]
           /\ Page(o) \notin newer[p] /\ stack[p].pc = 2 => Value(p, o) = stack[p].reg
           /\ Page(o) \notin newer[p] /\ writes[p] # {} => Value(p, o) = 1
      /\ phase[p] \in G!Open /\ stack[p].pc <= 2 => writes[p] = {}

LeavesSomething(p) == IF stack[p].fn = "main" THEN MainSets(p) ELSE ThreadTests(p)

FirstInv == \A p \in Born : LeavesSomething(p)

LEMMA Concatenated ==
  ASSUME NEW A, NEW s \in Seq(A), NEW t \in Seq(A)
  PROVE  /\ s \o t \in Seq(A) /\ Len(s \o t) = Len(s) + Len(t)
         /\ \A i \in 1..(Len(s) + Len(t)) :
              (s \o t)[i] = IF i <= Len(s) THEN s[i] ELSE t[i - Len(s)]
OBVIOUS

\* The lines of main in order_violation.cc.
LEMMA ViolationMain ==
  /\ order_violation_main \in Seq(Operations({"main", "fn1", "fn2"}))
  /\ Len(order_violation_main) = 6
  /\ order_violation_main[1] = Put("x", 1) /\ order_violation_main[2] = Put("y", 1)
  /\ order_violation_main[3] = Create("fn1") /\ order_violation_main[4] = Create("fn2")
  /\ order_violation_main[5] = Join(1) /\ order_violation_main[6] = Join(2)
<1> DEFINE creates == <<Create("fn1"), Create("fn2")>>
           sets == PutAll(Pair, 1)
           A == Operations({"main", "fn1", "fn2"})
<1>1. sets = <<Put("x", 1), Put("y", 1)>>
  <2>1. Len(Pair) = 2 /\ Pair[1] = "x" /\ Pair[2] = "y"
    BY DEF Pair
  <2>2. sets = [i \in 1..2 |-> Put(Pair[i], 1)]
    BY <2>1 DEF PutAll
  <2>. QED
    BY <2>1, <2>2
<1>2. PICK j : j = JoinAll(2)
  OBVIOUS
<1>3. /\ sets \in Seq(A) /\ Len(sets) = 2
      /\ creates \in Seq(A) /\ Len(creates) = 2
      /\ j \in Seq(A) /\ Len(j) = 2 /\ j[1] = Join(1) /\ j[2] = Join(2)
  <2>1. Pair \in Seq(Objects)
    BY DEF Pair, Objects
  <2>2. sets \in Seq(A) /\ j \in Seq(A)
    BY <1>2, <2>1, OtherParts
  <2>3. Create("fn1") \in A /\ Create("fn2") \in A
    BY DEF Operations, Create
  <2>4. Len(j) = 2 /\ j[1] = Join(1) /\ j[2] = Join(2)
    BY <1>2 DEF JoinAll
  <2>. QED
    BY <1>1, <2>2, <2>3, <2>4
<1>4. sets[1] = Put("x", 1) /\ sets[2] = Put("y", 1)
      /\ creates[1] = Create("fn1") /\ creates[2] = Create("fn2")
  BY <1>1
<1> HIDE DEF creates, sets, A
<1> DEFINE half == sets \o creates
<1>5. /\ half \in Seq(A) /\ Len(half) = 4
      /\ \A i \in 1..4 : half[i] = IF i <= 2 THEN sets[i] ELSE creates[i - 2]
  <2>1. /\ half \in Seq(A) /\ Len(half) = Len(sets) + Len(creates)
        /\ \A i \in 1..(Len(sets) + Len(creates)) :
             half[i] = IF i <= Len(sets) THEN sets[i] ELSE creates[i - Len(sets)]
    BY <1>3, Concatenated, Zenon
  <2>. QED
    BY <1>3, <2>1
<1> HIDE DEF half
<1>6. /\ half \o j \in Seq(A) /\ Len(half \o j) = 6
      /\ \A i \in 1..6 : (half \o j)[i] = IF i <= 4 THEN half[i] ELSE j[i - 4]
  <2>1. /\ half \o j \in Seq(A) /\ Len(half \o j) = Len(half) + Len(j)
        /\ \A i \in 1..(Len(half) + Len(j)) :
             (half \o j)[i] = IF i <= Len(half) THEN half[i] ELSE j[i - Len(half)]
    BY <1>3, <1>5, Concatenated, Zenon
  <2>2. Len(half) = 4 /\ Len(half) + Len(j) = 6
    BY <1>3, <1>5
  <2>. QED
    BY <2>1, <2>2, Zenon
<1>7. PICK m : m = half \o j
  OBVIOUS
<1>8. /\ m[1] = sets[1] /\ m[2] = sets[2] /\ m[3] = creates[1] /\ m[4] = creates[2]
      /\ m[5] = j[1] /\ m[6] = j[2]
  <2>1. half[1] = sets[1] /\ half[2] = sets[2] /\ half[3] = creates[1] /\ half[4] = creates[2]
    <3>1. 1 \in 1..4 /\ 2 \in 1..4 /\ 1 <= 2 /\ 2 <= 2
      OBVIOUS
    <3>2. 3 \in 1..4 /\ 4 \in 1..4 /\ ~(3 <= 2) /\ ~(4 <= 2) /\ 3 - 2 = 1 /\ 4 - 2 = 2
      OBVIOUS
    <3>3. half[1] = sets[1] /\ half[2] = sets[2]
      BY <1>5, <3>1, Zenon
    <3>4. half[3] = creates[3 - 2] /\ half[4] = creates[4 - 2]
      BY <1>5, <3>2, Zenon
    <3>. QED
      BY <3>2, <3>3, <3>4, Zenon
  <2>2. m[1] = half[1] /\ m[2] = half[2] /\ m[3] = half[3] /\ m[4] = half[4]
    <3>1. \A i \in 1..4 : i \in 1..6 /\ i <= 4
      OBVIOUS
    <3>2. 1 \in 1..4 /\ 2 \in 1..4 /\ 3 \in 1..4 /\ 4 \in 1..4
      OBVIOUS
    <3>3. \A i \in 1..4 : m[i] = half[i]
      BY <1>6, <1>7, <3>1, Zenon
    <3>. QED
      BY <3>2, <3>3, Zenon
  <2>3. m[5] = j[1] /\ m[6] = j[2]
    <3>1. 5 \in 1..6 /\ 6 \in 1..6 /\ ~(5 <= 4) /\ ~(6 <= 4) /\ 5 - 4 = 1 /\ 6 - 4 = 2
      OBVIOUS
    <3>2. m[5] = j[5 - 4] /\ m[6] = j[6 - 4]
      BY <1>6, <1>7, <3>1, Zenon
    <3>. QED
      BY <3>1, <3>2, Zenon
  <2>. QED
    BY <2>1, <2>2, <2>3, Zenon
<1>9. order_violation_main = m
  BY <1>2, <1>7 DEF order_violation_main, creates, sets, half
<1>. QED
  BY <1>3, <1>4, <1>6, <1>7, <1>8, <1>9 DEF A

LEMMA ViolationLines ==
  ASSUME Shapes, program = "order_violation", NEW p \in Procs, ~AtEnd(p)
  PROVE  /\ stack[p].fn = "main" =>
              /\ stack[p].pc = 1 => Op(p).op = "put" /\ Op(p).at = "x" /\ Op(p).val = 1
              /\ stack[p].pc = 2 => Op(p).op = "put" /\ Op(p).at = "y" /\ Op(p).val = 1
              /\ stack[p].pc > 2 => Op(p).op \in {"create", "join"}
         /\ stack[p].fn # "main" =>
              /\ stack[p].pc = 1 => Op(p).op = "load" /\ Op(p).at = Tested(stack[p].fn)
              /\ stack[p].pc # 1 =>
                   stack[p].pc = 2 /\ Op(p).op = "put_if" /\ Op(p).at # Tested(stack[p].fn)
<1>1. Code[program] = [main |-> order_violation_main,
                       fn1 |-> order_violation_fn1, fn2 |-> order_violation_fn2]
  BY DEF Code
<1>2. stack[p].fn \in {"main", "fn1", "fn2"} /\ stack[p].pc \in Nat \ {0}
  BY <1>1 DEF Shapes, Frames
<1>3. CASE stack[p].fn = "main"
  <2>1. PICK m : m = order_violation_main
    OBVIOUS
  <2>2. /\ Len(m) = 6 /\ m[1] = Put("x", 1) /\ m[2] = Put("y", 1)
        /\ m[3] = Create("fn1") /\ m[4] = Create("fn2") /\ m[5] = Join(1) /\ m[6] = Join(2)
    BY <2>1, ViolationMain
  <2>3. /\ AtEnd(p) <=> stack[p].pc > Len(m)
        /\ Op(p) = m[stack[p].pc]
    BY <1>1, <1>3, <2>1 DEF AtEnd, Op
  <2>4. stack[p].pc \in 1..6
    BY <1>2, <2>2, <2>3
  <2>5. CASE stack[p].pc <= 2
    <3>1. /\ stack[p].pc = 1 => Op(p) = Put("x", 1)
          /\ stack[p].pc = 2 => Op(p) = Put("y", 1)
      BY <2>2, <2>3
    <3>. QED
      BY <1>3, <2>4, <2>5, <3>1 DEF Put
  <2>6. CASE stack[p].pc > 2
    <3>1. Op(p) \in {Create("fn1"), Create("fn2"), Join(1), Join(2)}
      BY <2>2, <2>3, <2>4, <2>6
    <3>2. Op(p).op \in {"create", "join"}
      BY <3>1 DEF Create, Join
    <3>. QED
      BY <1>3, <2>6, <3>2
  <2>. QED
    BY <2>4, <2>5, <2>6
<1>4. CASE stack[p].fn = "fn1"
  <2>1. stack[p].pc \in 1..2 /\ Op(p) = order_violation_fn1[stack[p].pc]
    BY <1>1, <1>2, <1>4 DEF AtEnd, Op, order_violation_fn1
  <2>. QED
    BY <1>4, <2>1 DEF order_violation_fn1, Load, PutIf, Tested
<1>5. CASE stack[p].fn = "fn2"
  <2>1. stack[p].pc \in 1..2 /\ Op(p) = order_violation_fn2[stack[p].pc]
    BY <1>1, <1>2, <1>5 DEF AtEnd, Op, order_violation_fn2
  <2>. QED
    BY <1>5, <2>1 DEF order_violation_fn2, Load, PutIf, Tested
<1>. QED
  BY <1>2, <1>3, <1>4, <1>5

\* What another process does: it leaves something, and makes pages newer.
LEMMA LeavesStay ==
  ASSUME NEW q, Same(q), UNCHANGED program, LeavesSomething(q),
         SomethingLeft => SomethingLeft',
         \A o \in Objects :
           Page(o) \notin newer'[q] => Page(o) \notin newer[q] /\ heap'[o] = heap[o]
  PROVE  LeavesSomething(q)'
<1>1. Tested(stack[q].fn) \in Objects
  BY DEF Tested, Objects
<1>2. Page("x") \in writes[q] => Value(q, "x")' = Value(q, "x")
  BY DEF Same, Value, Page
<1>3. \A o \in Objects : Page(o) \notin newer'[q] => Value(q, o)' = Value(q, o)
  BY DEF Same, Value, Page
<1>4. CASE stack[q].fn = "main"
  BY <1>2, <1>4 DEF Same, LeavesSomething, MainSets, Page
<1>5. CASE stack[q].fn # "main"
  <2> DEFINE o == Tested(stack[q].fn)
  <2>1. ThreadTests(q)' <=>
          /\ SomethingLeft'
          /\ checkpoint'[q].pc = 1
          /\ phase'[q] \in G!Open /\ stack'[q].pc > 1 =>
               /\ Page(o) \in reads'[q]
               /\ Page(o) \notin newer'[q] /\ stack'[q].pc = 2 => Value(q, o)' = stack'[q].reg
               /\ Page(o) \notin newer'[q] /\ writes'[q] # {} => Value(q, o)' = 1
          /\ phase'[q] \in G!Open /\ stack'[q].pc <= 2 => writes'[q] = {}
    BY DEF ThreadTests, Same, Page, Tested, Value
  <2>2. SomethingLeft /\ ThreadTests(q)
    BY <1>5 DEF LeavesSomething, ThreadTests
  <2>3. ThreadTests(q)'
    BY <1>1, <1>3, <2>1, <2>2 DEF ThreadTests, Same
  <2>. QED
    BY <1>5, <2>3 DEF LeavesSomething, Same
<1>. QED
  BY <1>4, <1>5

LEMMA ProgramFirst ==
  ASSUME Control, Threads, FirstInv, program = "order_violation", NEW p \in Procs, ProgramStep(p)
  PROVE  FirstInv'
<1>1. Shapes
  BY DEF Control
<1>2. /\ p \in Born /\ phase[p] = "running" /\ ~AtEnd(p)
      /\ UNCHANGED <<phase, call, parent, program, heap, newer, checkpoint>>
      /\ Shapes'
      /\ stack'[p].fn = stack[p].fn /\ stack'[p].pc = stack[p].pc + 1
      /\ reads[p] \subseteq reads'[p]
      /\ \A q \in Procs \ {p} :
           /\ stack'[q] = stack[q] /\ touched'[q] = touched[q] /\ copies'[q] = copies[q]
           /\ reads'[q] = reads[q] /\ writes'[q] = writes[q]
  BY <1>1, ProgramEffect
<1>3. \A q \in Procs \ {p} : Same(q)
  BY <1>2 DEF Same
<1>4. Born' = Born /\ (SomethingLeft <=> SomethingLeft')
  BY <1>2 DEF Born, SomethingLeft
<1>5. /\ stack[p].pc \in Nat \ {0} /\ checkpoint[p].pc \in Nat /\ checkpoint[p].pc <= stack[p].pc
      /\ LeavesSomething(p) /\ "x" \in Objects /\ "y" \in Objects
      /\ stack \in [Procs -> Frames] /\ reads \in [Procs -> SUBSET Layout]
  BY <1>1, <1>2 DEF Shapes, Frames, Control, SectionRunsOn, FirstInv, Born, Objects
<1>6. CASE stack[p].fn = "main"
  <2>1. /\ MainSets(p) /\ checkpoint[p].pc = 1
        /\ stack[p].pc \in {1, 2} /\ Op(p).op = "put" /\ Op(p).val = 1
        /\ Op(p).at = IF stack[p].pc = 1 THEN "x" ELSE "y"
    <3>1. MainSets(p)
      BY <1>5, <1>6 DEF LeavesSomething
    <3>2. Op(p).op \notin {"create", "join"}
      BY DEF ProgramStep, LoadStep, StoreStep, SkipStep, RequireStep, MutexStep, At
    <3>3. stack[p].pc \in {1, 2}
      BY <1>1, <1>2, <1>5, <1>6, <3>2, ViolationLines
    <3>4. checkpoint[p].pc = 1
      BY <1>5, <3>1, <3>3 DEF MainSets
    <3>. QED
      BY <1>1, <1>2, <1>6, <3>1, <3>3, <3>4, ViolationLines
  <2>2. Write(p, Op(p).at, 1)
    BY <2>1 DEF ProgramStep, LoadStep, StoreStep, SkipStep, RequireStep, MutexStep, At
  <2>3. /\ writes'[p] = writes[p] \cup {Page(Op(p).at)}
        /\ Value(p, "x")' = IF "x" = Op(p).at THEN 1 ELSE Value(p, "x")
    BY <1>1, <1>2, <1>5, <2>1, <2>2, WriteEffect
  <2>4. stack[p].pc = 2 => Page("x") \in writes[p] /\ Value(p, "x") = 1
    BY <1>2, <2>1 DEF MainSets, G!Open
  <2>5. Page("x")' \in writes'[p] /\ Value(p, "x")' = 1
    BY <2>1, <2>3, <2>4 DEF Page
  <2>6. stack'[p].pc # 1 /\ checkpoint'[p].pc = 1 /\ phase'[p] = "running"
    BY <1>2, <1>5, <2>1
  <2>7. MainSets(p)'
    BY <2>5, <2>6 DEF MainSets
  <2>8. LeavesSomething(p)'
    BY <1>2, <1>6, <2>7 DEF LeavesSomething
  <2>. QED
    BY <1>2, <1>3, <1>4, <2>8, LeavesStay DEF FirstInv, Born
<1>7. CASE stack[p].fn # "main"
  <2> DEFINE o == Tested(stack[p].fn)
  <2>1. /\ SomethingLeft /\ checkpoint[p].pc = 1
        /\ stack[p].pc = 2 => Page(o) \in reads[p] /\ (Page(o) \notin newer[p] => Value(p, o) = stack[p].reg)
        /\ stack[p].pc <= 2 => writes[p] = {}
    BY <1>2, <1>5, <1>7 DEF LeavesSomething, ThreadTests, G!Open
  <2>2. o \in Objects /\ Tested(stack'[p].fn) = o /\ Tested(stack[p].fn)' = o /\ Page(o)' = Page(o)
    BY <1>2, <1>5 DEF Tested, Page
  <2>3. ASSUME /\ Page(o) \in reads'[p]
               /\ Page(o) \notin newer[p] /\ stack'[p].pc = 2 => Value(p, o)' = stack'[p].reg
               /\ Page(o) \notin newer[p] /\ writes'[p] # {} => Value(p, o)' = 1
               /\ stack'[p].pc <= 2 => writes'[p] = {}
        PROVE  LeavesSomething(p)'
    BY <1>2, <1>4, <1>7, <2>1, <2>2, <2>3 DEF LeavesSomething, ThreadTests
  <2>4. ASSUME stack[p].pc = 1 PROVE LeavesSomething(p)'
    <3>1. Op(p).op = "load" /\ Op(p).at = o
      BY <1>1, <1>2, <1>7, <2>4, ViolationLines
    <3>2. LoadStep(p)
      BY <3>1 DEF ProgramStep, StoreStep, SkipStep, RequireStep, MutexStep, At
    <3>3. Page(o) \in reads'[p] /\ stack'[p].reg = Value(p, o) /\ UNCHANGED <<copies, writes>>
      BY <1>5, <3>1, <3>2 DEF LoadStep, Fault, Frames
    <3>4. Value(p, o)' = Value(p, o)
      BY <1>2, <2>2, <3>3 DEF Value
    <3>5. writes'[p] = {}
      BY <2>1, <2>4, <3>3
    <3>. QED
      BY <2>3, <3>3, <3>4, <3>5
  <2>5. ASSUME stack[p].pc # 1 PROVE LeavesSomething(p)'
    <3>1. stack[p].pc = 2 /\ Op(p).op = "put_if" /\ Op(p).at # o
      BY <1>1, <1>2, <1>7, <2>5, ViolationLines
    <3>2. writes[p] = {} /\ Page(o) \in reads'[p] /\ stack'[p].pc = 3
      BY <1>2, <2>1, <3>1
    <3>3. CASE SkipStep(p)
      <4>1. writes'[p] = {}
        BY <3>2, <3>3 DEF SkipStep, heapVars
      <4>. QED
        BY <2>3, <3>2, <4>1
    <3>4. CASE StoreStep(p)
      <4>1. stack[p].reg = 1 /\ Write(p, Op(p).at, Op(p).val)
        BY <3>1, <3>4 DEF StoreStep, At
      <4>2. Op(p).at \in Objects
        BY <1>1, <1>2, <3>1, OpTyped
      <4>3. Value(p, o)' = Value(p, o)
        BY <1>1, <1>2, <2>2, <3>1, <4>1, <4>2, WriteEffect
      <4>. QED
        BY <2>1, <2>3, <3>1, <3>2, <4>1, <4>3
    <3>. QED
      BY <3>1, <3>3, <3>4 DEF ProgramStep, LoadStep, RequireStep, MutexStep, At
  <2>6. LeavesSomething(p)'
    BY <2>4, <2>5
  <2>. QED
    BY <1>2, <1>3, <1>4, <2>6, LeavesStay DEF FirstInv, Born
<1>. QED
  BY <1>6, <1>7

LEMMA PhaseFirst ==
  ASSUME Control, Threads, FirstInv, program = "order_violation", NEW p \in Procs,
         Calling(p) \/ PredecessorExited(p) \/ Exit(p)
  PROVE  FirstInv'
<1>1. Shapes
  BY DEF Control
<1>2. /\ UNCHANGED <<program, heapVars, programVars, touched, parent>>
      /\ \A q \in Procs \ {p} : Same(q)
      /\ \/ /\ phase[p] = "running"
            /\ phase'[p] = IF touched[p] THEN "waiting" ELSE "ended"
            /\ call'[p].op \in {"create", "join"} =>
                 \/ p = Root /\ (call'[p].op = "create" => G!Children(Root) = {})
                 \/ p # Root /\ ~AtEnd(p) /\ Op(p).op = call'[p].op
         \/ phase[p] = "waiting" /\ phase'[p] = "validating" /\ call'[p] = call[p]
         \/ phase[p] = "ended" /\ phase'[p] = "exited" /\ call'[p] = G!NoCall
  BY <1>1, PhaseEffect
<1>3. UNCHANGED <<program, heap, copies, reads, writes, newer, stack, checkpoint>>
  BY <1>2 DEF heapVars, programVars
<1>4. Born' = Born /\ (SomethingLeft <=> SomethingLeft')
  BY <1>2, <1>3 DEF Born, Same, SomethingLeft
<1>5. ASSUME p \in Born PROVE LeavesSomething(p)'
  <2>1. \A o : Page(o)' = Page(o) /\ Value(p, o)' = Value(p, o)
    BY <1>3 DEF Value, Page
  <2>2. phase'[p] \in G!Open => phase[p] \in G!Open
    BY <1>2 DEF G!Open
  <2>3. CASE stack[p].fn = "main"
    <3>1. MainSets(p)
      BY <1>5, <2>3 DEF FirstInv, LeavesSomething
    <3>2. phase'[p] = "ended" /\ call'[p].op \in {"create", "join"} => SomethingLeft
      <4> SUFFICES ASSUME phase'[p] = "ended", call'[p].op \in {"create", "join"}, checkpoint[p].pc = 1
                   PROVE  FALSE
        BY <3>1 DEF MainSets
      <4>1. phase[p] = "running" /\ ~touched[p] /\ ~AtEnd(p) /\ Op(p).op \in {"create", "join"}
        BY <1>2, <1>5 DEF Born
      <4>2. stack[p].pc \in Nat \ {0}
        BY <1>1, <1>5 DEF Shapes, Frames, Born
      <4>3. stack[p].pc > 1
        BY <1>1, <1>5, <2>3, <4>1, <4>2, ViolationLines DEF Born
      <4>4. writes[p] # {}
        BY <3>1, <4>1, <4>3 DEF MainSets, G!Open
      <4>. QED
        BY <1>5, <4>1, <4>4 DEF Control, SectionRunsOn, G!Open
    <3>3. MainSets(p)'
      BY <1>3, <1>4, <2>1, <2>2, <3>1, <3>2 DEF MainSets
    <3>. QED
      BY <1>3, <2>3, <3>3 DEF LeavesSomething
  <2>4. CASE stack[p].fn # "main"
    BY <1>3, <1>4, <1>5, <2>1, <2>2, <2>4 DEF FirstInv, LeavesSomething, ThreadTests
  <2>. QED
    BY <2>3, <2>4
<1>. QED
  BY <1>2, <1>3, <1>4, <1>5, LeavesStay DEF FirstInv, Born

LEMMA CommitFirst ==
  ASSUME Control, Threads, FirstInv, program = "order_violation", NEW p \in Procs, Commit(p)
  PROVE  FirstInv'
<1>1. Shapes
  BY DEF Control
<1>2. /\ UNCHANGED <<program, programVars, touched, parent, call, reads, writes, copies>>
      /\ \A q \in Procs \ {p} : Same(q)
      /\ phase[p] = "validating" /\ phase'[p] = "ended"
      /\ \A o \in Objects : heap'[o] = Value(p, o)
      /\ \A q \in Procs \ {p} : newer'[q] = newer[q] \cup writes[p]
      /\ reads[p] \cap newer[p] = {}
  BY <1>1, CommitEffect
<1>3. UNCHANGED <<stack, checkpoint>>
  BY <1>2 DEF programVars
<1>4. p \in Born /\ Born' = Born
  BY <1>2 DEF Control, RootAlone, Born, Same
<1>5. /\ stack[p].pc \in Nat \ {0} /\ LeavesSomething(p) /\ "x" \in Objects /\ "y" \in Objects
  BY <1>1, <1>4 DEF Shapes, Frames, FirstInv, Born, Objects
<1>6. \A o \in Objects : Page(o) \notin writes[p] => heap'[o] = heap[o]
  BY <1>2 DEF Value
<1>7. writes[p] = {} => (SomethingLeft => SomethingLeft')
  BY <1>5, <1>6 DEF SomethingLeft
<1>8. (SomethingLeft => SomethingLeft') /\ LeavesSomething(p)'
  <2>1. CASE stack[p].fn = "main"
    <3>1. MainSets(p) /\ phase[p] \in G!Open /\ phase'[p] \notin G!Open
      BY <1>2, <1>5, <2>1 DEF LeavesSomething, G!Open
    <3>2. CASE checkpoint[p].pc = 1 /\ stack[p].pc > 1
      <4>1. SomethingLeft'
        BY <1>2, <1>5, <3>1, <3>2 DEF MainSets, SomethingLeft
      <4>. QED
        BY <1>3, <2>1, <3>1, <3>2, <4>1 DEF LeavesSomething, MainSets
    <3>3. CASE ~(checkpoint[p].pc = 1 /\ stack[p].pc > 1)
      <4>1. writes[p] = {}
        BY <1>5, <3>1, <3>3 DEF MainSets
      <4>2. call[p].op \in {"create", "join"} => checkpoint[p].pc # 1
        <5>1. call[p].op \in {"create", "join"} => stack[p].pc > 1
          <6>1. call[p].op \in {"create", "join"} => ~AtEnd(p) /\ Op(p).op \in {"create", "join"}
            BY <1>2, <1>4 DEF Control, SectionRunsOn
          <6>. QED
            BY <1>1, <1>5, <2>1, <6>1, ViolationLines
        <5>. QED
          BY <3>3, <5>1
      <4>3. MainSets(p)'
        BY <1>2, <1>3, <1>7, <3>1, <4>1, <4>2 DEF MainSets
      <4>. QED
        BY <1>3, <1>7, <2>1, <4>1, <4>3 DEF LeavesSomething
    <3>. QED
      BY <3>2, <3>3
  <2>2. CASE stack[p].fn # "main"
    <3> DEFINE o == Tested(stack[p].fn)
    <3>1. ThreadTests(p) /\ phase[p] \in G!Open /\ phase'[p] \notin G!Open
      BY <1>2, <1>5, <2>2 DEF LeavesSomething, G!Open
    <3>2. SomethingLeft'
      <4>1. CASE writes[p] = {}
        BY <1>7, <3>1, <4>1 DEF ThreadTests
      <4>2. CASE writes[p] # {}
        <5>1. stack[p].pc > 1 /\ Page(o) \in reads[p]
          BY <1>5, <3>1, <4>2 DEF ThreadTests
        <5>2. Value(p, o) = 1
          BY <1>2, <3>1, <4>2, <5>1 DEF ThreadTests
        <5>3. o \in {"x", "y"}
          BY DEF Tested
        <5>. QED
          BY <1>2, <1>5, <5>2, <5>3 DEF SomethingLeft
      <4>. QED
        BY <4>1, <4>2
    <3>. QED
      BY <1>3, <2>2, <3>1, <3>2 DEF LeavesSomething, ThreadTests
  <2>. QED
    BY <2>1, <2>2
<1>9. \A q \in Born \ {p} : LeavesSomething(q)'
  BY <1>2, <1>6, <1>8, LeavesStay DEF FirstInv, Born
<1>. QED
  BY <1>4, <1>8, <1>9 DEF FirstInv

LEMMA ResumeFirst ==
  ASSUME Control, Threads, FirstInv, program = "order_violation", NEW p \in Procs,
         Rollback(p) \/ JoinReturns(p)
  PROVE  FirstInv'
<1>1. Shapes
  BY DEF Control
<1>2. /\ Begins({p}) /\ phase[p] \in {"validating", "ended"}
      /\ \/ stack'[p] = checkpoint[p]
         \/ /\ phase[p] = "ended" /\ call[p].op = "join"
            /\ stack'[p].fn = stack[p].fn /\ stack'[p].pc = stack[p].pc + 1
  BY <1>1, RollbackEffect, JoinEffect
<1>3. /\ UNCHANGED <<program, heap>>
      /\ phase'[p] = "running" /\ writes'[p] = {} /\ newer'[p] = {} /\ checkpoint'[p] = stack'[p]
      /\ \A q \in Procs \ {p} : Same(q) /\ newer'[q] = newer[q]
  BY <1>2 DEF Begins
<1>4. Born' = Born /\ (SomethingLeft <=> SomethingLeft')
  BY <1>2, <1>3 DEF Born, Same, SomethingLeft
<1>5. ASSUME p \in Born PROVE LeavesSomething(p)'
  <2>1. /\ LeavesSomething(p) /\ checkpoint[p].fn = stack[p].fn /\ stack[p].pc \in Nat \ {0}
        /\ phase[p] = "ended" /\ call[p].op = "join" => ~AtEnd(p) /\ Op(p).op = "join"
    BY <1>1, <1>5 DEF Control, SectionRunsOn, FirstInv, Shapes, Frames, Born
  <2>2. CASE stack'[p] = checkpoint[p]
    BY <1>3, <1>4, <2>1, <2>2 DEF LeavesSomething, MainSets, ThreadTests
  <2>3. CASE /\ phase[p] = "ended" /\ call[p].op = "join"
             /\ stack'[p].fn = stack[p].fn /\ stack'[p].pc = stack[p].pc + 1
    <3>1. stack[p].fn = "main" /\ stack[p].pc > 2
      BY <1>1, <2>1, <2>3, ViolationLines
    <3>2. SomethingLeft
      BY <2>1, <2>3, <3>1 DEF LeavesSomething, MainSets
    <3>. QED
      BY <1>3, <1>4, <2>1, <2>3, <3>1, <3>2 DEF LeavesSomething, MainSets
  <2>. QED
    BY <1>2, <2>2, <2>3
<1>6. \A q \in Born \ {p} : LeavesSomething(q)'
  BY <1>3, <1>4, LeavesStay DEF FirstInv, Born
<1>. QED
  BY <1>4, <1>5, <1>6 DEF FirstInv

LEMMA ForkFirst ==
  ASSUME Control, Threads, FirstInv, program = "order_violation",
         NEW p \in Procs, NEW c \in Procs, Fork(p, c)
  PROVE  FirstInv'
<1>1. Shapes
  BY DEF Control
<1>p. phase[p] = "ended" /\ call[p].op = "create"
  BY DEF Fork, G!Fork
<1>2. p # Root => ~AtEnd(p) /\ Op(p).op = "create" /\ p \in Born
  BY <1>p DEF Control, SectionRunsOn, Born
<1>3. /\ c # p /\ Begins({p, c}) /\ phase[c] = "unborn"
      /\ stack'[p].fn = stack[p].fn /\ stack'[p].pc = stack[p].pc + 1
      /\ stack'[c] = Enter(IF p = Root THEN "main" ELSE Op(p).fn)
  BY <1>1, <1>2, ForkEffect
<1>4. /\ UNCHANGED <<program, heap>>
      /\ \A q \in {p, c} : /\ phase'[q] = "running" /\ writes'[q] = {} /\ newer'[q] = {}
                           /\ checkpoint'[q] = stack'[q]
      /\ \A q \in Procs \ {p, c} : Same(q) /\ newer'[q] = newer[q]
  BY <1>3 DEF Begins
<1>5. /\ c # Root /\ Born' = Born \cup {c} /\ c \notin Born /\ (SomethingLeft <=> SomethingLeft')
  BY <1>p, <1>3, <1>4 DEF Control, RootAlone, Born, Same, SomethingLeft
<1>6. stack'[c].fn = (IF p = Root THEN "main" ELSE Op(p).fn) /\ stack'[c].pc = 1
      /\ checkpoint'[c].pc = 1
  <2>1. \A f : Enter(f).fn = f /\ Enter(f).pc = 1
    BY DEF Enter
  <2>. QED
    BY <1>3, <1>4, <2>1
<1>7. ASSUME p # Root
      PROVE  SomethingLeft /\ stack[p].fn = "main" /\ stack[p].pc \in Nat /\ stack[p].pc > 2
             /\ Op(p).fn # "main"
  <2>1. /\ LeavesSomething(p) /\ stack[p].pc \in Nat \ {0}
    BY <1>1, <1>2, <1>7 DEF FirstInv, Shapes, Frames, Born
  <2>2. stack[p].fn = "main" /\ stack[p].pc > 2 /\ Op(p).fn # "main"
    BY <1>1, <1>2, <1>7, <2>1, ViolationLines, OpTyped
  <2>. QED
    BY <1>p, <2>1, <2>2 DEF LeavesSomething, MainSets
<1>8. LeavesSomething(c)'
  <2>1. CASE p = Root
    BY <1>4, <1>6, <2>1 DEF LeavesSomething, MainSets
  <2>2. CASE p # Root
    BY <1>4, <1>5, <1>6, <1>7, <2>2 DEF LeavesSomething, ThreadTests
  <2>. QED
    BY <2>1, <2>2
<1>9. ASSUME p # Root PROVE LeavesSomething(p)'
  BY <1>3, <1>4, <1>5, <1>7, <1>9 DEF LeavesSomething, MainSets
<1>10. \A q \in Born \ {p} : LeavesSomething(q)'
  BY <1>4, <1>5, LeavesStay DEF FirstInv, Born
<1>. QED
  BY <1>5, <1>8, <1>9, <1>10 DEF FirstInv, Born

LEMMA NextFirst ==
  Control /\ Threads /\ FirstInv /\ program = "order_violation" /\ [Next]_vars => FirstInv'
<1> SUFFICES ASSUME Control, Threads, FirstInv, program = "order_violation", [Next]_vars
             PROVE  FirstInv'
  OBVIOUS
<1>1. CASE UNCHANGED vars
  <2>1. UNCHANGED <<program, heap, newer>> /\ \A q \in Procs : Same(q)
    BY <1>1 DEF vars, gvars, heapVars, programVars, Same
  <2>2. Born' = Born /\ (SomethingLeft => SomethingLeft')
    BY <2>1 DEF Born, Same, SomethingLeft
  <2>. QED
    BY <2>1, <2>2, LeavesStay DEF FirstInv, Born
<1>. QED
  BY <1>1, ProgramFirst, PhaseFirst, CommitFirst, ResumeFirst, ForkFirst
     DEF Next, Library, Terminated

\* order_violation.cc: fn1 and fn2 each clear what the other one tests, and never
\* do both find 1 and clear: it is not enough to validate what was written, for
\* they may write to different pages (read_set_version, gstm.cc:184).
THEOREM OneComesFirst == Spec => []OneThreadFirst
<1> DEFINE I == Control /\ (program = "order_violation" => FirstInv)
<1>1. Init => I
  <2>1. Init => Born = {}
    BY DEF Init, G!Init, Born
  <2>. QED
    BY <2>1, InitControl DEF FirstInv
<1>2. Threads /\ I /\ [Next]_vars => I'
  BY NextControl, NextFirst, ProgramIsFixed
<1>3. I => OneThreadFirst
  BY DEF OneThreadFirst, FirstInv, LeavesSomething, ThreadTests, SomethingLeft
<1>. QED
  BY <1>1, <1>2, <1>3, ThreadsKnown, PTL DEF Spec

-----------------------------------------------------------------------------
(* verify() in test.cc, nolock.cc, lock.cc and serial.cc, and the check at  *)
(* the end of race_condition.cc.  The counters are right at every moment,   *)
(* so that what is left to show is that main, when it reads them, is alone: *)
(* the handles it has joined are all the threads there are, and those that  *)
(* they have joined, through all rollbacks, and each has come to its end.   *)

\* The programs that check what they have counted.
Verifying == {"test", "nolock", "lock", "race_condition", "serial"}

\* SECONDARY_THREAD_NUM, in the one program whose threads have threads.
Nested == IF program = "nolock" THEN SecondaryThreadNum ELSE 0

Counters == IF program = "race_condition" THEN {"x", "y"} ELSE {"a", "b", "c"}

\* How many threads a function creates, after how many lines, and of what.
ThreadsOf(f) ==
  IF f = "main" THEN (IF program = "serial" THEN 0 ELSE ThreadNum)
  ELSE IF f = "fn1" THEN Nested ELSE 0

LinesBefore(f) ==
  (IF f = "main" THEN 1 ELSE 2) * (IF program = "race_condition" THEN 2 ELSE 3)

Child(f) == IF f = "main" THEN "fn1" ELSE "fn2"

\* The line of the last pthread_join.
LastJoin(f) == IF ThreadsOf(f) = 0 THEN 0 ELSE LinesBefore(f) + 2 * ThreadsOf(f)

Plain(s) == \A i \in 1..Len(s) : s[i].op \notin {"create", "join"}

\* After a lines n threads are created and then joined, in the same order.
Laid(s, a, n, f) ==
  /\ a + 2 * n <= Len(s)
  /\ \A i \in 1..Len(s) :
       /\ s[i].op = "create" <=> i \in (a + 1)..(a + n)
       /\ s[i].op = "create" => s[i].fn = f
       /\ s[i].op = "join" <=> i \in (a + n + 1)..(a + 2 * n)
       /\ s[i].op = "join" => s[i].index = i - (a + n)

AreParts(u, s, c, j, t) ==
  /\ Len(u) = Len(s) + Len(c) + Len(j) + Len(t)
  /\ Len(s) \in Nat /\ Len(t) \in Nat
  /\ \A i \in 1..Len(s) : u[i] = s[i]
  /\ \A i \in 1..Len(c) : u[Len(s) + i] = c[i]
  /\ \A i \in 1..Len(j) : u[Len(s) + Len(c) + i] = j[i]
  /\ \A i \in 1..Len(t) : u[Len(s) + Len(c) + Len(j) + i] = t[i]

\* What is at which line of a concatenation of four sequences.
LEMMA FourParts ==
  ASSUME NEW X, NEW s \in Seq(X), NEW c \in Seq(X), NEW j \in Seq(X), NEW t \in Seq(X)
  PROVE  s \o c \o j \o t \in Seq(X) /\ AreParts(s \o c \o j \o t, s, c, j, t)
BY DEF AreParts

\* The lines of u: those of s, n that create f, n that join, those of t.
Sections(u, s, a, t, b, n, f) ==
  /\ Len(u) = a + 2 * n + b
  /\ \A i \in 1..a : u[i] = s[i] /\ s[i].op \notin {"create", "join"}
  /\ \A i \in 1..n : u[a + i].op = "create" /\ u[a + i].fn = f
  /\ \A i \in 1..n : u[a + n + i].op = "join" /\ u[a + n + i].index = i
  /\ \A i \in 1..b : u[a + 2 * n + i] = t[i] /\ t[i].op \notin {"create", "join"}

LineByLine(u, s, a, t, b, n) ==
  \A i \in 1..Len(u) :
    \/ i \in 1..a /\ u[i] = s[i]
    \/ u[i].op \in {"create", "join"}
    \/ i - (a + 2 * n) \in 1..b /\ u[i] = t[i - (a + 2 * n)]

\* A function that creates n threads after a lines and then joins them.
LEMMA LaidLines ==
  ASSUME NEW s, NEW t, NEW u, NEW f, NEW a \in Nat, NEW b \in Nat, NEW n \in Nat,
         Sections(u, s, a, t, b, n, f)
  PROVE  Laid(u, a, n, f) /\ LineByLine(u, s, a, t, b, n)
<1> USE DEF Sections
<1>8. ASSUME NEW i \in 1..(a + 2 * n + b)
      PROVE  \/ i \in 1..a /\ u[i] = s[i]
             \/ i \in (a + 1)..(a + n) /\ u[i].op = "create" /\ u[i].fn = f
             \/ /\ i \in (a + n + 1)..(a + 2 * n)
                /\ u[i].op = "join" /\ u[i].index = i - (a + n)
             \/ i - (a + 2 * n) \in 1..b /\ u[i] = t[i - (a + 2 * n)]
  <2>1. CASE i \in (a + 1)..(a + n)
    <3>1. PICK k \in 1..n : i = a + k
      <4>1. i - a \in 1..n /\ i = a + (i - a)
        BY <2>1
      <4>. QED
        BY <4>1
    <3>. QED
      BY <2>1, <3>1
  <2>2. CASE i \in (a + n + 1)..(a + 2 * n)
    <3>1. PICK k \in 1..n : i = a + n + k
      <4>1. i - (a + n) \in 1..n /\ i = a + n + (i - (a + n))
        BY <2>2
      <4>. QED
        BY <4>1
    <3>. QED
      BY <2>2, <3>1
  <2>3. CASE i > a + 2 * n
    <3>1. PICK k \in 1..b : i = a + 2 * n + k
      <4>1. i - (a + 2 * n) \in 1..b /\ i = a + 2 * n + (i - (a + 2 * n))
        BY <2>3
      <4>. QED
        BY <4>1
    <3>. QED
      BY <2>3, <3>1
  <2>4. CASE i \in 1..a
    BY <2>4
  <2>. QED
    BY <2>1, <2>2, <2>3, <2>4
<1>9. Laid(u, a, n, f)
  <2>1. a + 2 * n <= Len(u)
    OBVIOUS
  <2> SUFFICES ASSUME NEW i \in 1..(a + 2 * n + b)
               PROVE  /\ u[i].op = "create" <=> i \in (a + 1)..(a + n)
                      /\ u[i].op = "create" => u[i].fn = f
                      /\ u[i].op = "join" <=> i \in (a + n + 1)..(a + 2 * n)
                      /\ u[i].op = "join" => u[i].index = i - (a + n)
    BY <2>1, Zenon DEF Laid
  <2>2. CASE i \in 1..a
    <3>1. u[i].op \notin {"create", "join"}
      BY <2>2
    <3>. QED
      BY <2>2, <3>1
  <2>3. CASE i - (a + 2 * n) \in 1..b
    <3>1. PICK k \in 1..b : k = i - (a + 2 * n)
      BY <2>3
    <3>2. u[i].op \notin {"create", "join"} /\ i > a + 2 * n
      BY <1>8, <3>1
    <3>. QED
      BY <3>2
  <2> HIDE DEF Sections
  <2>4. CASE i \in (a + 1)..(a + n)
    BY <1>8, <2>4
  <2>5. CASE i \in (a + n + 1)..(a + 2 * n)
    BY <1>8, <2>5
  <2>. QED
    BY <2>2, <2>3, <2>4, <2>5
<1>. QED
  BY <1>8, <1>9 DEF LineByLine

Forking(s, n, f, t) == s \o CreateAll(n, f) \o JoinAll(n) \o t

\* What is before and after the creation of n threads.
Pieces(X, s, n, f, t, a, b) ==
  /\ s \in Seq(X) /\ Plain(s) /\ a \in Nat /\ Len(s) = a
  /\ t \in Seq(X) /\ Plain(t) /\ b \in Nat /\ Len(t) = b
  /\ n \in Nat /\ CreateAll(n, f) \in Seq(X) /\ JoinAll(n) \in Seq(X)

\* The same of the concatenation that a main is.
LEMMA LaidOut ==
  ASSUME NEW X, NEW s, NEW t, NEW n, NEW f, NEW a, NEW b, Pieces(X, s, n, f, t, a, b)
  PROVE  /\ Len(Forking(s, n, f, t)) = a + 2 * n + b
         /\ Laid(Forking(s, n, f, t), a, n, f)
         /\ LineByLine(Forking(s, n, f, t), s, a, t, b, n)
<1> DEFINE c == CreateAll(n, f)
           j == JoinAll(n)
           u == s \o c \o j \o t
<1>0. /\ s \in Seq(X) /\ Plain(s) /\ a \in Nat /\ Len(s) = a
      /\ t \in Seq(X) /\ Plain(t) /\ b \in Nat /\ Len(t) = b
      /\ n \in Nat /\ c \in Seq(X) /\ j \in Seq(X)
  BY DEF Pieces
<1>1. /\ Len(c) = n /\ \A i \in 1..n : c[i].op = "create" /\ c[i].fn = f
      /\ Len(j) = n /\ \A i \in 1..n : j[i].op = "join" /\ j[i].index = i
  BY <1>0 DEF CreateAll, JoinAll, Create, Join
<1> HIDE DEF c, j
<1>2. u \in Seq(X) /\ AreParts(u, s, c, j, t)
  BY <1>0, FourParts, Zenon
<1> HIDE DEF u
<1>3. Len(u) = a + 2 * n + b
  BY <1>0, <1>1, <1>2 DEF AreParts
<1>4. \A i \in 1..a : u[i] = s[i]
  BY <1>0, <1>2 DEF AreParts
<1>5. \A i \in 1..n : u[a + i] = c[i]
  BY <1>0, <1>1, <1>2 DEF AreParts
<1>6. \A i \in 1..n : u[a + n + i] = j[i]
  BY <1>0, <1>1, <1>2 DEF AreParts
<1>7. \A i \in 1..b : u[a + 2 * n + i] = t[i]
  <2>1. Len(s) + Len(c) + Len(j) = a + 2 * n
    BY <1>0, <1>1
  <2>. QED
    BY <1>0, <1>2, <2>1 DEF AreParts
<1>8. /\ \A i \in 1..a : s[i].op \notin {"create", "join"}
      /\ \A i \in 1..b : t[i].op \notin {"create", "join"}
  BY <1>0 DEF Plain
<1>9. /\ \A i \in 1..n : u[a + i].op = "create" /\ u[a + i].fn = f
      /\ \A i \in 1..n : u[a + n + i].op = "join" /\ u[a + n + i].index = i
  <2>1. ASSUME NEW i \in 1..n PROVE u[a + i].op = "create" /\ u[a + i].fn = f
    <3>1. u[a + i] = c[i] /\ c[i].op = "create" /\ c[i].fn = f
      BY <1>1, <1>5
    <3>. QED
      BY <3>1
  <2>2. ASSUME NEW i \in 1..n PROVE u[a + n + i].op = "join" /\ u[a + n + i].index = i
    <3>1. u[a + n + i] = j[i] /\ j[i].op = "join" /\ j[i].index = i
      BY <1>1, <1>6
    <3>. QED
      BY <3>1
  <2>. QED
    BY <2>1, <2>2, Zenon
<1>10. Sections(u, s, a, t, b, n, f)
  BY <1>3, <1>4, <1>7, <1>8, <1>9, Zenon DEF Sections
<1>11. Laid(u, a, n, f) /\ LineByLine(u, s, a, t, b, n)
  BY <1>0, <1>10, LaidLines, Zenon
<1>. QED
  BY <1>3, <1>11, Zenon DEF u, c, j, Forking

\* What is before is all there is.
Alone(X, s, n, f, a) ==
  /\ s \in Seq(X) /\ Plain(s) /\ a \in Nat /\ Len(s) = a
  /\ n \in Nat /\ CreateAll(n, f) \in Seq(X) /\ JoinAll(n) \in Seq(X)

Forked(s, n, f) == s \o CreateAll(n, f) \o JoinAll(n)

\* The same when nothing follows, as in fn1 of nolock.cc.
LEMMA LaidAlone ==
  ASSUME NEW X, NEW s, NEW n, NEW f, NEW a, Alone(X, s, n, f, a)
  PROVE  /\ Len(Forked(s, n, f)) = a + 2 * n /\ Laid(Forked(s, n, f), a, n, f)
         /\ \A i \in 1..Len(Forked(s, n, f)) :
              \/ i \in 1..a /\ Forked(s, n, f)[i] = s[i]
              \/ Forked(s, n, f)[i].op \in {"create", "join"}
<1>1. PICK e : e = <<>>
  OBVIOUS
<1>2. PICK z : z = 0
  OBVIOUS
<1>3. Pieces(X, s, n, f, e, a, z)
  BY <1>1, <1>2 DEF Alone, Pieces, Plain
<1>4. Forking(s, n, f, e) = Forked(s, n, f)
  <2>1. PICK c, j : c = CreateAll(n, f) /\ j = JoinAll(n)
    OBVIOUS
  <2>2. s \in Seq(X) /\ c \in Seq(X) /\ j \in Seq(X)
    BY <2>1 DEF Alone
  <2>3. (s \o c \o j) \o e = s \o c \o j
    BY <1>1, <2>2
  <2>. QED
    BY <2>1, <2>3, Zenon DEF Forking, Forked
<1>5. PICK u : u = Forked(s, n, f)
  OBVIOUS
<1>6. Len(u) = a + 2 * n + z /\ Laid(u, a, n, f) /\ LineByLine(u, s, a, e, z, n)
  <2>1. /\ Len(Forking(s, n, f, e)) = a + 2 * n + z
        /\ Laid(Forking(s, n, f, e), a, n, f)
        /\ LineByLine(Forking(s, n, f, e), s, a, e, z, n)
    BY ONLY <1>3, LaidOut, Zenon
  <2>2. Forking(s, n, f, e) = u
    BY <1>4, <1>5, Zenon
  <2>. QED
    BY <2>1, <2>2, SMT
<1>7. a \in Nat /\ n \in Nat
  BY DEF Alone
<1>8. Len(u) = a + 2 * n /\ 1..z = {}
  BY <1>2, <1>6, <1>7
<1>. QED
  BY <1>5, <1>6, <1>8, Zenon DEF LineByLine

\* The same for n = 0.
LEMMA PlainLaid ==
  ASSUME NEW s, Plain(s), NEW a \in Nat, a <= Len(s), NEW f
  PROVE  Laid(s, a, 0, f)
<1>1. (a + 1)..(a + 0) = {} /\ (a + 0 + 1)..(a + 2 * 0) = {} /\ a + 2 * 0 = a
  OBVIOUS
<1>. QED
  BY <1>1, Zenon DEF Plain, Laid

\* One line of s increments o.
IncrementsOnce(s, o) ==
  \E k \in 1..Len(s) : \A i \in 1..Len(s) : s[i] = Increment(o) <=> i = k

\* IncrementAll increments each object at one line.
LEMMA IncrementAllOnce ==
  ASSUME NEW objs \in Seq(Objects), NEW m \in Nat, Len(objs) = m,
         \A i, j \in 1..m : objs[i] = objs[j] => i = j
  PROVE  /\ Len(IncrementAll(objs)) = 2 * m
         /\ \A i \in 1..(2 * m) : IncrementAll(objs)[i].op \in {"load", "increment"}
         /\ \A k \in 1..m, i \in 1..(2 * m) :
              IncrementAll(objs)[i] = Increment(objs[k]) <=> i = 2 * k
<1> DEFINE s == IncrementAll(objs)
<1>1. Len(s) = 2 * m
  BY DEF IncrementAll
<1>2. ASSUME NEW i \in 1..(2 * m)
      PROVE  \/ \E o \in Objects : s[i] = Load(o)
             \/ \E l \in 1..m : i = 2 * l /\ s[i] = Increment(objs[l])
  <2>1. CASE i % 2 = 1
    <3>1. (i + 1) \div 2 \in 1..m /\ s[i] = Load(objs[(i + 1) \div 2])
      BY <2>1 DEF IncrementAll
    <3>. QED
      BY <3>1
  <2>2. CASE i % 2 = 0
    <3>1. i \div 2 \in 1..m /\ i = 2 * (i \div 2)
      BY <2>2
    <3>2. s[i] = Increment(objs[i \div 2])
      BY <2>2 DEF IncrementAll
    <3>. QED
      BY <3>1, <3>2
  <2>. QED
    BY <2>1, <2>2
<1>3. ASSUME NEW k \in 1..m PROVE 2 * k \in 1..(2 * m) /\ s[2 * k] = Increment(objs[k])
  <2>1. PICK i \in 1..(2 * m) : i = 2 * k
    OBVIOUS
  <2>2. i % 2 = 0 /\ i \div 2 = k
    BY <2>1
  <2>3. s[i] = Increment(objs[i \div 2])
    BY <2>2 DEF IncrementAll
  <2>. QED
    BY <2>1, <2>2, <2>3
<1> HIDE DEF s
<1>4. \A i \in 1..(2 * m) : s[i].op \in {"load", "increment"}
  BY <1>2, Distinct
<1>5. ASSUME NEW k \in 1..m, NEW i \in 1..(2 * m), s[i] = Increment(objs[k])
      PROVE  i = 2 * k
  <2>1. PICK l \in 1..m : i = 2 * l /\ s[i] = Increment(objs[l])
    BY <1>2, <1>5, Distinct
  <2>2. objs[k] = objs[l]
    BY <1>5, <2>1, Distinct
  <2>. QED
    BY <2>1, <2>2
<1>. QED
  BY <1>1, <1>3, <1>4, <1>5 DEF s

\* The two structures that are counted in.
LEMMA TheObjects ==
  /\ Blob \in Seq(Objects) /\ Len(Blob) = 3 /\ \A i, j \in 1..3 : Blob[i] = Blob[j] => i = j
  /\ Pair \in Seq(Objects) /\ Len(Pair) = 2 /\ \A i, j \in 1..2 : Pair[i] = Pair[j] => i = j
  /\ \A o \in {"a", "b", "c"} : \E k \in 1..3 : Blob[k] = o
  /\ \A o \in {"x", "y"} : \E k \in 1..2 : Pair[k] = o
  /\ \A k \in 1..3 : Blob[k] \in {"a", "b", "c"}
  /\ \A k \in 1..2 : Pair[k] \in {"x", "y"}
<1>1. Blob \in Seq(Objects) /\ Len(Blob) = 3 /\ Blob[1] = "a" /\ Blob[2] = "b" /\ Blob[3] = "c"
  BY DEF Blob, Objects
<1>2. Pair \in Seq(Objects) /\ Len(Pair) = 2 /\ Pair[1] = "x" /\ Pair[2] = "y"
  BY DEF Pair, Objects
<1>3. 1..3 = {1, 2, 3} /\ 1..2 = {1, 2}
  OBVIOUS
<1>. QED
  BY <1>1, <1>2, <1>3

\* A thread function increments each counter once; main starts from zero and
\* requires in the end what its threads, and theirs, have counted.
ThreadBody(s) ==
  /\ \A o \in Counters : IncrementsOnce(s, o)
  /\ \A i \in 1..Len(s) : s[i].op # "require"

Requires(s) ==
  \A i \in 1..Len(s) :
    s[i].op = "require" =>
      s[i].at \in Counters /\ s[i].val = ThreadNum * (Nested + 1) /\ i > LastJoin("main")

\* IncrementAll as the body of a thread.
LEMMA IncrementBody ==
  ASSUME NEW m \in {2, 3}, m = 2 <=> program = "race_condition",
         NEW s, s = IF m = 2 THEN IncrementAll(Pair) ELSE IncrementAll(Blob)
  PROVE  /\ Len(s) = 2 * m /\ Plain(s) /\ ThreadBody(s)
         /\ \A fs : s \in Seq(Operations(fs))
<1> DEFINE objs == IF m = 2 THEN Pair ELSE Blob
<1>1. /\ objs \in Seq(Objects) /\ Len(objs) = m /\ s = IncrementAll(objs)
      /\ \A i, j \in 1..m : objs[i] = objs[j] => i = j
      /\ \A o \in Counters : \E k \in 1..m : objs[k] = o
  BY TheObjects DEF Counters
<1> HIDE DEF objs
<1>2. /\ Len(s) = 2 * m
      /\ \A i \in 1..(2 * m) : s[i].op \in {"load", "increment"}
      /\ \A k \in 1..m, i \in 1..(2 * m) : s[i] = Increment(objs[k]) <=> i = 2 * k
  <2>1. m \in Nat
    OBVIOUS
  <2>2. /\ Len(IncrementAll(objs)) = 2 * m
        /\ \A i \in 1..(2 * m) : IncrementAll(objs)[i].op \in {"load", "increment"}
        /\ \A k \in 1..m, i \in 1..(2 * m) :
             IncrementAll(objs)[i] = Increment(objs[k]) <=> i = 2 * k
    BY <1>1, <2>1, IncrementAllOnce
  <2>. QED
    BY <1>1, <2>2
<1>3. Plain(s)
  BY <1>2 DEF Plain
<1>4. ASSUME NEW o \in Counters PROVE IncrementsOnce(s, o)
  <2>1. PICK k \in 1..m : objs[k] = o
    BY <1>1
  <2>2. 2 * k \in 1..Len(s)
    BY <1>2
  <2>3. \A i \in 1..Len(s) : s[i] = Increment(o) <=> i = 2 * k
    BY <1>2, <2>1
  <2>. QED
    BY <2>2, <2>3 DEF IncrementsOnce
<1>5. \A fs : s \in Seq(Operations(fs))
  BY <1>1, IncrementAllLoadsFirst
<1>6. \A i \in 1..Len(s) : s[i].op # "require"
  BY <1>2
<1>. QED
  BY <1>2, <1>3, <1>4, <1>5, <1>6 DEF ThreadBody

Wraps(u, s, x, y) ==
  /\ Len(u) = Len(s) + 2 /\ u[1] = x /\ u[Len(s) + 2] = y
  /\ \A i \in 1..Len(s) : u[i + 1] = s[i]

\* A sequence between two more lines.
LEMMA Wrapped ==
  ASSUME NEW X, NEW s \in Seq(X), NEW x \in X, NEW y \in X
  PROVE  Wraps(<<x>> \o s \o <<y>>, s, x, y)
BY DEF Wraps

\* The body of a thread of lock.cc.
LEMMA LockBody ==
  ASSUME NEW s, NEW X, s \in Seq(X), Lock \in X, Unlock \in X, Plain(s), ThreadBody(s), Len(s) = 6
  PROVE  LET u == <<Lock>> \o s \o <<Unlock>>
         IN  Len(u) = 8 /\ Plain(u) /\ ThreadBody(u)
<1> DEFINE u == <<Lock>> \o s \o <<Unlock>>
<1>w. Wraps(u, s, Lock, Unlock)
  BY Wrapped, Zenon
<1>1. Len(u) = 8 /\ u[1] = Lock /\ u[8] = Unlock /\ \A i \in 1..6 : u[i + 1] = s[i]
  <2> HIDE DEF u
  <2>. QED
    BY <1>w DEF Wraps
<1>2. Lock.op = "lock" /\ Unlock.op = "unlock"
  BY DEF Lock, Unlock
<1> HIDE DEF u
<1>3. \A i \in 1..8 : i = 1 \/ i = 8 \/ (i - 1 \in 1..6 /\ u[i] = s[i - 1])
  <2> TAKE i \in 1..8
  <2>1. i - 1 \in 1..6 => u[(i - 1) + 1] = s[i - 1]
    BY <1>1
  <2>. QED
    BY <2>1
<1>4. \A i \in 1..6 : s[i].op \notin {"create", "join", "require"}
  BY DEF Plain, ThreadBody
<1>5. \A i \in 1..8 : u[i].op \notin {"create", "join", "require"}
  BY <1>1, <1>2, <1>3, <1>4
<1>6. ASSUME NEW o \in Counters PROVE IncrementsOnce(u, o)
  <2>1. PICK k \in 1..6 : \A i \in 1..6 : s[i] = Increment(o) <=> i = k
    BY DEF ThreadBody, IncrementsOnce
  <2>2. Lock # Increment(o) /\ Unlock # Increment(o)
    <3>1. o \in Objects
      BY DEF Counters, Objects
    <3>. QED
      BY <1>2, <3>1, Distinct
  <2>3. ASSUME NEW i \in 1..8 PROVE u[i] = Increment(o) <=> i = k + 1
    BY <1>1, <1>3, <2>1, <2>2
  <2>. QED
    BY <1>1, <2>3 DEF IncrementsOnce
<1>. QED
  BY <1>1, <1>5, <1>6 DEF Plain, ThreadBody, u

\* Every thread function counts each counter once, and creates what it joins.
LEMMA ThreadLines ==
  ASSUME program \in Verifying, program \in DOMAIN Code,
         NEW f \in DOMAIN Code[program] \ {"main"}
  PROVE  LET s == Code[program][f]
         IN  /\ f \in {"fn1", "fn2"} /\ program # "serial"
             /\ Laid(s, LinesBefore(f), ThreadsOf(f), Child(f)) /\ ThreadBody(s)
<1>b. PICK blob, pair : blob = IncrementAll(Blob) /\ pair = IncrementAll(Pair)
  OBVIOUS
<1>1. /\ program # "race_condition" =>
           /\ Len(blob) = 6 /\ Plain(blob) /\ ThreadBody(blob)
           /\ \A fs : blob \in Seq(Operations(fs))
      /\ program = "race_condition" => Len(pair) = 4 /\ Plain(pair) /\ ThreadBody(pair)
  <2>1. PICK m \in {2, 3} : m = 2 <=> program = "race_condition"
    OBVIOUS
  <2>2. PICK s : s = IF m = 2 THEN IncrementAll(Pair) ELSE IncrementAll(Blob)
    OBVIOUS
  <2>3. Len(s) = 2 * m /\ Plain(s) /\ ThreadBody(s) /\ \A fs : s \in Seq(Operations(fs))
    BY <2>1, <2>2, IncrementBody
  <2>4. IF m = 2 THEN s = pair /\ Len(s) = 4 ELSE s = blob /\ Len(s) = 6
    <3>1. Len(s) = 2 * m
      BY <2>3
    <3>2. IF m = 2 THEN s = pair ELSE s = blob
      BY <1>b, <2>2, Zenon
    <3>3. Len(s) = IF m = 2 THEN 4 ELSE 6
      BY <2>1, <3>1
    <3>. QED
      BY <3>2, <3>3
  <2>. QED
    BY <2>1, <2>3, <2>4
<1>2. LinesBefore(f) = IF program = "race_condition" THEN 4 ELSE 6
  BY DEF LinesBefore
<1>3. program # "nolock" => ThreadsOf(f) = 0
  BY DEF ThreadsOf, Nested
<1>p. ASSUME NEW s, Plain(s), LinesBefore(f) <= Len(s), ThreadsOf(f) = 0
      PROVE  Laid(s, LinesBefore(f), ThreadsOf(f), Child(f))
  BY <1>p, <1>2, PlainLaid
<1>q. ASSUME NEW s, s = Code[program][f], Plain(s), LinesBefore(f) <= Len(s), ThreadsOf(f) = 0,
             ThreadBody(s), f \in {"fn1", "fn2"}, program # "serial"
      PROVE  LET t == Code[program][f]
             IN  /\ f \in {"fn1", "fn2"} /\ program # "serial"
                 /\ Laid(t, LinesBefore(f), ThreadsOf(f), Child(f)) /\ ThreadBody(t)
  BY <1>p, <1>q, Zenon
<1>4. CASE program = "test"
  <2>1. Code[program] = [main |-> test_main, fn1 |-> test_fn1, fn2 |-> test_fn2]
    BY <1>4 DEF Code
  <2>2. f \in {"fn1", "fn2"} /\ Code[program][f] = blob
    BY <1>b, <2>1 DEF test_fn1, test_fn2
  <2>3. LinesBefore(f) <= Len(blob)
    <3>1. Len(blob) = 6
      BY <1>1, <1>4, Zenon
    <3>2. LinesBefore(f) = 6
      BY <1>2, <1>4
    <3>. QED
      BY <3>1, <3>2
  <2>. QED
    BY <1>1, <1>3, <1>q, <1>4, <2>2, <2>3
<1>5. CASE program = "race_condition"
  <2>1. Code[program] = [main |-> race_condition_main, fn1 |-> race_condition_fn1]
    BY <1>5 DEF Code
  <2>2. f = "fn1" /\ Code[program][f] = pair
    BY <1>b, <2>1 DEF race_condition_fn1
  <2>3. LinesBefore(f) <= Len(pair)
    <3>1. Len(pair) = 4
      BY <1>1, <1>5, Zenon
    <3>2. LinesBefore(f) = 4
      BY <1>2, <1>5
    <3>. QED
      BY <3>1, <3>2
  <2>. QED
    BY <1>1, <1>3, <1>q, <1>5, <2>2, <2>3
<1>6. CASE program = "lock"
  <2>1. Code[program] = [main |-> lock_main, fn1 |-> lock_fn1, fn2 |-> lock_fn2]
    BY <1>6 DEF Code
  <2>2. f \in {"fn1", "fn2"} /\ Code[program][f] = <<Lock>> \o blob \o <<Unlock>>
    BY <1>b, <2>1 DEF lock_fn1, lock_fn2
  <2>3. Lock \in Operations({}) /\ Unlock \in Operations({})
    BY DEF Lock, Unlock, Operations
  <2>5. Len(blob) = 6 /\ Plain(blob) /\ ThreadBody(blob) /\ blob \in Seq(Operations({}))
    BY <1>1, <1>6
  <2>6. PICK u : u = <<Lock>> \o blob \o <<Unlock>>
    OBVIOUS
  <2>7. Len(u) = 8 /\ Plain(u) /\ ThreadBody(u)
    BY <2>3, <2>5, <2>6, LockBody, Zenon
  <2>8. Code[program][f] = u
    BY <2>2, <2>6, Zenon
  <2>9. LinesBefore(f) <= Len(u)
    BY <1>2, <1>6, <2>7
  <2>. QED
    BY <1>3, <1>q, <1>6, <2>2, <2>7, <2>8, <2>9
<1>7. CASE program = "nolock"
  <2>1. Code[program] = [main |-> nolock_main, fn1 |-> nolock_fn1, fn2 |-> nolock_fn2]
    BY <1>7 DEF Code
  <2>2. CASE f = "fn2"
    <3>1. Code[program][f] = blob /\ ThreadsOf(f) = 0
      BY <1>b, <2>1, <2>2 DEF nolock_fn2, ThreadsOf
    <3>2. LinesBefore(f) <= Len(blob)
      <4>1. Len(blob) = 6
        BY <1>1, <1>7, Zenon
      <4>2. LinesBefore(f) = 6
        BY <1>2, <1>7
      <4>. QED
        BY <4>1, <4>2
    <3>. QED
      BY <1>1, <1>q, <1>7, <2>2, <3>1, <3>2
  <2>3. CASE f = "fn1"
    <3> DEFINE n == SecondaryThreadNum
               X == Operations({"main", "fn1", "fn2"})
    <3>1. PICK s : s = blob
      OBVIOUS
    <3>2. Len(s) = 6 /\ Plain(s) /\ ThreadBody(s) /\ s \in Seq(X)
      BY <1>1, <1>7, <3>1, Zenon
    <3>3. n \in Nat /\ CreateAll(n, "fn2") \in Seq(X) /\ JoinAll(n) \in Seq(X)
      BY ProgramsAssumption, OtherParts, TheObjects
    <3>7. PICK u : u = Forked(s, n, "fn2")
      OBVIOUS
    <3>9. Code[program][f] = u
      <4>1. Code[program][f] = nolock_fn1
        BY <2>1, <2>3
      <4>2. nolock_fn1 = Forked(blob, n, "fn2")
        BY <1>b, Zenon DEF nolock_fn1, Forked
      <4>3. Forked(blob, n, "fn2") = Forked(s, n, "fn2")
        BY <3>1, Zenon
      <4>. QED
        BY <3>7, <4>1, <4>2, <4>3, Zenon
    <3> HIDE DEF n, X
    <3>5. Alone(X, s, n, "fn2", 6)
      BY <3>2, <3>3 DEF Alone
    <3>6. /\ Len(Forked(s, n, "fn2")) = 6 + 2 * n /\ Laid(Forked(s, n, "fn2"), 6, n, "fn2")
          /\ \A i \in 1..Len(Forked(s, n, "fn2")) :
               \/ i \in 1..6 /\ Forked(s, n, "fn2")[i] = s[i]
               \/ Forked(s, n, "fn2")[i].op \in {"create", "join"}
      BY ONLY <3>5, LaidAlone, Zenon
    <3>8. Len(u) = 6 + 2 * n /\ Laid(u, 6, n, "fn2")
      BY <3>6, <3>7, SMT
    <3>10. \A i \in 1..Len(u) : (i \in 1..6 /\ u[i] = s[i]) \/ u[i].op \in {"create", "join"}
      BY <3>6, <3>7, SMT
    <3>11. ThreadBody(u)
      <4>1. \A i \in 1..Len(u) : u[i].op # "require"
        BY <3>2, <3>10 DEF ThreadBody
      <4>2. ASSUME NEW o \in Counters PROVE IncrementsOnce(u, o)
        <5>1. PICK k \in 1..6 : \A i \in 1..6 : s[i] = Increment(o) <=> i = k
          BY <3>2 DEF ThreadBody, IncrementsOnce
        <5>2. o \in Objects
          BY DEF Counters, Objects
        <5>3. ASSUME NEW i \in 1..Len(u) PROVE u[i] = Increment(o) <=> i = k
          <6>1. CASE i \in 1..6 /\ u[i] = s[i]
            BY <5>1, <6>1
          <6>2. CASE i \notin 1..6 /\ u[i].op \in {"create", "join"}
            BY <5>2, <6>2, Distinct
          <6>3. CASE i \in 1..6 /\ u[i].op \in {"create", "join"}
            <7>1. /\ u[i].op = "create" <=> i \in (6 + 1)..(6 + n)
                  /\ u[i].op = "join" <=> i \in (6 + n + 1)..(6 + 2 * n)
              BY <3>8 DEF Laid
            <7>2. i \notin (6 + 1)..(6 + n) /\ i \notin (6 + n + 1)..(6 + 2 * n)
              BY <3>3, <6>3
            <7>. QED
              BY <6>3, <7>1, <7>2
          <6>. QED
            BY <3>10, <6>1, <6>2, <6>3
        <5>4. k \in 1..Len(u)
          BY <3>3, <3>8
        <5>. QED
          BY <5>3, <5>4 DEF IncrementsOnce
      <4>. QED
        BY <4>1, <4>2 DEF ThreadBody
    <3>12. LinesBefore(f) = 6 /\ ThreadsOf(f) = n /\ Child(f) = "fn2"
      BY <1>2, <1>7, <2>3 DEF ThreadsOf, Nested, Child, n
    <3>. QED
      BY <1>7, <2>3, <3>8, <3>9, <3>11, <3>12
  <2>4. f \in {"fn1", "fn2"}
    BY <2>1
  <2>. QED
    BY <2>2, <2>3, <2>4
<1>8. program # "serial"
  BY DEF Code
<1>. QED
  BY <1>4, <1>5, <1>6, <1>7, <1>8 DEF Verifying

\* Every main but that of serial.cc creates, joins, and then requires.
LEMMA MainLines ==
  ASSUME program \in Verifying, program # "serial", NEW s, s = Code[program]["main"]
  PROVE  /\ Laid(s, LinesBefore("main"), ThreadNum, "fn1") /\ Requires(s)
         /\ \A i \in 1..Len(s) : s[i].op # "increment"
<1> DEFINE v == ThreadNum * (Nested + 1)
<1>1. ThreadNum \in Nat \ {0} /\ Nested \in Nat /\ v \in Nat
  BY ProgramsAssumption DEF Nested
<1>2. PICK m \in {2, 3} : m = 2 <=> program = "race_condition"
  OBVIOUS
<1>3. PICK objs : objs = IF m = 2 THEN Pair ELSE Blob
  OBVIOUS
<1>4. objs \in Seq(Objects) /\ Len(objs) = m /\ \A k \in 1..m : objs[k] \in Counters
  BY <1>2, <1>3, TheObjects DEF Counters
<1>5. s = Forking(PutAll(objs, 0), ThreadNum, "fn1", RequireAll(objs, v))
  <2> USE Zenon
  <2>1. program # "nolock" => v = ThreadNum
    <3>1. ThreadNum * (0 + 1) = ThreadNum
      BY <1>1, SMT
    <3>. QED
      BY <3>1 DEF Nested
  <2>2. CASE program = "test"
    <3>1. s = test_main
      BY <2>2, SMT DEF Code
    <3>2. objs = Blob /\ v = ThreadNum
      BY <1>2, <1>3, <2>1, <2>2, SMT
    <3>. QED
      BY <3>1, <3>2 DEF test_main, test_verify, Forking
  <2>3. CASE program = "lock"
    <3>1. s = lock_main
      BY <2>3, SMT DEF Code
    <3>2. objs = Blob /\ v = ThreadNum
      BY <1>2, <1>3, <2>1, <2>3, SMT
    <3>. QED
      BY <3>1, <3>2 DEF lock_main, lock_verify, Forking
  <2>4. CASE program = "race_condition"
    <3>1. s = race_condition_main
      BY <2>4, SMT DEF Code
    <3>2. objs = Pair /\ v = ThreadNum
      BY <1>2, <1>3, <2>1, <2>4, SMT
    <3>. QED
      BY <3>1, <3>2 DEF race_condition_main, Forking
  <2>5. CASE program = "nolock"
    <3>1. s = nolock_main
      BY <2>5, SMT DEF Code
    <3>2. objs = Blob /\ v = ThreadNum * (SecondaryThreadNum + 1)
      BY <1>2, <1>3, <2>5, SMT DEF Nested
    <3>. QED
      BY <3>1, <3>2 DEF nolock_main, nolock_verify, Forking
  <2>. QED
    BY <2>2, <2>3, <2>4, <2>5, SMT DEF Verifying
<1> HIDE DEF v
<1>6. /\ Len(PutAll(objs, 0)) = m /\ \A i \in 1..m : PutAll(objs, 0)[i].op = "put"
      /\ Len(RequireAll(objs, v)) = m
      /\ \A i \in 1..m : RequireAll(objs, v)[i] = Require(objs[i], v)
  BY <1>4 DEF PutAll, RequireAll, Put
<1>7. \A i \in 1..m : RequireAll(objs, v)[i].op = "require"
                      /\ RequireAll(objs, v)[i].at \in Counters /\ RequireAll(objs, v)[i].val = v
  BY <1>4, <1>6 DEF Require
<1>8. PICK p, r : p = PutAll(objs, 0) /\ r = RequireAll(objs, v)
  OBVIOUS
<1>9. Pieces(Operations({"main", "fn1"}), p, ThreadNum, "fn1", r, m, m)
  <2>1. /\ p \in Seq(Operations({"main", "fn1"})) /\ r \in Seq(Operations({"main", "fn1"}))
        /\ CreateAll(ThreadNum, "fn1") \in Seq(Operations({"main", "fn1"}))
        /\ JoinAll(ThreadNum) \in Seq(Operations({"main", "fn1"}))
    BY <1>1, <1>4, <1>8, OtherParts
  <2>2. Plain(p) /\ Plain(r)
    BY <1>6, <1>7, <1>8 DEF Plain
  <2>. QED
    BY <1>1, <1>6, <1>8, <2>1, <2>2 DEF Pieces
<1>10. /\ Len(s) = m + 2 * ThreadNum + m /\ Laid(s, m, ThreadNum, "fn1")
       /\ LineByLine(s, p, m, r, m, ThreadNum)
  <2>1. /\ Len(Forking(p, ThreadNum, "fn1", r)) = m + 2 * ThreadNum + m
        /\ Laid(Forking(p, ThreadNum, "fn1", r), m, ThreadNum, "fn1")
        /\ LineByLine(Forking(p, ThreadNum, "fn1", r), p, m, r, m, ThreadNum)
    BY ONLY <1>9, LaidOut, Zenon
  <2>2. Forking(p, ThreadNum, "fn1", r) = s
    BY <1>5, <1>8, Zenon
  <2>. QED
    BY <2>1, <2>2, SMT
<1>11. LinesBefore("main") = m /\ LastJoin("main") = m + 2 * ThreadNum
  BY <1>1, <1>2 DEF LinesBefore, LastJoin, ThreadsOf
<1>12. ASSUME NEW i \in 1..Len(s)
       PROVE  \/ s[i].op \in {"put", "create", "join"}
              \/ /\ s[i].op = "require" /\ s[i].at \in Counters /\ s[i].val = v
                 /\ i > LastJoin("main")
  <2>1. CASE i \in 1..m /\ s[i] = p[i]
    BY <1>6, <1>8, <2>1
  <2>2. CASE i - (m + 2 * ThreadNum) \in 1..m /\ s[i] = r[i - (m + 2 * ThreadNum)]
    <3>1. PICK k \in 1..m : k = i - (m + 2 * ThreadNum)
      BY <2>2
    <3>2. s[i] = r[k] /\ i > LastJoin("main")
      BY <1>1, <1>11, <2>2, <3>1
    <3>. QED
      BY <1>7, <1>8, <3>2
  <2>. QED
    BY <1>10, <2>1, <2>2 DEF LineByLine
<1>13. Requires(s)
  BY <1>12 DEF Requires, v
<1>. QED
  BY <1>10, <1>11, <1>12, <1>13

\* A set whose elements are named, each once, by those of another.
LEMMA CountedBy ==
  ASSUME NEW S, IsFiniteSet(S), NEW T, NEW f \in [S -> T],
         \A x, y \in S : f[x] = f[y] => x = y, \A t \in T : \E x \in S : f[x] = t
  PROVE  Cardinality(T) = Cardinality(S)
<1>1. ExistsBijection(S, T)
  BY DEF ExistsBijection, Bijection, Injection, Surjection, IsInjective
<1>. QED
  BY <1>1, FS_Bijection

\* What is in a sequence is of its type.
LEMMA Elements == \A X : \A s \in Seq(X) : \A k \in 1..Len(s) : s[k] \in X
OBVIOUS

Parts(s, t, r) == s \o t \o r

AreThree(u, s, t, r) ==
  /\ Len(u) = Len(s) + Len(t) + Len(r)
  /\ \A i \in 1..Len(s) : u[i] = s[i]
  /\ \A i \in 1..Len(t) : u[Len(s) + i] = t[i]
  /\ \A i \in 1..Len(r) : u[Len(s) + Len(t) + i] = r[i]

LEMMA ThreeParts ==
  ASSUME NEW X, NEW s \in Seq(X), NEW t \in Seq(X), NEW r \in Seq(X)
  PROVE  AreThree(Parts(s, t, r), s, t, r)
BY DEF Parts, AreThree

\* The lines of s before line i that increment o.
LinesUpTo(s, i, o) == {j \in 1..(i - 1) : s[j] = Increment(o)}

\* One after the other, the rounds of the loop in serial.cc.
LEMMA SerialLines ==
  ASSUME program = "serial", NEW s, s = Code[program]["main"]
  PROVE  /\ Plain(s) /\ Len(s) \in Nat /\ Len(s) > 3
         /\ Requires(s)
         /\ \A i \in 1..Len(s), o \in Counters :
              s[i].op = "require" => Cardinality(LinesUpTo(s, i, o)) = ThreadNum
<1> DEFINE T == ThreadNum
           line(k) == 1 + ((k - 1) % 6)
<1>1. T \in Nat \ {0}
  BY ProgramsAssumption
<1> HIDE DEF T
<1>w. PICK w \in Nat : w = 6 * T
  BY <1>1
<1>2. PICK b : b = IncrementAll(Blob)
  OBVIOUS
<1>3. PICK p, t, r : /\ p = PutAll(Blob, 0) /\ r = RequireAll(Blob, T)
                     /\ t = [i \in 1..w |-> b[line(i)]]
  OBVIOUS
<1>4. Blob \in Seq(Objects) /\ Len(Blob) = 3 /\ 2 * Len(Blob) = 6
  BY TheObjects
<1>5. s = Parts(p, t, r)
  <2>1. s = serial_main
    BY DEF Code
  <2>. QED
    BY <1>w, <1>2, <1>3, <1>4, <2>1, Zenon DEF serial_main, serial_verify, Parts, T
<1>6. /\ Len(b) = 6 /\ \A k \in 1..6 : b[k].op \in {"load", "increment"}
      /\ \A l \in 1..3, k \in 1..6 : b[k] = Increment(Blob[l]) <=> k = 2 * l
      /\ b \in Seq(Operations({"main"}))
  <2>1. PICK m \in Nat : m = 3
    OBVIOUS
  <2>2. Blob \in Seq(Objects) /\ Len(Blob) = m /\ \A i, j \in 1..m : Blob[i] = Blob[j] => i = j
    BY <2>1, TheObjects
  <2>6. /\ Len(IncrementAll(Blob)) = 2 * m
        /\ \A i \in 1..(2 * m) : IncrementAll(Blob)[i].op \in {"load", "increment"}
        /\ \A k \in 1..m, i \in 1..(2 * m) :
             IncrementAll(Blob)[i] = Increment(Blob[k]) <=> i = 2 * k
    BY ONLY <2>2, IncrementAllOnce, Zenon
  <2>3. /\ Len(b) = 2 * m
        /\ \A i \in 1..(2 * m) : b[i].op \in {"load", "increment"}
        /\ \A k \in 1..m, i \in 1..(2 * m) : b[i] = Increment(Blob[k]) <=> i = 2 * k
    BY <1>2, <2>6, Zenon
  <2>4. 2 * m = 6
    BY <2>1
  <2>5. b \in Seq(Operations({"main"}))
    BY <1>2, <1>4, IncrementAllLoadsFirst
  <2>. QED
    BY <2>1, <2>3, <2>4, <2>5
<1>7. \A i \in 1..w : line(i) \in 1..6
  OBVIOUS
<1>r. \A k \in 1..w : \E x \in 1..T : k = 6 * x - 6 + line(k)
  <2> TAKE k \in 1..w
  <2>1. PICK x, y \in Int : x = (k - 1) \div 6 /\ y = (k - 1) % 6
    OBVIOUS
  <2>2. k - 1 = 6 * x + y /\ y \in 0..5
    BY <2>1
  <2>3. x + 1 \in 1..T /\ k = 6 * (x + 1) - 6 + (1 + y)
    BY <1>1, <1>w, <2>2
  <2>. QED
    BY <2>1, <2>3
<1>l. ASSUME NEW x \in 1..T, NEW l \in 1..3, NEW k, k = 6 * x - 6 + 2 * l
      PROVE  k \in 1..w /\ line(k) = 2 * l
  BY <1>1, <1>w, <1>l
<1> HIDE DEF line
<1>8. /\ t \in Seq(Operations({"main"})) /\ Len(t) = w /\ \A i \in 1..w : t[i] = b[line(i)]
  <2>1. \A i \in 1..w : b[line(i)] \in Operations({"main"})
    <3>1. PICK X : X = Operations({"main"})
      OBVIOUS
    <3>2. b \in Seq(X) /\ Len(b) = 6
      BY <1>6, <3>1
    <3>3. \A k \in 1..Len(b) : b[k] \in X
      BY <3>2, Elements, Zenon
    <3>4. \A k \in 1..6 : b[k] \in X
      BY <3>2, <3>3, Zenon
    <3>. QED
      BY <1>7, <3>1, <3>4, Zenon
  <2>. QED
    BY <1>3, <2>1
<1>9. /\ p \in Seq(Operations({"main"})) /\ Len(p) = 3 /\ \A i \in 1..3 : p[i].op = "put"
      /\ r \in Seq(Operations({"main"})) /\ Len(r) = 3
      /\ \A i \in 1..3 : r[i].op = "require" /\ r[i].at \in Counters /\ r[i].val = T
  <2>1. p \in Seq(Operations({"main"})) /\ r \in Seq(Operations({"main"}))
    BY <1>1, <1>3, <1>4, OtherParts
  <2>2. Len(p) = 3 /\ \A i \in 1..3 : p[i].op = "put"
    BY <1>3, <1>4 DEF PutAll, Put
  <2>3. Len(r) = 3 /\ \A i \in 1..3 : r[i] = Require(Blob[i], T)
    BY <1>3, <1>4 DEF RequireAll
  <2>4. \A i \in 1..3 : Blob[i] \in Counters
    BY TheObjects DEF Counters
  <2>. QED
    BY <2>1, <2>2, <2>3, <2>4 DEF Require
<1>10. /\ Len(s) = 6 + w
       /\ \A i \in 1..3 : s[i] = p[i]
       /\ \A i \in 1..w : s[3 + i] = t[i]
       /\ \A i \in 1..3 : s[3 + w + i] = r[i]
  <2>1. /\ Len(s) = Len(p) + Len(t) + Len(r)
        /\ \A i \in 1..Len(p) : s[i] = p[i]
        /\ \A i \in 1..Len(t) : s[Len(p) + i] = t[i]
        /\ \A i \in 1..Len(r) : s[Len(p) + Len(t) + i] = r[i]
    <3>1. /\ p \in Seq(Operations({"main"})) /\ t \in Seq(Operations({"main"}))
          /\ r \in Seq(Operations({"main"}))
      BY <1>8, <1>9
    <3>2. AreThree(s, p, t, r)
      BY ONLY <1>5, <3>1, ThreeParts, Zenon
    <3>. QED
      BY <3>2 DEF AreThree
  <2>2. Len(p) = 3 /\ Len(t) = w /\ Len(r) = 3 /\ 3 + w + 3 = 6 + w
    BY <1>8, <1>9
  <2>. QED
    BY <2>1, <2>2
<1>11. ASSUME NEW i \in 1..Len(s)
       PROVE  \/ i <= 3 /\ s[i].op = "put"
              \/ \E k \in 1..w : i = 3 + k /\ s[i] = b[line(k)]
              \/ i > 3 + w /\ s[i].op = "require" /\ s[i].at \in Counters /\ s[i].val = T
  <2>0. i \in 1..(6 + w)
    BY <1>10
  <2>1. CASE i <= 3
    <3>1. i \in 1..3
      BY <2>0, <2>1
    <3>. QED
      BY <1>9, <1>10, <2>1, <3>1, Zenon
  <2>2. CASE i > 3 /\ i <= 3 + w
    <3>1. PICK k \in 1..w : i = 3 + k
      <4>1. i - 3 \in 1..w /\ i = 3 + (i - 3)
        BY <2>0, <2>2
      <4>. QED
        BY <4>1
    <3>2. s[i] = b[line(k)]
      BY <1>8, <1>10, <3>1
    <3>. QED
      BY <3>1, <3>2
  <2>3. CASE i > 3 + w
    <3>1. i - (3 + w) \in 1..3 /\ i = 3 + w + (i - (3 + w))
      BY <2>0, <2>3
    <3>2. PICK k \in 1..3 : k = i - (3 + w)
      BY <3>1
    <3>3. s[i] = r[k]
      BY <1>10, <3>1, <3>2
    <3>. QED
      BY <1>9, <2>3, <3>3
  <2>4. i <= 3 \/ (i > 3 /\ i <= 3 + w) \/ i > 3 + w
    BY <2>0
  <2>. QED
    BY <2>1, <2>2, <2>3, <2>4, Zenon
<1>12. ASSUME NEW i \in 1..Len(s) PROVE s[i].op \in {"put", "load", "increment", "require"}
  <2>1. \A k \in 1..w : b[line(k)].op \in {"load", "increment"}
    BY <1>6, <1>7
  <2>. QED
    BY <1>11, <2>1
<1>13. ASSUME NEW i \in 1..Len(s), s[i].op = "require"
       PROVE  i > 3 + w /\ s[i].at \in Counters /\ s[i].val = T
  BY <1>6, <1>7, <1>11, <1>13
<1>14. LastJoin("main") = 0 /\ ThreadNum * (Nested + 1) = T
  BY <1>1 DEF LastJoin, ThreadsOf, Nested, T
<1>15. ASSUME NEW i \in 1..Len(s), NEW o \in Counters, s[i].op = "require"
       PROVE  Cardinality(LinesUpTo(s, i, o)) = T
  <2> DEFINE S == {j \in 1..(i - 1) : s[j] = Increment(o)}
  <2>1. PICK l \in 1..3 : Blob[l] = o
    BY TheObjects DEF Counters
  <2>2. Increment(o).op = "increment"
    BY DEF Increment
  <2>3. i > 3 + w
    BY <1>13, <1>15
  <2> DEFINE f == [x \in 1..T |-> 3 + (6 * x - 6 + 2 * l)]
  <2>4. ASSUME NEW x \in 1..T PROVE f[x] \in S
    <3>1. PICK k : k = 6 * x - 6 + 2 * l
      OBVIOUS
    <3>2. k \in 1..w /\ line(k) = 2 * l
      BY <1>l, <3>1
    <3>3. s[3 + k] = Increment(o)
      BY <1>6, <1>7, <1>8, <1>10, <2>1, <3>2
    <3>4. 3 + k \in 1..(i - 1)
      BY <2>3, <3>2
    <3>. QED
      BY <3>1, <3>3, <3>4
  <2>5. ASSUME NEW j \in S PROVE \E x \in 1..T : f[x] = j
    <3>1. j \in 1..Len(s) /\ s[j] = Increment(o)
      OBVIOUS
    <3>2. PICK k \in 1..w : j = 3 + k /\ s[j] = b[line(k)]
      BY <1>11, <2>2, <3>1
    <3>3. line(k) = 2 * l
      BY <1>6, <1>7, <2>1, <3>1, <3>2
    <3>4. PICK x \in 1..T : k = 6 * x - 6 + line(k)
      BY <1>r
    <3>. QED
      BY <3>2, <3>3, <3>4
  <2>6. \A x, y \in 1..T : f[x] = f[y] => x = y
    BY <1>1
  <2>7. IsFiniteSet(1..T) /\ Cardinality(1..T) = T
    BY <1>1, FS_Interval
  <2>8. f \in [1..T -> S]
    BY <2>4
  <2> HIDE DEF S, f
  <2>9. Cardinality(S) = Cardinality(1..T)
    BY <2>5, <2>6, <2>7, <2>8, CountedBy
  <2>. QED
    BY <2>7, <2>9 DEF S, LinesUpTo
<1>16. Len(s) \in Nat /\ Len(s) > 3
  BY <1>1, <1>w, <1>10
<1>17. Plain(s)
  BY <1>12 DEF Plain
<1>18. Requires(s)
  <2>1. \A i \in 1..Len(s) : i > LastJoin("main")
    BY <1>14, <1>16
  <2>. QED
    BY <1>13, <1>14, <2>1 DEF Requires
<1>. QED
  BY <1>15, <1>16, <1>17, <1>18, Zenon DEF T

-----------------------------------------------------------------------------
(* What a process has on its stack of the threads it has created *)

\* How many of n threads, created from line a + 1 on, there are before line pc.
Before(pc, a, n) == IF pc <= a + 1 THEN 0 ELSE IF pc > a + n THEN n ELSE pc - a - 1

\* What p has on its stack of the threads it has created: each of them once,
\* in the order of the lines, before a rollback and after it.
Handles(p) ==
  LET f == stack[p].fn
      threads == stack[p].threads
  IN  /\ stack[p].pc <= Len(Body(p)) + 1
      /\ checkpoint[p].threads = threads
      /\ \A pc \in {stack[p].pc, checkpoint[p].pc} :
           Len(threads) = Before(pc, LinesBefore(f), ThreadsOf(f))
      /\ \A i \in 1..Len(threads) : threads[i] \in Born /\ parent[threads[i]] = p
      /\ \A i, j \in 1..Len(threads) : threads[i] = threads[j] => i = j
      /\ \A i \in 1..ThreadsOf(f) :
           LinesBefore(f) + ThreadsOf(f) + i < stack[p].pc => threads[i] \in joined

\* A call is of the line at which its process stands.
CallStands(p) ==
  /\ phase[p] = "exited" => AtEnd(p)
  /\ phase[p] \in {"waiting", "validating", "ended"} =>
       /\ call[p].op = "exit" => AtEnd(p)
       /\ call[p].op = "join" => call[p].thread = stack[p].threads[Op(p).index]

\* Every thread is main or is on the stack of another.
HasCreator(c) ==
  \/ parent[c] = Root /\ stack[c].fn = "main"
  \/ \E p \in Born : /\ parent[c] = p /\ stack[c].fn = Child(stack[p].fn)
                     /\ \E i \in 1..Len(stack[p].threads) : stack[p].threads[i] = c

\* When main has joined its threads, nobody commits any more.
AloneAtEnd(p) ==
  stack[p].fn = "main" /\ stack[p].pc > LastJoin("main") /\ phase[p] \in G!Open =>
    newer[p] = {}

FamilyOf(p) == Handles(p) /\ CallStands(p) /\ HasCreator(p) /\ AloneAtEnd(p)

Families == \A p \in Born : FamilyOf(p)

\* All this, said of a process that runs its function.
LEMMA BodyLaid ==
  ASSUME Shapes, program \in Verifying, NEW p \in Procs
  PROVE  /\ stack[p].pc \in Nat \ {0} /\ checkpoint[p].pc \in Nat \ {0}
         /\ stack[p].threads \in Seq(Procs) /\ checkpoint[p].threads \in Seq(Procs)
         /\ Len(Body(p)) \in Nat
         /\ LinesBefore(stack[p].fn) \in Nat /\ ThreadsOf(stack[p].fn) \in Nat
         /\ LastJoin(stack[p].fn) \in Nat
         /\ Laid(Body(p), LinesBefore(stack[p].fn), ThreadsOf(stack[p].fn), Child(stack[p].fn))
         /\ stack[p].fn # "main" => ThreadBody(Body(p))
         /\ stack[p].fn = "main" => Requires(Body(p))
         /\ ~AtEnd(p) => stack[p].pc \in 1..Len(Body(p)) /\ Op(p) = Body(p)[stack[p].pc]
<1> DEFINE f == stack[p].fn
<1>1. /\ program \in DOMAIN Code /\ f \in DOMAIN Code[program]
      /\ stack[p].pc \in Nat \ {0} /\ checkpoint[p].pc \in Nat \ {0}
      /\ stack[p].threads \in Seq(Procs) /\ checkpoint[p].threads \in Seq(Procs)
  BY SystemAssumption DEF Shapes, Frames
<1>2. Len(Body(p)) \in Nat
  <2>1. Body(p) \in Seq(Operations(DOMAIN Code[program]))
    BY <1>1, CodeIsOps DEF Body
  <2>. QED
    BY <2>1
<1>3. LinesBefore(f) \in Nat /\ ThreadsOf(f) \in Nat /\ LastJoin(f) \in Nat
  BY ProgramsAssumption DEF LinesBefore, ThreadsOf, Nested, LastJoin
<1>7. /\ Laid(Body(p), LinesBefore(f), ThreadsOf(f), Child(f))
      /\ f # "main" => ThreadBody(Body(p))
      /\ f = "main" => Requires(Body(p))
  <2>4. CASE f # "main"
    <3>1. f \in DOMAIN Code[program] \ {"main"}
      BY <1>1, <2>4
    <3>. QED
      BY <1>1, <2>4, <3>1, ThreadLines DEF Body
  <2>5. CASE f = "main" /\ program # "serial"
    <3>1. ThreadsOf(f) = ThreadNum /\ Child(f) = "fn1"
      BY <2>5 DEF ThreadsOf, Child
    <3>2. Body(p) = Code[program]["main"]
      BY <2>5 DEF Body
    <3>. QED
      BY <2>5, <3>1, <3>2, MainLines
  <2>6. CASE f = "main" /\ program = "serial"
    <3>1. ThreadsOf(f) = 0 /\ LinesBefore(f) = 3
      BY <2>6 DEF ThreadsOf, LinesBefore
    <3>2. Plain(Body(p)) /\ Len(Body(p)) > 3 /\ Requires(Body(p))
      BY <2>6, SerialLines DEF Body
    <3>3. Laid(Body(p), LinesBefore(f), ThreadsOf(f), Child(f))
      BY <1>2, <3>1, <3>2, PlainLaid
    <3>. QED
      BY <2>6, <3>2, <3>3
  <2>. QED
    BY <2>4, <2>5, <2>6
<1>8. ~AtEnd(p) => stack[p].pc \in 1..Len(Body(p)) /\ Op(p) = Body(p)[stack[p].pc]
  BY <1>1, <1>2 DEF AtEnd, Op, Body
<1>. QED
  BY <1>1, <1>2, <1>3, <1>7, <1>8

\* What the line at which p stands has to do with its threads.
LEMMA LineLaid ==
  ASSUME Shapes, program \in Verifying, NEW p \in Procs, ~AtEnd(p)
  PROVE  LET a == LinesBefore(stack[p].fn)
             n == ThreadsOf(stack[p].fn)
         IN  /\ Op(p).op = "create" <=> stack[p].pc \in (a + 1)..(a + n)
             /\ Op(p).op = "create" => Op(p).fn = Child(stack[p].fn)
             /\ Op(p).op = "join" <=> stack[p].pc \in (a + n + 1)..(a + 2 * n)
             /\ Op(p).op = "join" => Op(p).index = stack[p].pc - (a + n)
<1>1. /\ Laid(Body(p), LinesBefore(stack[p].fn), ThreadsOf(stack[p].fn), Child(stack[p].fn))
      /\ stack[p].pc \in 1..Len(Body(p)) /\ Op(p) = Body(p)[stack[p].pc]
  BY BodyLaid
<1>. QED
  BY <1>1, Zenon DEF Laid

\* What another process does changes nothing in the family of q.
LEMMA HandlesStay ==
  ASSUME NEW q, Handles(q), UNCHANGED <<program, stack[q], checkpoint[q]>>,
         joined \subseteq joined', Born \subseteq Born', \A c \in Born : parent'[c] = parent[c]
  PROVE  Handles(q)'
<1>1. Body(q)' = Body(q)
  BY DEF Body
<1>2. \A f : LinesBefore(f)' = LinesBefore(f) /\ ThreadsOf(f)' = ThreadsOf(f)
  BY DEF LinesBefore, ThreadsOf, Nested
<1>. QED
  BY <1>1, <1>2 DEF Handles

LEMMA CreatorStays ==
  ASSUME NEW c \in Born, HasCreator(c), Born \subseteq Born', parent'[c] = parent[c],
         \A p \in Born : /\ stack'[p].fn = stack[p].fn
                         /\ \A i \in 1..Len(stack[p].threads) :
                              /\ i \in 1..Len(stack'[p].threads)
                              /\ stack'[p].threads[i] = stack[p].threads[i]
  PROVE  HasCreator(c)'
<1>1. \A f : Child(f)' = Child(f)
  BY DEF Child
<1>. QED
  BY <1>1 DEF HasCreator

LEMMA CallStays ==
  ASSUME NEW q, CallStands(q), Same(q), UNCHANGED program
  PROVE  CallStands(q)'
BY DEF Same, CallStands, AtEnd, Op

LEMMA LastJoinFixed ==
  ASSUME UNCHANGED program
  PROVE  \A f : LastJoin(f)' = LastJoin(f)
BY DEF LastJoin, LinesBefore, ThreadsOf, Nested

\* One line on.
LEMMA LinePassed ==
  ASSUME Shapes, program \in Verifying, NEW p \in Procs, ~AtEnd(p)
  PROVE  LET pc == stack[p].pc
             a == LinesBefore(stack[p].fn)
             n == ThreadsOf(stack[p].fn)
         IN  /\ pc + 1 <= Len(Body(p)) + 1
             /\ Op(p).op # "create" => Before(pc + 1, a, n) = Before(pc, a, n)
             /\ Op(p).op = "create" => /\ Before(pc + 1, a, n) = Before(pc, a, n) + 1
                                       /\ pc < a + n + 1
             /\ \A i \in 1..n : a + n + i < pc + 1 =>
                  a + n + i < pc \/ (Op(p).op = "join" /\ i = Op(p).index)
             /\ pc + 1 > LastJoin(stack[p].fn) /\ Op(p).op # "join" => pc > LastJoin(stack[p].fn)
<1> DEFINE pc == stack[p].pc
           a == LinesBefore(stack[p].fn)
           n == ThreadsOf(stack[p].fn)
<1>1. pc \in Nat \ {0} /\ a \in Nat /\ n \in Nat /\ pc \in 1..Len(Body(p)) /\ Len(Body(p)) \in Nat
  BY BodyLaid
<1>2. /\ Op(p).op = "create" <=> pc \in (a + 1)..(a + n)
      /\ Op(p).op = "join" <=> pc \in (a + n + 1)..(a + 2 * n)
      /\ Op(p).op = "join" => Op(p).index = pc - (a + n)
  BY LineLaid
<1>3. LastJoin(stack[p].fn) = IF n = 0 THEN 0 ELSE a + 2 * n
  BY DEF LastJoin
<1> HIDE DEF pc, a, n
<1>4. pc + 1 <= Len(Body(p)) + 1
  BY <1>1
<1>5. Op(p).op # "create" => Before(pc + 1, a, n) = Before(pc, a, n)
  BY <1>1, <1>2 DEF Before
<1>6. Op(p).op = "create" => Before(pc + 1, a, n) = Before(pc, a, n) + 1 /\ pc < a + n + 1
  BY <1>1, <1>2 DEF Before
<1>7. ASSUME NEW i \in 1..n, a + n + i < pc + 1
      PROVE  a + n + i < pc \/ (Op(p).op = "join" /\ i = Op(p).index)
  BY <1>1, <1>2, <1>7
<1>8. pc + 1 > LastJoin(stack[p].fn) /\ Op(p).op # "join" => pc > LastJoin(stack[p].fn)
  BY <1>1, <1>2, <1>3
<1>. QED
  BY <1>4, <1>5, <1>6, <1>7, <1>8, Zenon DEF pc, a, n

\* p goes on to the next line, and to a new checkpoint or not.
LEMMA HandlesAdvance ==
  ASSUME Shapes, program \in Verifying, NEW p \in Procs, Handles(p), ~AtEnd(p),
         Op(p).op # "create", Op(p).op = "join" => stack[p].threads[Op(p).index] \in joined',
         UNCHANGED program, stack'[p].fn = stack[p].fn, stack'[p].pc = stack[p].pc + 1,
         stack'[p].threads = stack[p].threads,
         checkpoint'[p] = checkpoint[p] \/ checkpoint'[p] = stack'[p],
         joined \subseteq joined', Born \subseteq Born', \A c \in Born : parent'[c] = parent[c]
  PROVE  Handles(p)'
<1>1. Body(p)' = Body(p)
  BY DEF Body
<1>2. \A f : LinesBefore(f)' = LinesBefore(f) /\ ThreadsOf(f)' = ThreadsOf(f)
  BY DEF LinesBefore, ThreadsOf, Nested
<1>3. stack[p].pc + 1 <= Len(Body(p)) + 1
  BY LinePassed
<1>4. Before(stack[p].pc + 1, LinesBefore(stack[p].fn), ThreadsOf(stack[p].fn)) =
        Before(stack[p].pc, LinesBefore(stack[p].fn), ThreadsOf(stack[p].fn))
  BY LinePassed
<1>5. checkpoint'[p].threads = stack'[p].threads
  BY DEF Handles
<1>6. \A i \in 1..ThreadsOf(stack[p].fn) :
        LinesBefore(stack[p].fn) + ThreadsOf(stack[p].fn) + i < stack[p].pc + 1 =>
          stack[p].threads[i] \in joined'
  BY LinePassed DEF Handles
<1>7. \A pc \in {stack'[p].pc, checkpoint'[p].pc} :
        Len(stack[p].threads) = Before(pc, LinesBefore(stack[p].fn), ThreadsOf(stack[p].fn))
  BY <1>4 DEF Handles
<1>. QED
  BY <1>1, <1>2, <1>3, <1>5, <1>6, <1>7 DEF Handles

\* p has created c.
LEMMA HandlesAppend ==
  ASSUME Shapes, program \in Verifying, NEW p \in Procs, Handles(p), ~AtEnd(p),
         Op(p).op = "create", NEW c \in Procs,
         UNCHANGED program, stack'[p].fn = stack[p].fn, stack'[p].pc = stack[p].pc + 1,
         stack'[p].threads = Append(stack[p].threads, c), checkpoint'[p] = stack'[p],
         c \in Born', c \notin Born, parent'[c] = p,
         joined \subseteq joined', Born \subseteq Born', \A d \in Born : parent'[d] = parent[d]
  PROVE  Handles(p)'
<1> DEFINE ts == stack[p].threads
           f == stack[p].fn
<1>1. Body(p)' = Body(p)
  BY DEF Body
<1>2. \A g : LinesBefore(g)' = LinesBefore(g) /\ ThreadsOf(g)' = ThreadsOf(g)
  BY DEF LinesBefore, ThreadsOf, Nested
<1>3. stack[p].pc + 1 <= Len(Body(p)) + 1
  BY LinePassed
<1>4. /\ Before(stack[p].pc + 1, LinesBefore(f), ThreadsOf(f)) =
           Before(stack[p].pc, LinesBefore(f), ThreadsOf(f)) + 1
      /\ stack[p].pc < LinesBefore(f) + ThreadsOf(f) + 1
  BY LinePassed
<1>5. /\ ts \in Seq(Procs) /\ stack[p].pc \in Nat
      /\ LinesBefore(f) \in Nat /\ ThreadsOf(f) \in Nat
  BY BodyLaid
<1>6. /\ Len(Append(ts, c)) = Len(ts) + 1 /\ Append(ts, c)[Len(ts) + 1] = c /\ Len(ts) \in Nat
      /\ \A i \in 1..Len(ts) : Append(ts, c)[i] = ts[i]
  BY <1>5
<1>7. /\ Len(ts) = Before(stack[p].pc, LinesBefore(f), ThreadsOf(f))
      /\ \A i \in 1..Len(ts) : ts[i] \in Born /\ parent[ts[i]] = p
      /\ \A i, j \in 1..Len(ts) : ts[i] = ts[j] => i = j
  BY DEF Handles
<1>8. PICK us : us = Append(ts, c)
  OBVIOUS
<1>9. /\ Len(us) = Len(ts) + 1 /\ us[Len(ts) + 1] = c /\ \A i \in 1..Len(ts) : us[i] = ts[i]
  BY <1>6, <1>8
<1>10. stack'[p].threads = us /\ stack'[p].fn = f
  BY <1>8
<1> HIDE DEF ts, f
<1>11. \A i \in 1..Len(us) : i \in 1..Len(ts) \/ i = Len(ts) + 1
  BY <1>6, <1>9
<1>12. \A i \in 1..Len(us) : us[i] \in Born' /\ parent'[us[i]] = p
  BY <1>7, <1>9, <1>11
<1>13. \A i, j \in 1..Len(us) : us[i] = us[j] => i = j
  BY <1>7, <1>9, <1>11
<1>14. \A i \in 1..ThreadsOf(f) : ~(LinesBefore(f) + ThreadsOf(f) + i < stack[p].pc + 1)
  BY <1>4, <1>5
<1>15. Len(us) = Before(stack[p].pc + 1, LinesBefore(f), ThreadsOf(f))
  BY <1>4, <1>7, <1>9
<1>. QED
  BY <1>1, <1>2, <1>3, <1>10, <1>12, <1>13, <1>14, <1>15 DEF Handles

\* A thread begins without threads of its own.
LEMMA HandlesBegin ==
  ASSUME Shapes', program' \in Verifying, NEW c \in Procs, NEW f, stack'[c] = Enter(f),
         checkpoint'[c] = stack'[c]
  PROVE  Handles(c)' /\ stack'[c].pc = 1 /\ stack'[c].fn = f
<1>1. stack'[c].pc = 1 /\ stack'[c].threads = <<>> /\ stack'[c].fn = f
  BY DEF Enter
<1>2. /\ Len(Body(c)') \in Nat
      /\ LinesBefore(f)' \in Nat /\ ThreadsOf(f)' \in Nat
  <2>1. /\ program' \in DOMAIN Code /\ f \in DOMAIN Code[program']
    BY <1>1, SystemAssumption DEF Shapes, Frames
  <2>2. Code[program'][f] \in Seq(Operations(DOMAIN Code[program']))
    BY <2>1, CodeIsOps
  <2>3. Len(Body(c)') \in Nat
    BY <1>1, <2>2 DEF Body
  <2>. QED
    BY <2>3, ProgramsAssumption DEF LinesBefore, ThreadsOf, Nested
<1>3. Before(1, LinesBefore(f)', ThreadsOf(f)') = 0
  BY <1>2 DEF Before
<1>4. \A i \in 1..ThreadsOf(f)' : ~(LinesBefore(f)' + ThreadsOf(f)' + i < 1)
  BY <1>2
<1>. QED
  BY <1>1, <1>2, <1>3, <1>4 DEF Handles

-----------------------------------------------------------------------------
(* Steps *)

\* No join is undone.
LEMMA JoinedGrows ==
  ASSUME Next
  PROVE  joined \subseteq joined'
<1>1. ASSUME NEW p \in Procs, ProgramStep(p) PROVE joined' = joined
  BY <1>1 DEF ProgramStep, LoadStep, StoreStep, SkipStep, RequireStep, MutexStep, Fault,
              G!Touch, G!threadVars, gvars
<1>2. ASSUME NEW p \in Procs, Calling(p) PROVE joined' = joined
  BY <1>2 DEF Calling, G!CallCreate, G!CallJoin, G!CallExit, G!WrappedMain, G!EndSection,
              G!threadVars
<1>3. ASSUME NEW p \in Procs, Library(p) PROVE joined \subseteq joined'
  BY <1>3 DEF Library, PredecessorExited, G!PredecessorExited, Commit, G!Commit, Rollback,
              G!Rollback, JoinReturns, G!JoinReturns, Exit, G!Exit, G!Leave, Fork, G!Fork,
              G!threadVars
<1>4. Terminated => joined' = joined
  BY DEF Terminated, vars, gvars
<1>. QED
  BY <1>1, <1>2, <1>3, <1>4 DEF Next

\* The families that a step leaves alone.
OthersStay(p) ==
  /\ UNCHANGED program /\ joined \subseteq joined' /\ Born \subseteq Born'
  /\ \A c \in Born : /\ parent'[c] = parent[c] /\ stack'[c].fn = stack[c].fn
                     /\ \A i \in 1..Len(stack[c].threads) :
                          /\ i \in 1..Len(stack'[c].threads)
                          /\ stack'[c].threads[i] = stack[c].threads[i]
  /\ \A q \in Born \ {p} : Same(q)

\* What a step of p leaves alone.
LEMMA FamiliesStay ==
  ASSUME Families, NEW p, OthersStay(p)
  PROVE  /\ \A c \in Born : HasCreator(c)'
         /\ \A q \in Born \ {p} : Handles(q)' /\ CallStands(q)'
         /\ \A q \in Born \ {p} : newer'[q] = newer[q] => AloneAtEnd(q)'
<1>1. \A c \in Born : HasCreator(c)'
  BY CreatorStays DEF Families, FamilyOf, OthersStay
<1>2. \A q \in Born \ {p} : Handles(q)' /\ CallStands(q)'
  BY HandlesStay, CallStays DEF Families, FamilyOf, OthersStay, Same
<1>3. \A q \in Born \ {p} : newer'[q] = newer[q] => AloneAtEnd(q)'
  <2>1. \A f : LastJoin(f)' = LastJoin(f)
    BY LastJoinFixed DEF OthersStay
  <2>. QED
    BY <2>1 DEF Families, FamilyOf, OthersStay, Same, AloneAtEnd
<1>. QED
  BY <1>1, <1>2, <1>3

\* The steps of a program inside its section.
LEMMA ProgramFamilies ==
  ASSUME Control, Threads, program \in Verifying, Families, NEW p \in Procs, ProgramStep(p)
  PROVE  Families'
<1>1. Shapes
  BY DEF Control
<1>2. /\ p \in Born /\ phase[p] = "running" /\ ~AtEnd(p)
      /\ UNCHANGED <<phase, call, parent, program, heap, newer, checkpoint>>
      /\ stack'[p].fn = stack[p].fn /\ stack'[p].pc = stack[p].pc + 1
      /\ stack'[p].threads = stack[p].threads
      /\ \A q \in Procs \ {p} :
           /\ stack'[q] = stack[q] /\ touched'[q] = touched[q] /\ copies'[q] = copies[q]
           /\ reads'[q] = reads[q] /\ writes'[q] = writes[q]
  BY <1>1, ProgramEffect
<1>3. Born' = Born
  BY <1>2 DEF Born
<1>4. OthersStay(p)
  <2>1. joined \subseteq joined'
    BY JoinedGrows DEF Next
  <2>. QED
    BY <1>2, <1>3, <2>1 DEF OthersStay, Same, Born
<1>5. Op(p).op \notin {"create", "join"}
  BY DEF ProgramStep, LoadStep, StoreStep, SkipStep, RequireStep, MutexStep, At
<1>6. Handles(p)'
  BY <1>1, <1>2, <1>4, <1>5, HandlesAdvance DEF Families, FamilyOf, OthersStay
<1>7. CallStands(p)'
  BY <1>2 DEF CallStands
<1>8. AloneAtEnd(p)'
  <2>1. stack[p].pc + 1 > LastJoin(stack[p].fn) => stack[p].pc > LastJoin(stack[p].fn)
    BY <1>1, <1>2, <1>5, LinePassed
  <2>2. \A f : LastJoin(f)' = LastJoin(f)
    BY <1>2, LastJoinFixed
  <2>. QED
    BY <1>2, <2>1, <2>2 DEF Families, FamilyOf, AloneAtEnd
<1>. QED
  BY <1>2, <1>3, <1>4, <1>6, <1>7, <1>8, FamiliesStay DEF Families, FamilyOf

\* What a process calls for when it ends its section.
LEMMA CallMade ==
  ASSUME Shapes, Threads, NEW p \in Procs \ {Root},
         Calling(p) \/ PredecessorExited(p) \/ Exit(p), CallStands(p)
  PROVE  CallStands(p)'
<1>1. UNCHANGED <<program, heapVars, programVars, touched, parent>>
  BY PhaseEffect
<1>2. UNCHANGED <<program, stack>>
  BY <1>1 DEF programVars
<1>3. AtEnd(p)' = AtEnd(p) /\ Op(p)' = Op(p)
  BY <1>2 DEF AtEnd, Op
<1>4. ASSUME NEW what, G!EndSection(p, what)
      PROVE  call'[p] = what /\ phase'[p] # "exited"
  BY <1>4 DEF G!EndSection, G!Goto, Threads
<1>5. CASE Calling(p)
  <2>1. CASE G!CallCreate(p)
    <3>1. PICK n : G!EndSection(p, [op |-> "create", slot |-> n])
      BY <2>1 DEF G!CallCreate
    <3>. QED
      BY <1>4, <3>1 DEF CallStands
  <2>2. CASE \E t \in Procs : Joins(p, t) /\ G!CallJoin(p, t)
    <3>1. PICK t \in Procs : Joins(p, t) /\ G!EndSection(p, [op |-> "join", thread |-> t])
      BY <2>2 DEF G!CallJoin
    <3>. QED
      BY <1>2, <1>3, <1>4, <3>1 DEF CallStands, Joins
  <2>3. CASE AtEnd(p) /\ G!CallExit(p)
    <3>1. G!EndSection(p, [op |-> "exit"])
      BY <2>3 DEF G!CallExit
    <3>. QED
      BY <1>3, <1>4, <2>3, <3>1 DEF CallStands
  <2>. QED
    BY <1>5, <2>1, <2>2, <2>3 DEF Calling
<1>6. CASE PredecessorExited(p)
  <2>1. phase[p] = "waiting" /\ phase'[p] = "validating" /\ call' = call
    BY <1>6 DEF PredecessorExited, G!PredecessorExited, G!Goto, Threads
  <2>. QED
    BY <1>2, <1>3, <2>1 DEF CallStands
<1>7. CASE Exit(p)
  <2>1. phase[p] = "ended" /\ call[p].op = "exit" /\ phase'[p] = "exited"
    BY <1>7 DEF Exit, G!Exit, G!Leave, G!Goto, Threads
  <2>. QED
    BY <1>3, <2>1 DEF CallStands
<1>. QED
  BY <1>5, <1>6, <1>7

LEMMA PhaseFamilies ==
  ASSUME Control, Threads, program \in Verifying, Families, NEW p \in Procs,
         Calling(p) \/ PredecessorExited(p) \/ Exit(p)
  PROVE  Families'
<1>1. Shapes
  BY DEF Control
<1>2. /\ UNCHANGED <<program, heapVars, programVars, touched, parent>>
      /\ \A q \in Procs \ {p} : Same(q)
      /\ \/ phase[p] = "running" /\ phase'[p] = IF touched[p] THEN "waiting" ELSE "ended"
         \/ phase[p] = "waiting" /\ phase'[p] = "validating"
         \/ phase[p] = "ended" /\ phase'[p] = "exited"
  BY <1>1, PhaseEffect
<1>3. UNCHANGED <<stack, checkpoint, newer>>
  BY <1>2 DEF heapVars, programVars
<1>4. Born' = Born
  BY <1>2 DEF Born, Same
<1>5. OthersStay(p)
  <2>1. joined \subseteq joined'
    BY JoinedGrows DEF Next, Library
  <2>. QED
    BY <1>2, <1>3, <1>4, <2>1 DEF OthersStay, Born
<1>6. ASSUME p \in Born PROVE Handles(p)' /\ CallStands(p)' /\ AloneAtEnd(p)'
  <2>1. Handles(p)'
    BY <1>3, <1>5, <1>6, HandlesStay DEF OthersStay, Families, FamilyOf
  <2>2. CallStands(p)'
    BY <1>1, <1>6, CallMade DEF Families, FamilyOf, Born
  <2>3. AloneAtEnd(p)'
    <3>1. \A f : LastJoin(f)' = LastJoin(f)
      BY <1>2, LastJoinFixed
    <3>2. phase'[p] \in G!Open => phase[p] \in G!Open
      BY <1>2 DEF G!Open
    <3>. QED
      BY <1>3, <1>6, <3>1, <3>2 DEF Families, FamilyOf, AloneAtEnd
  <2>. QED
    BY <2>1, <2>2, <2>3
<1>. QED
  BY <1>3, <1>4, <1>5, <1>6, FamiliesStay DEF Families, FamilyOf

-----------------------------------------------------------------------------
(* After the last pthread_join *)

JoinedExited == \A t \in joined : phase[t] = "exited"

\* A thread that is behind its last pthread_join has created all its threads,
\* and they have exited.
LEMMA AllJoined ==
  ASSUME Shapes, program \in Verifying, JoinedExited, NEW p \in Procs, Handles(p),
         stack[p].pc > LastJoin(stack[p].fn)
  PROVE  /\ Len(stack[p].threads) = ThreadsOf(stack[p].fn)
         /\ \A i \in 1..Len(stack[p].threads) : phase[stack[p].threads[i]] = "exited"
<1> DEFINE a == LinesBefore(stack[p].fn)
           n == ThreadsOf(stack[p].fn)
<1>1. stack[p].pc \in Nat \ {0} /\ a \in Nat /\ n \in Nat
  BY BodyLaid
<1>2. n > 0 => stack[p].pc > a + 2 * n
  BY <1>1 DEF LastJoin
<1>3. /\ Len(stack[p].threads) = Before(stack[p].pc, a, n)
      /\ \A i \in 1..n : a + n + i < stack[p].pc => stack[p].threads[i] \in joined
  BY DEF Handles
<1> HIDE DEF a, n
<1>4. Len(stack[p].threads) = n
  BY <1>1, <1>2, <1>3 DEF Before
<1>5. \A i \in 1..n : stack[p].threads[i] \in joined
  BY <1>1, <1>2, <1>3
<1>. QED
  BY <1>4, <1>5 DEF JoinedExited, n

\* So has one that has exited.
LEMMA ExitedJoined ==
  ASSUME Shapes, program \in Verifying, NEW p \in Procs, AtEnd(p), LastJoin(stack[p].fn) = 0
           \/ LastJoin(stack[p].fn) = LinesBefore(stack[p].fn) + 2 * ThreadsOf(stack[p].fn)
  PROVE  stack[p].pc > LastJoin(stack[p].fn)
<1>1. /\ stack[p].pc \in Nat \ {0} /\ Len(Body(p)) \in Nat
      /\ LinesBefore(stack[p].fn) + 2 * ThreadsOf(stack[p].fn) <= Len(Body(p))
  BY BodyLaid DEF Laid
<1>2. LinesBefore(stack[p].fn) \in Nat /\ ThreadsOf(stack[p].fn) \in Nat
  BY BodyLaid
<1>. QED
  BY <1>1, <1>2 DEF AtEnd, Body

\* The threads of a program in Verifying: main, its threads, and theirs.
LEMMA Descent ==
  ASSUME Control, program \in Verifying, Families,
         NEW p \in Born, stack[p].fn = "main", NEW q \in Born \ {p}
  PROVE  /\ stack[q].fn # "main"
         /\ \/ /\ parent[q] = p /\ stack[q].fn = "fn1"
               /\ \E i \in 1..Len(stack[p].threads) : stack[p].threads[i] = q
            \/ \E r \in Born \ {p} :
                 /\ parent[r] = p /\ stack[r].fn = "fn1" /\ parent[q] = r
                 /\ \E i \in 1..Len(stack[p].threads) : stack[p].threads[i] = r
                 /\ \E i \in 1..Len(stack[r].threads) : stack[r].threads[i] = q
<1>1. Shapes /\ \A r \in Born \ {p} : stack[r].fn # "main"
  BY DEF Control, MainFirst
<1>2. \A r \in Born \ {p} : \E s \in Born :
        /\ parent[r] = s /\ stack[r].fn = Child(stack[s].fn)
        /\ \E i \in 1..Len(stack[s].threads) : stack[s].threads[i] = r
  BY <1>1 DEF Families, FamilyOf, HasCreator
<1>3. \A s \in Born : ThreadsOf(stack[s].fn) = 0 => Len(stack[s].threads) = 0
  <2> TAKE s \in Born
  <2>1. Handles(s) /\ s \in Procs
    BY DEF Families, FamilyOf, Born
  <2>2. LinesBefore(stack[s].fn) \in Nat /\ stack[s].pc \in Nat
    BY <1>1, <2>1, BodyLaid
  <2>. QED
    BY <2>1, <2>2 DEF Handles, Before
<1>4. PICK s \in Born : /\ parent[q] = s /\ stack[q].fn = Child(stack[s].fn)
                        /\ \E i \in 1..Len(stack[s].threads) : stack[s].threads[i] = q
  BY <1>2
<1>5. CASE s = p
  BY <1>1, <1>4, <1>5 DEF Child
<1>6. CASE s # p
  <2>1. PICK t \in Born : /\ parent[s] = t /\ stack[s].fn = Child(stack[t].fn)
                          /\ \E i \in 1..Len(stack[t].threads) : stack[t].threads[i] = s
    BY <1>2, <1>6
  <2>2. stack[s].fn = "fn1"
    <3>1. stack[s].fn = "fn2" => ThreadsOf(stack[s].fn) = 0
      BY DEF ThreadsOf
    <3>2. Len(stack[s].threads) # 0
      BY <1>4
    <3>. QED
      BY <1>3, <2>1, <3>1, <3>2 DEF Child
  <2>3. t = p
    <3>1. stack[t].fn = "main"
      BY <2>1, <2>2 DEF Child
    <3>. QED
      BY <1>1, <3>1
  <2>. QED
    BY <1>1, <1>4, <1>6, <2>1, <2>2, <2>3
<1>. QED
  BY <1>5, <1>6

\* When main is behind its last pthread_join, all other threads have exited,
\* their threads too.
LEMMA OthersDone ==
  ASSUME Control, program \in Verifying, Families, JoinedExited,
         NEW p \in Born, stack[p].fn = "main", stack[p].pc > LastJoin("main")
  PROVE  /\ \A q \in Born \ {p} : phase[q] = "exited"
         /\ \A q \in Born : Len(stack[q].threads) = ThreadsOf(stack[q].fn)
<1>1. Shapes /\ \A q \in Born : q \in Procs /\ Handles(q) /\ CallStands(q)
  BY DEF Control, Families, FamilyOf, Born
<1>2. /\ Len(stack[p].threads) = ThreadsOf(stack[p].fn)
      /\ \A i \in 1..Len(stack[p].threads) : phase[stack[p].threads[i]] = "exited"
  BY <1>1, AllJoined
<1>3. ASSUME NEW q \in Born, phase[q] = "exited"
      PROVE  /\ Len(stack[q].threads) = ThreadsOf(stack[q].fn)
             /\ \A i \in 1..Len(stack[q].threads) : phase[stack[q].threads[i]] = "exited"
  <2>1. AtEnd(q)
    BY <1>1, <1>3 DEF CallStands
  <2>2. stack[q].pc > LastJoin(stack[q].fn)
    BY <1>1, <2>1, ExitedJoined DEF LastJoin
  <2>. QED
    BY <1>1, <2>2, AllJoined
<1>4. \A q \in Born \ {p} : phase[q] = "exited"
  <2> TAKE q \in Born \ {p}
  <2>1. CASE \E i \in 1..Len(stack[p].threads) : stack[p].threads[i] = q
    BY <1>2, <2>1
  <2>2. CASE \E r \in Born \ {p} :
               /\ \E i \in 1..Len(stack[p].threads) : stack[p].threads[i] = r
               /\ \E i \in 1..Len(stack[r].threads) : stack[r].threads[i] = q
    <3>1. PICK r \in Born : /\ phase[r] = "exited"
                            /\ \E i \in 1..Len(stack[r].threads) : stack[r].threads[i] = q
      BY <1>2, <2>2
    <3>. QED
      BY <1>3, <3>1
  <2>. QED
    BY <2>1, <2>2, Descent
<1>. QED
  BY <1>2, <1>3, <1>4

\* A commit makes pages newer for others: not for a main that has joined all.
LEMMA CommitFamilies ==
  ASSUME Control, Threads, program \in Verifying, Families, JoinedExited,
         NEW p \in Procs, Commit(p)
  PROVE  Families'
<1>1. Shapes
  BY DEF Control
<1>2. /\ UNCHANGED <<program, programVars, touched, parent, call, reads, writes, copies>>
      /\ \A q \in Procs \ {p} : Same(q)
      /\ phase[p] = "validating" /\ phase'[p] = "ended"
      /\ \A q \in Procs \ {p} : newer'[q] = newer[q] \cup writes[p]
  BY <1>1, CommitEffect
<1>3. UNCHANGED <<stack, checkpoint>>
  BY <1>2 DEF programVars
<1>4. p \in Born /\ Born' = Born
  BY <1>2 DEF Control, RootAlone, Born, Same
<1>5. OthersStay(p)
  <2>1. joined \subseteq joined'
    BY JoinedGrows DEF Next, Library
  <2>. QED
    BY <1>2, <1>3, <1>4, <2>1 DEF OthersStay, Born
<1>6. Handles(p)'
  BY <1>3, <1>4, <1>5, HandlesStay DEF OthersStay, Families, FamilyOf
<1>7. CallStands(p)'
  <2>1. AtEnd(p)' = AtEnd(p) /\ Op(p)' = Op(p)
    BY <1>2, <1>3 DEF AtEnd, Op
  <2>. QED
    BY <1>2, <1>3, <1>4, <2>1 DEF Families, FamilyOf, CallStands
<1>8. AloneAtEnd(p)'
  BY <1>2 DEF AloneAtEnd, G!Open
<1>9. \A q \in Born \ {p} : AloneAtEnd(q)'
  <2> TAKE q \in Born \ {p}
  <2>1. ~(stack[q].fn = "main" /\ stack[q].pc > LastJoin("main"))
    BY <1>2, <1>4, OthersDone
  <2>2. LastJoin("main")' = LastJoin("main")
    BY <1>2, LastJoinFixed
  <2>. QED
    BY <1>3, <2>1, <2>2 DEF AloneAtEnd
<1>. QED
  BY <1>4, <1>5, <1>6, <1>7, <1>8, <1>9, FamiliesStay DEF Families, FamilyOf

\* A rollback restores a stack with the same handles; a join returns.
LEMMA ResumeFamilies ==
  ASSUME Control, Threads, program \in Verifying, Families, NEW p \in Procs,
         Rollback(p) \/ JoinReturns(p)
  PROVE  Families'
<1>1. Shapes
  BY DEF Control
<1>2. /\ Begins({p}) /\ UNCHANGED parent /\ phase[p] \in {"validating", "ended"}
      /\ \/ stack'[p] = checkpoint[p]
         \/ /\ stack'[p].fn = stack[p].fn /\ stack'[p].pc = stack[p].pc + 1
            /\ stack'[p].threads = stack[p].threads
  BY <1>1, RollbackEffect, JoinEffect
<1>3. /\ UNCHANGED <<program, heap>> /\ Shapes'
      /\ phase'[p] = "running" /\ newer'[p] = {} /\ checkpoint'[p] = stack'[p]
      /\ \A q \in Procs \ {p} : Same(q) /\ newer'[q] = newer[q]
  BY <1>2 DEF Begins
<1>4. Born' = Born
  BY <1>2, <1>3 DEF Born, Same
<1>j. joined \subseteq joined'
  BY JoinedGrows DEF Next, Library
<1>5. OthersStay(p)
  <2>1. p \in Born => checkpoint[p].fn = stack[p].fn /\ checkpoint[p].threads = stack[p].threads
    BY DEF Control, SectionRunsOn, Families, FamilyOf, Handles
  <2>2. \A c \in Born : stack'[c].fn = stack[c].fn /\ stack'[c].threads = stack[c].threads
    BY <1>2, <1>3, <2>1 DEF Same, Born
  <2>. QED
    BY <1>2, <1>3, <1>4, <1>j, <2>2 DEF OthersStay, Born
<1>6. ASSUME p \in Born PROVE Handles(p)'
  <2>0. Handles(p) /\ CallStands(p) /\ SectionRunsOn(p)
    BY <1>6 DEF Control, Families, FamilyOf
  <2>1. CASE Rollback(p)
    <3>1. stack'[p] = checkpoint[p]
      BY <1>1, <2>1, RollbackEffect
    <3>2. checkpoint[p].fn = stack[p].fn /\ checkpoint[p].pc <= stack[p].pc
      BY <2>0 DEF SectionRunsOn
    <3>3. Body(p)' = Body(p) /\ \A f : LinesBefore(f)' = LinesBefore(f) /\ ThreadsOf(f)' = ThreadsOf(f)
      BY <1>3, <3>1, <3>2 DEF Body, LinesBefore, ThreadsOf, Nested
    <3>4. /\ checkpoint[p].pc \in Nat /\ stack[p].pc \in Nat /\ Len(Body(p)) \in Nat
          /\ LinesBefore(stack[p].fn) \in Nat /\ ThreadsOf(stack[p].fn) \in Nat
      BY <1>1, BodyLaid
    <3>5. /\ checkpoint[p].pc <= Len(Body(p)) + 1
          /\ \A i \in 1..ThreadsOf(stack[p].fn) :
               LinesBefore(stack[p].fn) + ThreadsOf(stack[p].fn) + i < checkpoint[p].pc =>
                 stack[p].threads[i] \in joined
      BY <2>0, <3>2, <3>4 DEF Handles
    <3>. QED
      BY <1>3, <1>4, <1>j, <1>2, <2>0, <3>1, <3>2, <3>3, <3>5 DEF Handles
  <2>2. CASE JoinReturns(p)
    <3>1. /\ phase[p] = "ended" /\ call[p].op = "join"
          /\ stack'[p].fn = stack[p].fn /\ stack'[p].pc = stack[p].pc + 1
          /\ stack'[p].threads = stack[p].threads
      BY <1>1, <2>2, JoinEffect
    <3>2. ~AtEnd(p) /\ Op(p).op = "join"
      BY <2>0, <3>1 DEF SectionRunsOn
    <3>3. call[p].thread = stack[p].threads[Op(p).index]
      BY <2>0, <3>1 DEF CallStands
    <3>4. call[p].thread \in joined'
      BY <2>2 DEF JoinReturns, G!JoinReturns
    <3>. QED
      BY <1>1, <1>2, <1>3, <1>4, <1>j, <2>0, <3>1, <3>2, <3>3, <3>4, HandlesAdvance
  <2>. QED
    BY <2>1, <2>2
<1>7. CallStands(p)'
  BY <1>3 DEF CallStands
<1>8. AloneAtEnd(p)'
  BY <1>3 DEF AloneAtEnd
<1>. QED
  BY <1>3, <1>4, <1>5, <1>6, <1>7, <1>8, FamiliesStay DEF Families, FamilyOf, Born

\* pthread_create, in the process that calls it and in the new one.
LEMMA ForkFamilies ==
  ASSUME Control, Threads, program \in Verifying, Families,
         NEW p \in Procs, NEW c \in Procs, Fork(p, c)
  PROVE  Families'
<1>1. Shapes
  BY DEF Control
<1>p. phase[p] = "ended" /\ call[p].op = "create"
  BY DEF Fork, G!Fork
<1>2. p # Root => ~AtEnd(p) /\ Op(p).op = "create" /\ p \in Born
  BY <1>p DEF Control, SectionRunsOn, Born
<1>3. /\ c # p /\ Begins({p, c}) /\ phase[c] = "unborn"
      /\ parent' = [parent EXCEPT ![c] = p]
      /\ stack'[p].fn = stack[p].fn /\ stack'[p].pc = stack[p].pc + 1
      /\ stack'[p].threads = Append(stack[p].threads, c)
      /\ stack'[c] = Enter(IF p = Root THEN "main" ELSE Op(p).fn)
  BY <1>1, <1>2, ForkEffect
<1>4. /\ UNCHANGED <<program, heap>> /\ Shapes'
      /\ \A q \in {p, c} : /\ phase'[q] = "running" /\ newer'[q] = {}
                           /\ checkpoint'[q] = stack'[q]
      /\ \A q \in Procs \ {p, c} : Same(q) /\ newer'[q] = newer[q]
  BY <1>3 DEF Begins
<1>5. c # Root /\ Born' = Born \cup {c} /\ c \notin Born
  BY <1>p, <1>3, <1>4 DEF Control, RootAlone, Born, Same
<1>6. p = Root => Born = {}
  BY <1>p DEF Control, RootAlone
<1>j. joined \subseteq joined'
  BY JoinedGrows DEF Next, Library
<1>q. parent'[c] = p /\ \A d \in Born : parent'[d] = parent[d]
  BY <1>3, <1>5 DEF Threads, Born
<1>a. /\ Len(stack'[p].threads) = Len(stack[p].threads) + 1 /\ Len(stack[p].threads) \in Nat
      /\ stack'[p].threads[Len(stack[p].threads) + 1] = c
      /\ \A i \in 1..Len(stack[p].threads) : stack'[p].threads[i] = stack[p].threads[i]
  <2>1. stack[p].threads \in Seq(Procs)
    BY <1>1, BodyLaid
  <2>. QED
    BY <1>3, <2>1
<1>7. OthersStay(p)
  <2>1. \A d \in Born : /\ stack'[d].fn = stack[d].fn
                        /\ \A i \in 1..Len(stack[d].threads) :
                             /\ i \in 1..Len(stack'[d].threads)
                             /\ stack'[d].threads[i] = stack[d].threads[i]
    <3> TAKE d \in Born
    <3>1. CASE d = p
      BY <1>3, <1>a, <3>1
    <3>2. CASE d # p
      <4>1. stack'[d] = stack[d]
        BY <1>4, <1>5, <3>2 DEF Same, Born
      <4>. QED
        BY <4>1
    <3>. QED
      BY <3>1, <3>2
  <2>2. \A q \in Born \ {p} : Same(q)
    BY <1>4, <1>5 DEF Born
  <2>. QED
    BY <1>4, <1>5, <1>j, <1>q, <2>1, <2>2 DEF OthersStay
<1>8. p # Root => Handles(p)'
  BY <1>1, <1>2, <1>3, <1>4, <1>5, <1>j, <1>q, HandlesAppend DEF Families, FamilyOf
<1>9. Handles(c)'
  BY <1>3, <1>4, HandlesBegin
<1>10. \A q \in {p, c} : CallStands(q)' /\ AloneAtEnd(q)'
  BY <1>4 DEF CallStands, AloneAtEnd
<1>11. HasCreator(c)'
  <2>1. CASE p = Root
    <3>1. stack'[c].fn = "main"
      BY <1>3, <2>1 DEF Enter
    <3>. QED
      BY <1>q, <2>1, <3>1 DEF HasCreator
  <2>2. CASE p # Root
    <3>1. stack'[c].fn = Child(stack[p].fn)
      BY <1>1, <1>2, <1>3, <2>2, LineLaid DEF Enter
    <3>2. \A f : Child(f)' = Child(f)
      BY <1>3 DEF Child
    <3>3. \A f : f = stack[p].fn => stack'[c].fn = Child(f)' /\ stack'[p].fn = f
      BY <1>3, <3>1, <3>2
    <3>4. \E i \in 1..Len(stack'[p].threads) : stack'[p].threads[i] = c
      BY <1>a
    <3>5. p \in Born' /\ parent'[c] = p
      BY <1>2, <1>5, <1>q, <2>2 DEF Born
    <3>. QED
      BY <2>2, <3>3, <3>4, <3>5 DEF HasCreator
  <2>. QED
    BY <2>1, <2>2
<1>12. \A q \in Born \ {p} : AloneAtEnd(q)'
  BY <1>4, <1>5, <1>7, FamiliesStay DEF Born
<1>. QED
  BY <1>2, <1>5, <1>7, <1>8, <1>9, <1>10, <1>11, <1>12, FamiliesStay DEF Families, FamilyOf, Born

\* Families is kept by every step.
LEMMA NextFamilies ==
  ASSUME Control, Threads, JoinedExited, program \in Verifying, Families, [Next]_vars
  PROVE  Families'
<1>1. CASE UNCHANGED vars
  <2>1. UNCHANGED <<program, joined, parent, stack, newer>> /\ \A q \in Procs : Same(q)
    BY <1>1 DEF vars, gvars, heapVars, programVars, Same
  <2>2. Born' = Born /\ Root \notin Born
    BY <2>1 DEF Born, Same
  <2>3. OthersStay(Root)
    BY <2>1, <2>2 DEF OthersStay, Born
  <2>. QED
    BY <2>1, <2>2, <2>3, FamiliesStay DEF Families, FamilyOf
<1>. QED
  BY <1>1, ProgramFamilies, PhaseFamilies, CommitFamilies, ResumeFamilies, ForkFamilies
     DEF Next, Library, Terminated

\* A theorem about GThread: only a thread that has exited is joined.
LEMMA JoinedKnown == Spec => []JoinedExited
<1>1. GP!JoinedThreadsExited => JoinedExited
  BY DEF GP!JoinedThreadsExited, JoinedExited
<1>2. GP!Spec => []GP!JoinedThreadsExited
  BY ThreadsAssumption, GP!JoinsCorrect
<1>. QED
  BY <1>1, <1>2, StepsOfGThread, SameSpec, PTL

\* A thread that has come to the end of its function has incremented every
\* counter, main none.
LEMMA CountedLines ==
  ASSUME Control, program \in Verifying, Families, NEW q \in Born, NEW o \in Counters
  PROVE  /\ stack[q].fn # "main" /\ phase[q] = "exited" => \E k : Counted(q, o) = {k}
         /\ stack[q].fn = "main" /\ program # "serial" => Counted(q, o) = {}
<1>1. /\ Shapes /\ q \in Procs /\ Handles(q) /\ CallStands(q)
      /\ stack[q].pc \in Nat \ {0} /\ checkpoint[q].pc \in Nat \ {0}
      /\ Len(Body(q)) \in Nat /\ checkpoint[q].pc <= stack[q].pc
      /\ stack[q].pc <= Len(Body(q)) + 1
      /\ stack[q].fn # "main" => ThreadBody(Body(q))
  BY BodyLaid DEF Control, SectionRunsOn, Families, FamilyOf, Handles, Born
<1>2. Committed(q) \subseteq 1..Len(Body(q))
  BY <1>1 DEF Committed
<1>3. ASSUME stack[q].fn # "main", phase[q] = "exited" PROVE \E k : Counted(q, o) = {k}
  <2>1. Committed(q) = 1..Len(Body(q))
    <3>1. stack[q].pc > Len(Body(q))
      BY <1>1, <1>3 DEF CallStands, AtEnd, Body
    <3>. QED
      BY <1>1, <1>3, <3>1 DEF Committed, G!Open
  <2>2. PICK k \in 1..Len(Body(q)) :
          \A i \in 1..Len(Body(q)) : Body(q)[i] = Increment(o) <=> i = k
    BY <1>1, <1>3 DEF ThreadBody, IncrementsOnce
  <2>3. Counted(q, o) = {k}
    BY <2>1, <2>2 DEF Counted
  <2>. QED
    BY <2>3
<1>4. ASSUME stack[q].fn = "main", program # "serial" PROVE Counted(q, o) = {}
  <2>1. \A i \in 1..Len(Body(q)) : Body(q)[i].op # "increment"
    BY <1>4, MainLines DEF Body
  <2>2. Increment(o).op = "increment"
    BY DEF Increment
  <2>. QED
    BY <1>2, <2>1, <2>2 DEF Counted
<1>. QED
  BY <1>3, <1>4

\* Behind main's last pthread_join every thread has counted, itself and each of
\* its threads, once.
LEMMA AllCounted ==
  ASSUME Control, program \in Verifying, program # "serial", Families, JoinedExited,
         NEW p \in Born, stack[p].fn = "main", stack[p].pc > LastJoin("main"),
         NEW o \in Counters
  PROVE  Cardinality(Applied(o)) = ThreadNum * (Nested + 1)
<1> DEFINE S == (1..ThreadNum) \X (0..Nested)
           thread(i, j) == IF j = 0 THEN stack[p].threads[i]
                           ELSE stack[stack[p].threads[i]].threads[j]
           line(q) == CHOOSE k : Counted(q, o) = {k}
           f == [x \in S |-> <<thread(x[1], x[2]), line(thread(x[1], x[2]))>>]
<1>1. ThreadNum \in Nat \ {0} /\ Nested \in Nat
  BY ProgramsAssumption DEF Nested
<1>2. /\ \A q \in Born \ {p} : phase[q] = "exited" /\ stack[q].fn # "main"
      /\ \A q \in Born : Len(stack[q].threads) = ThreadsOf(stack[q].fn) /\ Handles(q)
  BY OthersDone, Descent DEF Families, FamilyOf
<1>3. ThreadsOf("main") = ThreadNum /\ ThreadsOf("fn1") = Nested
  BY DEF ThreadsOf
<1>4. \A q \in Born \ {p} : \E k : Counted(q, o) = {k}
  BY <1>2, CountedLines
<1>5. Counted(p, o) = {}
  BY CountedLines
<1>6. parent[p] \notin Born
  BY DEF Families, FamilyOf, HasCreator, Child, Born
<1>7. ASSUME NEW i \in 1..ThreadNum
      PROVE  /\ thread(i, 0) \in Born \ {p} /\ parent[thread(i, 0)] = p
             /\ stack[thread(i, 0)].fn = "fn1"
  <2>1. thread(i, 0) \in Born /\ parent[thread(i, 0)] = p
    BY <1>2, <1>3 DEF Handles
  <2>2. thread(i, 0) # p
    BY <1>6, <2>1
  <2>. QED
    BY <2>1, <2>2, Descent
<1>8. ASSUME NEW i \in 1..ThreadNum, NEW j \in 0..Nested, j # 0
      PROVE  thread(i, j) \in Born \ {p} /\ parent[thread(i, j)] = thread(i, 0)
  <2>1. thread(i, 0) \in Born /\ stack[thread(i, 0)].fn = "fn1"
    BY <1>7
  <2>2. j \in 1..Len(stack[thread(i, 0)].threads)
    BY <1>1, <1>2, <1>3, <1>8, <2>1
  <2>3. Handles(thread(i, 0))
    BY <1>2, <2>1
  <2>4. thread(i, j) = stack[thread(i, 0)].threads[j]
    BY <1>8
  <2>5. thread(i, j) \in Born /\ parent[thread(i, j)] = thread(i, 0)
    BY <2>2, <2>3, <2>4 DEF Handles
  <2>. QED
    BY <1>6, <2>1, <2>5
<1>9. /\ \A i, k \in 1..ThreadNum : thread(i, 0) = thread(k, 0) => i = k
      /\ \A i \in 1..ThreadNum, j, l \in 1..Nested : thread(i, j) = thread(i, l) => j = l
  <2>1. \A i, k \in 1..ThreadNum : thread(i, 0) = thread(k, 0) => i = k
    BY <1>2, <1>3 DEF Handles
  <2>2. ASSUME NEW i \in 1..ThreadNum, NEW j \in 1..Nested, NEW l \in 1..Nested,
               thread(i, j) = thread(i, l)
        PROVE  j = l
    <3>1. PICK q : q = thread(i, 0)
      OBVIOUS
    <3>2. q \in Born /\ stack[q].fn = "fn1" /\ Handles(q) /\ Len(stack[q].threads) = Nested
      BY <1>2, <1>3, <1>7, <3>1
    <3>3. stack[q].threads[j] = stack[q].threads[l]
      BY <2>2, <3>1
    <3>. QED
      BY <3>2, <3>3 DEF Handles
  <2>. QED
    BY <2>1, <2>2
<1>10. ASSUME NEW q \in Born \ {p}
       PROVE  \E i \in 1..ThreadNum, j \in 0..Nested : q = thread(i, j)
  <2>1. CASE \E i \in 1..Len(stack[p].threads) : stack[p].threads[i] = q
    BY <1>1, <1>2, <1>3, <2>1
  <2>2. CASE \E r \in Born \ {p} :
               /\ stack[r].fn = "fn1"
               /\ \E i \in 1..Len(stack[p].threads) : stack[p].threads[i] = r
               /\ \E i \in 1..Len(stack[r].threads) : stack[r].threads[i] = q
    <3>1. PICK r \in Born :
            /\ stack[r].fn = "fn1"
            /\ \E i \in 1..Len(stack[p].threads) : stack[p].threads[i] = r
            /\ \E i \in 1..Len(stack[r].threads) : stack[r].threads[i] = q
      BY <2>2
    <3>2. PICK i \in 1..ThreadNum : r = stack[p].threads[i]
      BY <1>2, <1>3, <3>1
    <3>3. PICK j \in 1..Nested : q = stack[r].threads[j]
      BY <1>2, <1>3, <3>1
    <3>4. q = thread(i, j) /\ j \in 0..Nested
      BY <1>1, <3>2, <3>3
    <3>. QED
      BY <3>4
  <2>. QED
    BY <2>1, <2>2, Descent
<1>11. \A i \in 1..ThreadNum, j \in 0..Nested : thread(i, j) \in Born \ {p}
  BY <1>7, <1>8
<1> HIDE DEF thread
<1>t. ASSUME NEW i \in 1..ThreadNum, NEW j \in 0..Nested,
             NEW k \in 1..ThreadNum, NEW l \in 0..Nested, thread(i, j) = thread(k, l)
      PROVE  i = k /\ j = l
  <2>1. /\ thread(i, 0) # p /\ parent[thread(i, 0)] = p
        /\ thread(k, 0) # p /\ parent[thread(k, 0)] = p
    BY <1>7
  <2>2. /\ j # 0 => parent[thread(i, j)] = thread(i, 0)
        /\ l # 0 => parent[thread(k, l)] = thread(k, 0)
    BY <1>8
  <2>3. (j = 0 <=> l = 0) /\ thread(i, 0) = thread(k, 0)
    BY <1>t, <2>1, <2>2
  <2>4. i = k
    BY <1>9, <2>3
  <2>5. j # 0 => j \in 1..Nested /\ l \in 1..Nested
    BY <1>1, <2>3
  <2>. QED
    BY <1>9, <1>t, <2>3, <2>4, <2>5
<1>12. \A q \in Born \ {p} : Counted(q, o) = {line(q)}
  BY <1>4
<1> HIDE DEF line
<1>13. ASSUME NEW t
       PROVE  t \in Applied(o) <=> \E q \in Born \ {p} : t = <<q, line(q)>>
  BY <1>5, <1>12 DEF Applied
<1>14. f \in [S -> Applied(o)]
  <2>1. \A x \in S : f[x] \in Applied(o)
    BY <1>11, <1>13
  <2>. QED
    BY <2>1
<1>15. \A x, y \in S : f[x] = f[y] => x = y
  BY <1>t
<1>16. \A t \in Applied(o) : \E x \in S : f[x] = t
  <2> TAKE t \in Applied(o)
  <2>1. PICK q \in Born \ {p} : t = <<q, line(q)>>
    BY <1>13
  <2>2. PICK i \in 1..ThreadNum, j \in 0..Nested : q = thread(i, j)
    BY <1>10
  <2>3. <<i, j>> \in S /\ f[<<i, j>>] = t
    BY <2>1, <2>2
  <2>. QED
    BY <2>3
<1>17. IsFiniteSet(S) /\ Cardinality(S) = ThreadNum * (Nested + 1)
  <2>1. IsFiniteSet(1..ThreadNum) /\ Cardinality(1..ThreadNum) = ThreadNum
    BY <1>1, FS_Interval
  <2>2. IsFiniteSet(0..Nested) /\ Cardinality(0..Nested) = Nested + 1
    BY <1>1, FS_Interval
  <2>3. PICK a, b : a = 1..ThreadNum /\ b = 0..Nested
    OBVIOUS
  <2>4. IsFiniteSet(a \X b) /\ Cardinality(a \X b) = Cardinality(a) * Cardinality(b)
    BY ONLY <2>1, <2>2, <2>3, FS_Product, Zenon
  <2>5. S = a \X b
    BY <2>3, Zenon
  <2>6. Cardinality(a) = ThreadNum /\ Cardinality(b) = Nested + 1
    BY <2>1, <2>2, <2>3, Zenon
  <2>. QED
    BY <2>4, <2>5, <2>6, Zenon
<1> HIDE DEF S, f
<1>. QED
  BY <1>14, <1>15, <1>16, <1>17, CountedBy

-----------------------------------------------------------------------------
(* What main requires *)

\* The two other programs require nothing.
LEMMA NothingRequired ==
  ASSUME Shapes, program \notin Verifying, NEW p \in Procs, ~AtEnd(p)
  PROVE  Op(p).op # "require"
<1>1. program \in {"order_violation", "noheap"}
  BY SystemAssumption DEF Shapes, Verifying, Code
<1>2. stack[p].pc \in Nat \ {0} /\ stack[p].fn \in DOMAIN Code[program]
  BY DEF Shapes, Frames
<1>3. CASE program = "order_violation"
  BY <1>2, <1>3, ViolationLines
<1>4. CASE program = "noheap"
  <2> DEFINE X == [op : {"create"}, fn : {"fn1"}] \cup [op : {"join"}, index : Nat]
             create == CreateAll(ThreadNum, "fn1")
             join == JoinAll(ThreadNum)
  <2>1. ThreadNum \in Nat
    BY ProgramsAssumption
  <2>2. create \in Seq(X) /\ join \in Seq(X) /\ noheap_fn1 \in Seq(X)
    BY <2>1 DEF CreateAll, JoinAll, Create, Join, noheap_fn1
  <2>3. \A x \in X : x.op # "require"
    OBVIOUS
  <2>4. noheap_main = create \o join
    BY DEF noheap_main
  <2> HIDE DEF X, create, join
  <2>5. noheap_main \in Seq(X)
    <3>1. create \o join \in Seq(X)
      BY ONLY <2>2, Concatenated, Zenon
    <3>. QED
      BY <2>4, <3>1, Zenon
  <2>6. Code[program][stack[p].fn] \in Seq(X)
    <3>1. Code[program] = [main |-> noheap_main, fn1 |-> noheap_fn1]
      BY <1>4 DEF Code
    <3>. QED
      BY <1>2, <2>2, <2>5, <3>1
  <2>7. PICK s : s = Code[program][stack[p].fn]
    OBVIOUS
  <2>8. s \in Seq(X) /\ stack[p].pc \in 1..Len(s) /\ Op(p) = s[stack[p].pc]
    BY <1>2, <2>6, <2>7 DEF AtEnd, Op
  <2>9. \A k \in 1..Len(s) : s[k] \in X
    BY <2>8, Elements, Zenon
  <2>. QED
    BY <2>3, <2>8, <2>9
<1>. QED
  BY <1>1, <1>3, <1>4

\* serial.cc has main only.  The rounds of its loop are in the heap, or in the
\* section that runs.
LEMMA SerialCounted ==
  ASSUME Control, program = "serial", Families, JoinedExited,
         NEW p \in Born, phase[p] = "running", stack[p].fn = "main", ~AtEnd(p),
         Op(p).op = "require", NEW o \in Counters, IsFiniteSet(Applied(o))
  PROVE  Cardinality(Applied(o)) + Cardinality(Done(p, o)) = ThreadNum
<1> DEFINE S == {j \in 1..(stack[p].pc - 1) : Body(p)[j] = Increment(o)}
<1>1. /\ Shapes /\ p \in Procs /\ program \in Verifying
      /\ checkpoint[p].pc \in Nat \ {0} /\ stack[p].pc \in Nat \ {0}
      /\ checkpoint[p].pc <= stack[p].pc
      /\ stack[p].pc \in 1..Len(Body(p)) /\ Op(p) = Body(p)[stack[p].pc]
  <2>1. Shapes /\ p \in Procs /\ program \in Verifying /\ checkpoint[p].pc <= stack[p].pc
    BY DEF Control, SectionRunsOn, Born, Verifying
  <2>. QED
    BY <2>1, BodyLaid
<1>2. LastJoin("main") = 0 /\ ThreadsOf("main") = 0
  BY DEF LastJoin, ThreadsOf
<1>3. Born = {p}
  <2>1. Len(stack[p].threads) = 0
    BY <1>1, <1>2, OthersDone
  <2>. QED
    BY <1>1, <2>1, Descent
<1>4. Applied(o) = {p} \X Counted(p, o)
  BY <1>3 DEF Applied
<1>5. /\ Counted(p, o) = {j \in 1..(checkpoint[p].pc - 1) : Body(p)[j] = Increment(o)}
      /\ Done(p, o) = {j \in checkpoint[p].pc..(stack[p].pc - 1) : Body(p)[j] = Increment(o)}
  BY DEF Counted, Committed, G!Open, Done
<1>6. S = Counted(p, o) \cup Done(p, o) /\ Counted(p, o) \cap Done(p, o) = {}
  BY <1>1, <1>5
<1>7. IsFiniteSet(S) /\ Cardinality(S) = ThreadNum
  <2>1. IsFiniteSet(1..(stack[p].pc - 1))
    BY <1>1, FS_Interval
  <2>2. IsFiniteSet(S)
    BY <2>1, FS_Subset
  <2>3. PICK s : s = Body(p)
    OBVIOUS
  <2>4. s = Code[program]["main"]
    BY <2>3 DEF Body
  <2>5. \A i \in 1..Len(s), c \in Counters :
          s[i].op = "require" => Cardinality(LinesUpTo(s, i, c)) = ThreadNum
    BY <2>4, SerialLines
  <2>6. S = LinesUpTo(s, stack[p].pc, o)
    BY <2>3 DEF LinesUpTo
  <2>. QED
    BY <1>1, <2>2, <2>3, <2>5, <2>6
<1> HIDE DEF S
<1>8. /\ IsFiniteSet(Counted(p, o)) /\ IsFiniteSet(Done(p, o))
      /\ Cardinality(Counted(p, o)) + Cardinality(Done(p, o)) = ThreadNum
  <2>1. IsFiniteSet(Counted(p, o)) /\ IsFiniteSet(Done(p, o))
    BY <1>6, <1>7, FS_Subset
  <2>2. Cardinality(S) = Cardinality(Counted(p, o)) + Cardinality(Done(p, o)) - Cardinality({})
    BY <1>6, <2>1, FS_Union
  <2>3. Cardinality({}) = 0 /\ Cardinality(Counted(p, o)) \in Nat /\ Cardinality(Done(p, o)) \in Nat
    BY <2>1, FS_EmptySet, FS_CardinalityType
  <2>. QED
    BY <1>7, <2>1, <2>2, <2>3
<1>9. Cardinality(Applied(o)) = Cardinality(Counted(p, o))
  <2>1. IsFiniteSet({p}) /\ Cardinality({p}) = 1
    BY FS_Singleton
  <2>2. Cardinality({p} \X Counted(p, o)) = 1 * Cardinality(Counted(p, o))
    BY <1>8, <2>1, FS_Product
  <2>3. Cardinality(Counted(p, o)) \in Nat
    BY <1>8, FS_CardinalityType
  <2>. QED
    BY <1>4, <2>2, <2>3
<1>. QED
  BY <1>8, <1>9

\* What main reads in verify() is what it requires.
LEMMA RequiredIsThere ==
  ASSUME Control, Threads, CountInv, Families, JoinedExited, program \in Verifying,
         NEW p \in Procs, Running(p), ~AtEnd(p), Op(p).op = "require"
  PROVE  Value(p, Op(p).at) = Op(p).val
<1> DEFINE o == Op(p).at
<1>1. /\ Shapes /\ p \in Born /\ phase[p] = "running" /\ phase[p] \in G!Open
      /\ SectionRunsOn(p) /\ FamilyOf(p)
  BY DEF Control, Running, Born, G!Open, Families
<1>2. /\ stack[p].pc \in 1..Len(Body(p)) /\ Op(p) = Body(p)[stack[p].pc]
      /\ stack[p].fn # "main" => ThreadBody(Body(p))
      /\ stack[p].fn = "main" => Requires(Body(p))
      /\ checkpoint[p].pc \in Nat \ {0}
  BY <1>1, BodyLaid
<1>3. stack[p].fn = "main"
  BY <1>2 DEF ThreadBody
<1>4. /\ o \in Counters /\ Op(p).val = ThreadNum * (Nested + 1)
      /\ stack[p].pc > LastJoin("main")
  BY <1>2, <1>3 DEF Requires
<1>5. newer[p] = {} /\ o \in Objects
  BY <1>1, <1>3, <1>4 DEF FamilyOf, AloneAtEnd, Counters, Objects
<1>6. /\ Value(p, o) = heap[o] + Cardinality(Done(p, o))
      /\ IsFiniteSet(Applied(o)) /\ heap[o] = Cardinality(Applied(o))
  BY <1>1, <1>5 DEF CountInv, SectionCounts, HeapCounts
<1>7. PICK v : v = ThreadNum * (Nested + 1)
  OBVIOUS
<1>8. CASE program # "serial"
  <2>1. Cardinality(Applied(o)) = v
    BY <1>1, <1>3, <1>4, <1>7, <1>8, AllCounted
  <2>2. Done(p, o) = {}
    <3>1. \A i \in 1..Len(Body(p)) : Body(p)[i].op # "increment"
      BY <1>3, <1>8, MainLines DEF Body
    <3>2. Increment(o).op = "increment"
      BY DEF Increment
    <3>3. checkpoint[p].pc..(stack[p].pc - 1) \subseteq 1..Len(Body(p))
      BY <1>2
    <3>. QED
      BY <3>1, <3>2, <3>3 DEF Done
  <2>3. Cardinality({}) = 0 /\ heap[o] \in Nat
    BY <1>1, <1>5, FS_EmptySet DEF Shapes
  <2>. QED
    BY <1>4, <1>6, <1>7, <2>1, <2>2, <2>3
<1>9. CASE program = "serial"
  <2>1. Cardinality(Applied(o)) + Cardinality(Done(p, o)) = ThreadNum
    BY <1>1, <1>3, <1>4, <1>6, <1>9, SerialCounted
  <2>2. v = ThreadNum
    <3>1. ThreadNum \in Nat /\ Nested = 0
      BY <1>9, ProgramsAssumption DEF Nested
    <3>2. ThreadNum * (0 + 1) = ThreadNum
      BY <3>1
    <3>. QED
      BY <1>7, <3>1, <3>2
  <2>. QED
    BY <1>4, <1>6, <1>7, <2>1, <2>2
<1>. QED
  BY <1>8, <1>9

\* A REQUIRE does not fail.
LEMMA NothingFails ==
  ASSUME Control, Threads, program # "order_violation" => CountInv,
         program \in Verifying => Families, JoinedExited, failed = {}, [Next]_vars
  PROVE  failed' = {}
<1>1. ASSUME NEW p \in Procs, RequireStep(p) PROVE failed' = failed
  <2>1. Shapes /\ Running(p) /\ ~AtEnd(p) /\ Op(p).op = "require"
    BY <1>1 DEF RequireStep, At, Control
  <2>2. program \in Verifying
    BY <2>1, NothingRequired
  <2>3. Value(p, Op(p).at) = Op(p).val
    BY <2>1, <2>2, RequiredIsThere DEF Verifying
  <2>. QED
    BY <1>1, <2>3 DEF RequireStep
<1>2. ASSUME NEW p \in Procs, ProgramStep(p) PROVE failed' = failed
  BY <1>1, <1>2 DEF ProgramStep, LoadStep, StoreStep, SkipStep, MutexStep
<1>3. ASSUME NEW p \in Procs, Calling(p) \/ Library(p) PROVE failed' = failed
  BY <1>3 DEF Calling, Library, PredecessorExited, Commit, Rollback, JoinReturns, Exit, Fork,
              AtomicBegin, programVars
<1>. QED
  BY <1>2, <1>3 DEF Next, Terminated, vars, programVars

\* verify() in test.cc, lock.cc, nolock.cc and serial.cc never fails: what main
\* reads when it has joined its threads is what they, and the threads they have
\* created and joined, have counted.
THEOREM ChecksPass == Spec => []VerifySucceeds
<1> DEFINE I == /\ Control
                /\ program # "order_violation" => CountInv
                /\ program \in Verifying => Families
                /\ failed = {}
<1>1. Init => I
  <2>1. Init => Born = {} /\ failed = {}
    BY DEF Init, G!Init, Born
  <2>. QED
    BY <2>1, InitControl, InitCounts DEF Families
<1>2. Threads /\ JoinedExited /\ I /\ [Next]_vars => I'
  <2> SUFFICES ASSUME Threads, JoinedExited, I, [Next]_vars PROVE I'
    OBVIOUS
  <2>1. program' = program
    BY ProgramIsFixed
  <2>2. Control' /\ failed' = {}
    BY NextControl, NothingFails
  <2>3. program # "order_violation" => CountInv'
    BY NextCounts
  <2>4. program \in Verifying => Families'
    BY NextFamilies
  <2>5. (program \in Verifying)' = (program \in Verifying)
    BY <2>1 DEF Verifying
  <2>. QED
    BY <2>1, <2>2, <2>3, <2>4, <2>5
<1>3. I => VerifySucceeds
  BY DEF VerifySucceeds
<1>. QED
  BY <1>1, <1>2, <1>3, ThreadsKnown, JoinedKnown, PTL DEF Spec

-----------------------------------------------------------------------------
(* A program without threads *)

\* A set of numbers that is not empty has a least one.
LEMMA LeastNumber ==
  ASSUME NEW S \in SUBSET Nat, S # {}
  PROVE  \E m \in S : \A n \in S : m <= n
<1> DEFINE R == StrictSubsetOrdering(Nat)
           F == FiniteSubsetsOf(Nat)
           I == {x \in F : \E n \in S : x = 0..n}
<1>1. \A n \in S : 0..n \in I
  <2> TAKE n \in S
  <2>1. IsFiniteSet(0..n) /\ 0..n \subseteq Nat
    BY FS_Interval
  <2>. QED
    BY <2>1 DEF FiniteSubsetsOf
<1>2. PICK x \in I : \A y \in I : <<y, x>> \notin R
  <2>1. IsWellFoundedOn(R, F)
    BY FS_StrictSubsetOrderingWellFounded
  <2>2. I \subseteq F /\ I # {}
    BY <1>1
  <2> HIDE DEF I, R, F
  <2>. QED
    BY <2>1, <2>2, WFMin
<1>3. PICK m \in S : x = 0..m
  OBVIOUS
<1>4. ASSUME NEW n \in S, n < m PROVE FALSE
  <2>1. 0..n \subseteq 0..m /\ 0..n # 0..m /\ 0..n \in SUBSET Nat /\ 0..m \in SUBSET Nat
    BY <1>4
  <2>2. <<0..n, 0..m>> \in R
    BY <2>1 DEF StrictSubsetOrdering
  <2>. QED
    BY <1>1, <1>2, <1>3, <2>2
<1>. QED
  BY <1>4

\* Induction up to a bound: a set that has 0 and, below the bound, the
\* successor of whatever it has.
LEMMA InductiveSet ==
  ASSUME NEW S, NEW m \in Nat, 0 \in S, \A n \in Nat : n < m /\ n \in S => n + 1 \in S
  PROVE  \A n \in 0..m : n \in S
<1> DEFINE B == {n \in 0..m : n \notin S}
<1> SUFFICES ASSUME B # {} PROVE FALSE
  OBVIOUS
<1>1. PICK k \in B : \A n \in B : k <= n
  <2>1. B \in SUBSET Nat
    OBVIOUS
  <2> HIDE DEF B
  <2>. QED
    BY <2>1, LeastNumber
<1>2. k # 0 /\ k \in 0..m
  OBVIOUS
<1>3. k - 1 \in Nat /\ k - 1 < m /\ k - 1 \notin B
  BY <1>1, <1>2
<1>4. (k - 1) + 1 \in S
  BY <1>3
<1>. QED
  BY <1>2, <1>4

\* The states of the program without threads, one after each operation.
StatesOf(ops, h, called, n, state) ==
  state = [i \in 0..n |-> IF i = 0 THEN [heap |-> h, reg |-> 0]
                          ELSE Effect(ops[i], state[i - 1], called)]

\* The recursion of After has a solution.
LEMMA StatesExist ==
  ASSUME NEW ops, NEW h, NEW called, NEW m \in Nat
  PROVE  \E state : StatesOf(ops, h, called, m, state)
<1> DEFINE S == {n \in Nat : \E state : StatesOf(ops, h, called, n, state)}
<1>1. 0 \in S
  <2> DEFINE st == [i \in 0..0 |-> [heap |-> h, reg |-> 0]]
  <2>1. StatesOf(ops, h, called, 0, st)
    <3>1. \A i \in 0..0 : i = 0
      OBVIOUS
    <3>. QED
      BY <3>1 DEF StatesOf
  <2>. QED
    BY <2>1
<1>2. ASSUME NEW n \in Nat, n \in S PROVE n + 1 \in S
  <2>1. PICK st : StatesOf(ops, h, called, n, st)
    BY <1>2
  <2>2. PICK more : more = [i \in 0..(n + 1) |-> IF i = n + 1 THEN Effect(ops[n + 1], st[n], called)
                                                ELSE st[i]]
    OBVIOUS
  <2>3. \A i \in 0..n : more[i] = st[i] /\ st[i] = IF i = 0 THEN [heap |-> h, reg |-> 0]
                                                  ELSE Effect(ops[i], st[i - 1], called)
    BY <2>1, <2>2 DEF StatesOf
  <2>4. \A i \in 0..n : i # 0 => i - 1 \in 0..n
    OBVIOUS
  <2>5. \A i \in 0..(n + 1) : more[i] = IF i = 0 THEN [heap |-> h, reg |-> 0]
                                        ELSE Effect(ops[i], more[i - 1], called)
    <3> TAKE i \in 0..(n + 1)
    <3>1. CASE i = n + 1
      <4>1. i - 1 = n /\ n \in 0..n /\ i # 0
        BY <3>1
      <4>. QED
        BY <2>2, <2>3, <3>1, <4>1
    <3>2. CASE i \in 0..n
      <4>1. i # 0 => more[i - 1] = st[i - 1]
        BY <2>3, <2>4, <3>2
      <4>. QED
        BY <2>3, <3>2, <4>1
    <3>. QED
      BY <3>1, <3>2
  <2>6. StatesOf(ops, h, called, n + 1, more)
    <3>1. more = [i \in 0..(n + 1) |-> more[i]]
      BY <2>2
    <3>. QED
      BY <2>5, <3>1 DEF StatesOf
  <2>. QED
    BY <2>6
<1> HIDE DEF S
<1>3. m \in S
  BY <1>1, <1>2, InductiveSet
<1>. QED
  BY <1>3 DEF S

LEMMA AfterStates ==
  ASSUME NEW ops, NEW h, NEW called, Len(ops) \in Nat
  PROVE  \E state : /\ state[0] = [heap |-> h, reg |-> 0]
                    /\ \A i \in 1..Len(ops) : state[i] = Effect(ops[i], state[i - 1], called)
                    /\ After(ops, h, called) = state[Len(ops)].heap
<1> DEFINE P(st) == StatesOf(ops, h, called, Len(ops), st)
           st == CHOOSE s : P(s)
<1>1. P(st)
  <2>1. \E s : P(s)
    BY StatesExist
  <2>. QED
    BY <2>1
<1>2. After(ops, h, called) = st[Len(ops)].heap
  BY DEF After, StatesOf
<1> HIDE DEF st
<1>3. st[0] = [heap |-> h, reg |-> 0]
  BY <1>1 DEF StatesOf
<1>4. ASSUME NEW i \in 1..Len(ops) PROVE st[i] = Effect(ops[i], st[i - 1], called)
  <2>1. i \in 0..Len(ops) /\ i # 0
    OBVIOUS
  <2>. QED
    BY <1>1, <2>1 DEF StatesOf
<1>. QED
  BY <1>2, <1>3, <1>4

States == [heap : Heaps, reg : Nat]

Changes(op, s, called, t) ==
  /\ t \in States
  /\ op.op = "load" => t.reg = s.heap[op.at]
  /\ op.op = "create" => t.heap = called[op.fn][s.heap]
  /\ op.op \in {"increment", "put"} \/ (op.op = "put_if" /\ s.reg = 1) =>
       \A o \in Objects : t.heap[o] = IF o # op.at THEN s.heap[o]
                                      ELSE IF op.op = "increment" THEN s.reg + 1
                                      ELSE op.val
  /\ op.op \in {"load", "require", "join", "lock", "unlock"} => t.heap = s.heap
  /\ op.op = "put_if" /\ s.reg # 1 => t = s

\* What an operation changes.
LEMMA EffectOf ==
  ASSUME NEW fs, NEW op \in Operations(fs), NEW s \in States, NEW called,
         op.op = "create" => called[op.fn][s.heap] \in Heaps
  PROVE  Changes(op, s, called, Effect(op, s, called))
<1> SUFFICES ASSUME NEW t, t = Effect(op, s, called) PROVE Changes(op, s, called, t)
  OBVIOUS
<1>1. /\ op.op \in {"load", "increment", "put", "put_if", "require", "create", "join", "lock", "unlock"}
      /\ op.op \in {"load", "increment", "put", "put_if"} => op.at \in Objects
      /\ op.op \in {"put", "put_if"} => op.val \in Nat
  BY DEF Operations
<1>2. s.heap \in [Objects -> Nat] /\ s.reg \in Nat
  BY DEF States, Heaps
<1>r. \A r : /\ r \in Nat => [s EXCEPT !.reg = r] \in States
             /\ [s EXCEPT !.reg = r].heap = s.heap /\ [s EXCEPT !.reg = r].reg = r
  BY DEF States
<1>h. \A h \in Heaps : [s EXCEPT !.heap = h] \in States /\ [s EXCEPT !.heap = h].heap = h
  BY DEF States
<1>3. ASSUME NEW o \in Objects, NEW v \in Nat, t = [s EXCEPT !.heap[o] = v]
      PROVE  /\ t \in States
             /\ \A x \in Objects : t.heap[x] = IF x # o THEN s.heap[x] ELSE v
  <2>1. t = [s EXCEPT !.heap = [s.heap EXCEPT ![o] = v]]
    BY <1>3
  <2>2. [s.heap EXCEPT ![o] = v] \in Heaps
    BY <1>2 DEF Heaps
  <2>3. t \in States /\ t.heap = [s.heap EXCEPT ![o] = v]
    BY <1>h, <2>1, <2>2
  <2>. QED
    BY <1>2, <2>3
<1>4. CASE op.op = "load"
  <2>1. t = [s EXCEPT !.reg = s.heap[op.at]]
    BY <1>4 DEF Effect
  <2>2. s.heap[op.at] \in Nat
    BY <1>1, <1>2, <1>4
  <2>3. t \in States /\ t.heap = s.heap /\ t.reg = s.heap[op.at]
    BY <1>r, <2>1, <2>2
  <2>. QED
    BY <1>4, <2>3 DEF Changes
<1>5. CASE op.op = "increment"
  <2>1. t = [s EXCEPT !.heap[op.at] = s.reg + 1]
    BY <1>5 DEF Effect
  <2>. QED
    BY <1>1, <1>2, <1>3, <1>5, <2>1 DEF Changes
<1>6. CASE op.op = "put" \/ (op.op = "put_if" /\ s.reg = 1)
  <2>1. t = [s EXCEPT !.heap[op.at] = op.val]
    BY <1>6 DEF Effect
  <2>. QED
    BY <1>1, <1>3, <1>6, <2>1 DEF Changes
<1>7. CASE op.op = "create"
  <2>1. t = [s EXCEPT !.heap = called[op.fn][s.heap]]
    BY <1>7 DEF Effect
  <2>2. t \in States /\ t.heap = called[op.fn][s.heap]
    BY <1>7, <1>h, <2>1
  <2>. QED
    BY <1>7, <2>2 DEF Changes
<1>8. CASE op.op \in {"require", "join", "lock", "unlock"} \/ (op.op = "put_if" /\ s.reg # 1)
  <2>1. t = s
    BY <1>8 DEF Effect
  <2>. QED
    BY <1>8, <2>1 DEF Changes
<1>. QED
  BY <1>1, <1>4, <1>5, <1>6, <1>7, <1>8

\* The lines up to i that increment o, and those that create a thread.
Incrementing(s, o, i) == {j \in 1..i : s[j] = Increment(o)}
Creating(s, i) == {j \in 1..i : s[j].op = "create"}

LEMMA LinesGrow ==
  ASSUME NEW s, NEW o, NEW i \in Nat
  PROVE  /\ Cardinality(Incrementing(s, o, i)) \in Nat /\ Cardinality(Creating(s, i)) \in Nat
         /\ s[i + 1] = Increment(o) =>
              Cardinality(Incrementing(s, o, i + 1)) = Cardinality(Incrementing(s, o, i)) + 1
         /\ s[i + 1] # Increment(o) =>
              Cardinality(Incrementing(s, o, i + 1)) = Cardinality(Incrementing(s, o, i))
         /\ s[i + 1].op = "create" =>
              Cardinality(Creating(s, i + 1)) = Cardinality(Creating(s, i)) + 1
         /\ s[i + 1].op # "create" => Cardinality(Creating(s, i + 1)) = Cardinality(Creating(s, i))
<1>1. IsFiniteSet(1..i)
  BY FS_Interval
<1>2. IsFiniteSet(Incrementing(s, o, i)) /\ IsFiniteSet(Creating(s, i))
  BY <1>1, FS_Subset DEF Incrementing, Creating
<1>3. i + 1 \notin Incrementing(s, o, i) /\ i + 1 \notin Creating(s, i)
  BY DEF Incrementing, Creating
<1>4. Incrementing(s, o, i + 1) = IF s[i + 1] = Increment(o) THEN Incrementing(s, o, i) \cup {i + 1}
                                  ELSE Incrementing(s, o, i)
  BY DEF Incrementing
<1>5. Creating(s, i + 1) = IF s[i + 1].op = "create" THEN Creating(s, i) \cup {i + 1}
                           ELSE Creating(s, i)
  BY DEF Creating
<1>6. Cardinality(Incrementing(s, o, i)) \in Nat /\ Cardinality(Creating(s, i)) \in Nat
  BY <1>2, FS_CardinalityType
<1>7. \A S, x : IsFiniteSet(S) /\ x \notin S => Cardinality(S \cup {x}) = Cardinality(S) + 1
  BY FS_AddElement
<1>. QED
  BY <1>2, <1>3, <1>4, <1>5, <1>6, <1>7

\* main puts zeros into a heap that is all zeros, or nothing is put anywhere.
PutsKeep(s, h) == PutsNothing(s) \/ (PutsZeros(s) /\ \A x \in Objects : h[x] = 0)

\* Every pthread_create of s adds k to o.
CallsAdd(s, called, o, k) ==
  \A i \in 1..Len(s) : s[i].op = "create" =>
    \A g \in Heaps : called[s[i].fn][g] \in Heaps /\ called[s[i].fn][g][o] = g[o] + k

\* Before the line i + 1 of the program without threads: what has been added
\* to o, and what is in the register between the load and the increment.
CountsSerially(s, h, o, k, i, t) ==
  /\ t \in States
  /\ t.heap[o] = h[o] + Cardinality(Incrementing(s, o, i)) + k * Cardinality(Creating(s, i))
  /\ i > 0 /\ s[i] = Load(o) => t.reg = t.heap[o]

LEMMA OneMore == \A k, m \in Nat : k * m \in Nat /\ k * (m + 1) = k * m + k /\ k * 0 = 0
OBVIOUS

LEMMA SerialLine ==
  ASSUME NEW fs, NEW s \in Seq(Operations(fs)), LoadsFirst(s),
         NEW h \in Heaps, PutsKeep(s, h), NEW called, NEW o \in Objects, NEW k \in Nat,
         CallsAdd(s, called, o, k),
         NEW i \in Nat, i < Len(s), NEW t, CountsSerially(s, h, o, k, i, t)
  PROVE  CountsSerially(s, h, o, k, i + 1, Effect(s[i + 1], t, called))
<1>1. PICK op \in Operations(fs) : op = s[i + 1] /\ i + 1 \in 1..Len(s)
  OBVIOUS
<1>2. PICK u : u = Effect(op, t, called)
  OBVIOUS
<1>3. t \in States /\ t.heap \in Heaps /\ t.heap[o] \in Nat /\ h[o] \in Nat
  BY DEF CountsSerially, States, Heaps
<1>4. op.op = "create" =>
        called[op.fn][t.heap] \in Heaps /\ called[op.fn][t.heap][o] = t.heap[o] + k
  BY <1>1, <1>3 DEF CallsAdd
<1>5. Changes(op, t, called, u)
  BY <1>2, <1>3, <1>4, EffectOf
<1>6. PICK n \in Nat, m \in Nat :
        /\ n = Cardinality(Incrementing(s, o, i)) /\ m = Cardinality(Creating(s, i))
        /\ op = Increment(o) => Cardinality(Incrementing(s, o, i + 1)) = n + 1
        /\ op # Increment(o) => Cardinality(Incrementing(s, o, i + 1)) = n
        /\ op.op = "create" => Cardinality(Creating(s, i + 1)) = m + 1
        /\ op.op # "create" => Cardinality(Creating(s, i + 1)) = m
  BY <1>1, LinesGrow
<1>7. PICK km \in Nat : km = k * m /\ t.heap[o] = h[o] + n + km /\ k * (m + 1) = km + k
  <2>1. k * m \in Nat /\ k * (m + 1) = k * m + k
    BY OneMore
  <2>2. t.heap[o] = h[o] + n + k * m
    BY <1>6, Zenon DEF CountsSerially
  <2>. QED
    BY <2>1, <2>2, Zenon
<1>8. /\ op.op \in {"load", "increment", "put", "put_if", "require", "create", "join", "lock", "unlock"}
      /\ op = Increment(o) <=> op.op = "increment" /\ op.at = o
  BY DEF Operations, Increment
<1>a. ASSUME NEW x \in {0, 1}, op = Increment(o) <=> x = 1, NEW y \in {0, k},
             IF op.op = "create" THEN y = k ELSE y = 0, u.heap[o] = t.heap[o] + x + y
      PROVE  u.heap[o] =
               h[o] + Cardinality(Incrementing(s, o, i + 1)) + k * Cardinality(Creating(s, i + 1))
  <2>1. PICK a, b : a = Cardinality(Incrementing(s, o, i + 1)) /\ b = Cardinality(Creating(s, i + 1))
    OBVIOUS
  <2>2. a = n + x
    BY <1>6, <1>a, <2>1
  <2>3. k * b = km + y
    <3>1. CASE op.op = "create"
      BY <1>6, <1>7, <1>a, <2>1, <3>1
    <3>2. CASE op.op # "create"
      <4>1. b = m /\ y = 0 /\ km + 0 = km
        BY <1>6, <1>a, <2>1, <3>2
      <4>. QED
        BY <1>7, <4>1
    <3>. QED
      BY <3>1, <3>2
  <2>4. u.heap[o] = h[o] + a + (km + y)
    <3>1. PICK old, now : old \in Nat /\ old = h[o] /\ now = u.heap[o]
      BY <1>3
    <3>2. n \in Nat /\ x \in Nat /\ y \in Nat
      BY <1>a
    <3>3. now = (old + n + km) + x + y
      BY <1>a, <1>7, <3>1, Zenon
    <3>4. (old + n + km) + x + y = old + (n + x) + (km + y)
      BY ONLY <1>7, <3>1, <3>2
    <3>. QED
      BY <2>2, <3>1, <3>3, <3>4, Zenon
  <2>. QED
    BY <2>1, <2>3, <2>4, Zenon
<1>9. u.heap[o] = h[o] + Cardinality(Incrementing(s, o, i + 1)) + k * Cardinality(Creating(s, i + 1))
  <2>1. CASE op.op = "increment"
    <3>1. CASE op.at = o
      <4>1. op = Increment(o)
        BY <1>8, <2>1, <3>1
      <4>2. i > 0 /\ s[i] = Load(o)
        <5>1. i + 1 > 1 /\ s[(i + 1) - 1] = Load(o)
          BY <1>1, <4>1 DEF LoadsFirst
        <5>2. (i + 1) - 1 = i
          OBVIOUS
        <5>. QED
          BY <5>1, <5>2
      <4>3. t.reg = t.heap[o]
        BY <4>2 DEF CountsSerially
      <4>4. u.heap[o] = t.heap[o] + 1
        BY <1>5, <2>1, <3>1, <4>3 DEF Changes
      <4>. QED
        BY <1>3, <1>a, <2>1, <4>1, <4>4
    <3>2. CASE op.at # o
      <4>1. u.heap[o] = t.heap[o]
        BY <1>5, <2>1, <3>2 DEF Changes
      <4>. QED
        BY <1>3, <1>8, <1>a, <2>1, <3>2, <4>1
    <3>. QED
      BY <3>1, <3>2
  <2>2. CASE op.op \in {"put", "put_if"}
    <3>1. PutsZeros(s) /\ h[o] = 0
      BY <1>1, <2>2 DEF PutsKeep, PutsNothing
    <3>2. op.op = "put" /\ op.val = 0 /\ \A j \in 1..i : s[j].op = "put"
      BY <1>1, <2>2, <3>1 DEF PutsZeros
    <3>3. Incrementing(s, o, i) = {} /\ Creating(s, i) = {}
      BY <3>2 DEF Incrementing, Creating, Increment
    <3>4. n = 0 /\ m = 0
      BY <1>6, <3>3, FS_EmptySet
    <3>5. km = 0
      BY <1>7, <3>4, OneMore
    <3>6. t.heap[o] = 0
      BY <1>7, <3>1, <3>4, <3>5
    <3>7. u.heap[o] = 0
      BY <1>5, <3>2, <3>6 DEF Changes
    <3>. QED
      BY <1>8, <1>a, <2>2, <3>6, <3>7
  <2>3. CASE op.op = "create"
    <3>1. u.heap[o] = t.heap[o] + k
      BY <1>4, <1>5, <2>3 DEF Changes
    <3>. QED
      BY <1>3, <1>8, <1>a, <2>3, <3>1
  <2>4. CASE op.op \in {"load", "require", "join", "lock", "unlock"}
    <3>1. u.heap[o] = t.heap[o]
      BY <1>5, <2>4 DEF Changes
    <3>. QED
      BY <1>3, <1>8, <1>a, <2>4, <3>1
  <2>. QED
    BY <1>8, <2>1, <2>2, <2>3, <2>4
<1>10. op = Load(o) => u.reg = u.heap[o]
  <2> SUFFICES ASSUME op = Load(o) PROVE u.reg = u.heap[o]
    OBVIOUS
  <2>1. op.op = "load" /\ op.at = o
    BY DEF Load
  <2>. QED
    BY <1>5, <2>1 DEF Changes
<1>. QED
  BY <1>1, <1>2, <1>5, <1>9, <1>10 DEF CountsSerially, Changes

\* What a function leaves in the heap: on top of what it has found, its own
\* increments, and those of the functions it calls.
LEMMA SerialCounts ==
  ASSUME NEW fs, NEW s \in Seq(Operations(fs)), LoadsFirst(s),
         NEW h \in Heaps, PutsKeep(s, h), NEW called, NEW o \in Objects, NEW k \in Nat,
         CallsAdd(s, called, o, k)
  PROVE  /\ After(s, h, called) \in Heaps
         /\ After(s, h, called)[o] = h[o] + Cardinality(Incrementing(s, o, Len(s)))
                                       + k * Cardinality(Creating(s, Len(s)))
<1>1. Len(s) \in Nat
  OBVIOUS
<1>2. PICK st : /\ st[0] = [heap |-> h, reg |-> 0]
                /\ \A i \in 1..Len(s) : st[i] = Effect(s[i], st[i - 1], called)
                /\ After(s, h, called) = st[Len(s)].heap
  BY <1>1, AfterStates
<1> DEFINE S == {i \in 0..Len(s) : CountsSerially(s, h, o, k, i, st[i])}
<1>3. 0 \in S
  <2>1. st[0] \in States /\ st[0].heap = h /\ h[o] \in Nat
    BY <1>2 DEF States, Heaps
  <2>2. Incrementing(s, o, 0) = {} /\ Creating(s, 0) = {}
    BY DEF Incrementing, Creating
  <2>3. h[o] = h[o] + Cardinality(Incrementing(s, o, 0)) + k * Cardinality(Creating(s, 0))
    <3>1. Cardinality({}) = 0 /\ k * 0 = 0 /\ h[o] = h[o] + 0 + 0
      BY <2>1, FS_EmptySet, OneMore
    <3>. QED
      BY <2>2, <3>1, Zenon
  <2>. QED
    BY <1>1, <2>1, <2>3 DEF CountsSerially
<1>4. ASSUME NEW n \in Nat, n < Len(s), n \in S PROVE n + 1 \in S
  <2>1. n + 1 \in 1..Len(s) /\ n + 1 \in 0..Len(s) /\ (n + 1) - 1 = n
    BY <1>1, <1>4
  <2>2. st[n + 1] = Effect(s[n + 1], st[n], called)
    BY <1>2, <2>1
  <2>3. CountsSerially(s, h, o, k, n, st[n])
    BY <1>4
  <2>4. CountsSerially(s, h, o, k, n + 1, st[n + 1])
    BY <1>4, <2>2, <2>3, SerialLine
  <2>. QED
    BY <2>1, <2>4
<1> HIDE DEF S
<1>5. Len(s) \in S
  <2>1. \A n \in 0..Len(s) : n \in S
    BY ONLY <1>1, <1>3, <1>4, InductiveSet
  <2>. QED
    BY <1>1, <2>1
<1>6. CountsSerially(s, h, o, k, Len(s), st[Len(s)])
  BY <1>5 DEF S
<1>. QED
  BY <1>2, <1>6 DEF CountsSerially, States

\* Only objects of objs are incremented.
Within(s, objs) == \A i \in 1..Len(s) : s[i].op = "increment" => s[i].at \in objs

LEMMA IncrementAllWithin ==
  /\ Within(IncrementAll(Blob), {"a", "b", "c"})
  /\ Within(IncrementAll(Pair), {"x", "y"})
<1>1. ASSUME NEW objs \in Seq(Objects), NEW C, \A k \in 1..Len(objs) : objs[k] \in C
      PROVE  Within(IncrementAll(objs), C)
  <2>1. PICK n \in Nat : n = Len(objs)
    OBVIOUS
  <2>2. Len(IncrementAll(objs)) = 2 * n
    BY <2>1 DEF IncrementAll
  <2> SUFFICES ASSUME NEW i \in 1..(2 * n), IncrementAll(objs)[i].op = "increment"
               PROVE  IncrementAll(objs)[i].at \in C
    BY <2>2 DEF Within
  <2>3. IncrementAll(objs)[i] = IF i % 2 = 1 THEN Load(objs[(i + 1) \div 2])
                                ELSE Increment(objs[i \div 2])
    BY <2>1 DEF IncrementAll
  <2>4. i % 2 # 1 /\ IncrementAll(objs)[i] = Increment(objs[i \div 2])
    BY <2>3 DEF Load
  <2>5. i \div 2 \in 1..n
    BY <2>4
  <2>. QED
    BY <1>1, <2>1, <2>4, <2>5 DEF Increment
<1>. QED
  BY <1>1, TheObjects

LEMMA ConcatWithin ==
  ASSUME NEW X, NEW objs, NEW s \in Seq(X), NEW t \in Seq(X), Within(s, objs), Within(t, objs)
  PROVE  s \o t \in Seq(X) /\ Within(s \o t, objs)
<1>1. /\ s \o t \in Seq(X) /\ Len(s \o t) = Len(s) + Len(t)
      /\ \A i \in 1..(Len(s) + Len(t)) :
           (s \o t)[i] = IF i <= Len(s) THEN s[i] ELSE t[i - Len(s)]
  BY Concatenated
<1>2. ASSUME NEW i \in 1..(Len(s) + Len(t)), (s \o t)[i].op = "increment"
      PROVE  (s \o t)[i].at \in objs
  <2>1. CASE i <= Len(s)
    <3>1. i \in 1..Len(s) /\ (s \o t)[i] = s[i]
      BY <1>1, <2>1
    <3>. QED
      BY <1>2, <3>1 DEF Within
  <2>2. CASE ~(i <= Len(s))
    <3>1. i - Len(s) \in 1..Len(t) /\ (s \o t)[i] = t[i - Len(s)]
      BY <1>1, <2>2
    <3>. QED
      BY <1>2, <3>1 DEF Within
  <2>. QED
    BY <2>1, <2>2
<1>. QED
  BY <1>1, <1>2 DEF Within

\* Threads increment nothing but the counters.
LEMMA ThreadsWithin ==
  ASSUME program \in Verifying, program \in DOMAIN Code,
         NEW f \in DOMAIN Code[program] \ {"main"}
  PROVE  Within(Code[program][f], Counters)
<1> DEFINE fs == {"main", "fn1", "fn2"}
           Part(s) == s \in Seq(Operations(fs)) /\ Within(s, {"a", "b", "c"})
<1>1. Part(IncrementAll(Blob))
  BY TheObjects, IncrementAllLoadsFirst, IncrementAllWithin
<1>2. Part(<<Lock>>) /\ Part(<<Unlock>>)
  <2>1. Lock.op = "lock" /\ Unlock.op = "unlock"
    BY DEF Lock, Unlock
  <2>2. Within(<<Lock>>, {"a", "b", "c"}) /\ Within(<<Unlock>>, {"a", "b", "c"})
    BY <2>1 DEF Within
  <2>. QED
    BY <2>2, MutexParts
<1>3. Part(CreateAll(SecondaryThreadNum, "fn2")) /\ Part(JoinAll(SecondaryThreadNum))
  <2>1. SecondaryThreadNum \in Nat /\ "fn2" \in fs \ {"main"}
    BY ProgramsAssumption
  <2> HIDE DEF fs
  <2>2. /\ CreateAll(SecondaryThreadNum, "fn2") \in Seq(Operations(fs))
        /\ JoinAll(SecondaryThreadNum) \in Seq(Operations(fs))
    BY <2>1, TheObjects, OtherParts
  <2>3. /\ \A i \in 1..SecondaryThreadNum : /\ CreateAll(SecondaryThreadNum, "fn2")[i].op = "create"
                                            /\ JoinAll(SecondaryThreadNum)[i].op = "join"
        /\ Len(CreateAll(SecondaryThreadNum, "fn2")) = SecondaryThreadNum
        /\ Len(JoinAll(SecondaryThreadNum)) = SecondaryThreadNum
    BY <2>1 DEF CreateAll, JoinAll, Create, Join
  <2>. QED
    BY <2>2, <2>3 DEF Within
<1>4. \A s, t : Part(s) /\ Part(t) => Part(s \o t)
  BY ConcatWithin
<1> HIDE DEF Part
<1>5. CASE program = "test"
  <2>1. Code[program][f] = IncrementAll(Blob)
    BY <1>5 DEF Code, test_fn1, test_fn2
  <2>. QED
    BY <1>1, <1>5, <2>1 DEF Part, Counters
<1>6. CASE program = "nolock"
  <2>1. /\ f = "fn1" => Code[program][f] = nolock_fn1
        /\ f = "fn2" => Code[program][f] = nolock_fn2
        /\ f \in {"fn1", "fn2"}
    BY <1>6 DEF Code
  <2>2. Part(nolock_fn1) /\ Part(nolock_fn2)
    BY <1>1, <1>3, <1>4 DEF nolock_fn1, nolock_fn2
  <2>3. Part(Code[program][f])
    BY <2>1, <2>2
  <2>. QED
    BY <1>6, <2>3 DEF Part, Counters
<1>7. CASE program = "lock"
  <2>1. /\ f = "fn1" => Code[program][f] = lock_fn1
        /\ f = "fn2" => Code[program][f] = lock_fn2
        /\ f \in {"fn1", "fn2"}
    BY <1>7 DEF Code
  <2>2. Part(lock_fn1) /\ Part(lock_fn2)
    BY <1>1, <1>2, <1>4 DEF lock_fn1, lock_fn2
  <2>3. Part(Code[program][f])
    BY <2>1, <2>2
  <2>. QED
    BY <1>7, <2>3 DEF Part, Counters
<1>8. CASE program = "race_condition"
  <2>1. Code[program][f] = IncrementAll(Pair)
    BY <1>8 DEF Code, race_condition_fn1
  <2>. QED
    BY <1>8, <2>1, IncrementAllWithin DEF Counters
<1>9. program # "serial"
  BY DEF Code
<1>. QED
  BY <1>5, <1>6, <1>7, <1>8, <1>9 DEF Verifying

\* As many threads are created as there are lines for it.
LEMMA CreatesLaid ==
  ASSUME NEW s, Len(s) \in Nat, NEW a \in Nat, NEW n \in Nat, NEW f, Laid(s, a, n, f)
  PROVE  Cardinality(Creating(s, Len(s))) = n
<1>1. Creating(s, Len(s)) = (a + 1)..(a + n)
  BY DEF Laid, Creating
<1>2. Cardinality((a + 1)..(a + n)) = n
  <2>1. a + 1 \in Int /\ a + n \in Int
    OBVIOUS
  <2>2. Cardinality((a + 1)..(a + n)) = IF a + 1 > a + n THEN 0 ELSE (a + n) - (a + 1) + 1
    BY ONLY <2>1, FS_Interval, Zenon
  <2>. QED
    BY <2>2
<1>. QED
  BY <1>1, <1>2

\* A thread function: how often it increments an object.
LEMMA ThreadIncrements ==
  ASSUME program \in Verifying, program \in DOMAIN Code,
         NEW f \in DOMAIN Code[program] \ {"main"}, NEW s, s = Code[program][f], NEW o \in Objects
  PROVE  Cardinality(Incrementing(s, o, Len(s))) = IF o \in Counters THEN 1 ELSE 0
<1>1. ThreadBody(s) /\ Within(s, Counters)
  BY ThreadLines, ThreadsWithin
<1>2. CASE o \in Counters
  <2>1. PICK k \in 1..Len(s) : \A i \in 1..Len(s) : s[i] = Increment(o) <=> i = k
    BY <1>1, <1>2 DEF ThreadBody, IncrementsOnce
  <2>2. Incrementing(s, o, Len(s)) = {k}
    BY <2>1 DEF Incrementing
  <2>. QED
    BY <1>2, <2>2, FS_Singleton
<1>3. CASE o \notin Counters
  <2>1. Incrementing(s, o, Len(s)) = {}
    BY <1>1, <1>3 DEF Within, Incrementing, Increment
  <2>. QED
    BY <1>3, <2>1, FS_EmptySet
<1>. QED
  BY <1>2, <1>3

\* What the functions of a program do without threads: those that create none,
\* those that create such threads, and main.
NoneCalled(name) == [f \in DOMAIN Code[name] |-> [h \in Heaps |-> h]]
OnceCalled(name) == Called(name, NoneCalled(name))
TwiceCalled(name) == Called(name, OnceCalled(name))

LEMMA OutcomeOf ==
  ASSUME NEW name
  PROVE  SerialOutcome(name) = After(Code[name]["main"], [x \in Objects |-> 0], TwiceCalled(name))
BY Zenon DEF SerialOutcome, TwiceCalled, OnceCalled, NoneCalled

\* A thread and the threads it creates add to each counter once each.
LEMMA ThreadAdds ==
  ASSUME program \in Verifying, program \in DOMAIN Code,
         NEW f \in DOMAIN Code[program] \ {"main"}, NEW called, NEW o \in Objects,
         NEW k \in Nat, CallsAdd(Code[program][f], called, o, k), NEW h \in Heaps
  PROVE  /\ Called(program, called)[f][h] \in Heaps
         /\ Called(program, called)[f][h][o] =
              h[o] + (IF o \in Counters THEN 1 ELSE 0) + k * ThreadsOf(f)
<1> DEFINE s == Code[program][f]
<1>1. /\ s \in Seq(Operations(DOMAIN Code[program])) /\ LoadsFirst(s) /\ PutsNothing(s)
  BY CodeTame DEF Tame, Verifying
<1>2. PutsKeep(s, h)
  BY <1>1 DEF PutsKeep
<1>3. Called(program, called)[f][h] = After(s, h, called)
  BY DEF Called
<1>4. /\ After(s, h, called) \in Heaps
      /\ After(s, h, called)[o] = h[o] + Cardinality(Incrementing(s, o, Len(s)))
                                    + k * Cardinality(Creating(s, Len(s)))
  BY <1>1, <1>2, SerialCounts
<1>5. Cardinality(Incrementing(s, o, Len(s))) = IF o \in Counters THEN 1 ELSE 0
  BY ThreadIncrements
<1>6. Cardinality(Creating(s, Len(s))) = ThreadsOf(f)
  <2>1. Laid(s, LinesBefore(f), ThreadsOf(f), Child(f))
    BY ThreadLines
  <2>2. LinesBefore(f) \in Nat /\ ThreadsOf(f) \in Nat /\ Len(s) \in Nat
    BY <1>1, ProgramsAssumption DEF LinesBefore, ThreadsOf, Nested
  <2>. QED
    BY <2>1, <2>2, CreatesLaid
<1>. QED
  BY <1>3, <1>4, <1>5, <1>6, Zenon

\* What is created is a function of the program.
LEMMA CreatedIsThere ==
  ASSUME NEW name \in DOMAIN Code, NEW f \in DOMAIN Code[name], NEW i \in 1..Len(Code[name][f]),
         Code[name][f][i].op = "create"
  PROVE  Code[name][f][i].fn \in DOMAIN Code[name] \ {"main"}
<1>1. Code[name][f] \in Seq(Operations(DOMAIN Code[name]))
  BY CodeIsOps
<1>2. PICK x : x = Code[name][f][i]
  OBVIOUS
<1>3. x \in Operations(DOMAIN Code[name])
  BY <1>1, <1>2, Elements
<1>4. \A fs, y : y \in Operations(fs) /\ y.op = "create" => y.fn \in fs \ {"main"}
  BY DEF Operations
<1>. QED
  BY <1>2, <1>3, <1>4

\* Without threads, a program that counts leaves what all its threads count.
LEMMA VerifyingOutcome ==
  ASSUME program \in Verifying, program \in DOMAIN Code, program # "serial"
  PROVE  /\ SerialOutcome(program) \in Heaps
         /\ \A o \in Objects :
              SerialOutcome(program)[o] = IF o \in Counters THEN ThreadNum * (Nested + 1) ELSE 0
<1> DEFINE fs == DOMAIN Code[program]
           one(o) == IF o \in Counters THEN 1 ELSE 0
           all(o) == IF o \in Counters THEN Nested + 1 ELSE 0
           m == Code[program]["main"]
           zero == [x \in Objects |-> 0]
<1>1. ThreadNum \in Nat /\ Nested \in Nat
  BY ProgramsAssumption DEF Nested
<1>2. \A f \in fs \ {"main"} :
        /\ f \in {"fn1", "fn2"}
        /\ Laid(Code[program][f], LinesBefore(f), ThreadsOf(f), Child(f))
  BY ThreadLines
<1>3. ASSUME "fn2" \in fs, NEW h \in Heaps, NEW o \in Objects
      PROVE  /\ OnceCalled(program)["fn2"][h] \in Heaps
             /\ OnceCalled(program)["fn2"][h][o] = h[o] + one(o)
  <2>1. ThreadsOf("fn2") = 0
    BY DEF ThreadsOf
  <2>2. \A i \in 1..Len(Code[program]["fn2"]) : Code[program]["fn2"][i].op # "create"
    <3>1. Laid(Code[program]["fn2"], LinesBefore("fn2"), 0, Child("fn2"))
      BY <1>2, <1>3, <2>1
    <3>2. LinesBefore("fn2") \in Nat
      BY DEF LinesBefore
    <3>. QED
      BY <3>1, <3>2 DEF Laid
  <2>3. CallsAdd(Code[program]["fn2"], NoneCalled(program), o, 0)
    BY <2>2 DEF CallsAdd
  <2>4. /\ Called(program, NoneCalled(program))["fn2"][h] \in Heaps
        /\ Called(program, NoneCalled(program))["fn2"][h][o] = h[o] + one(o) + 0 * 0
    <3>1. "fn2" \in fs \ {"main"} /\ 0 \in Nat
      BY <1>3
    <3>. QED
      BY <2>1, <2>3, <3>1, ThreadAdds
  <2>5. h[o] + one(o) + 0 * 0 = h[o] + one(o)
    <3>1. h[o] \in Nat
      BY DEF Heaps
    <3>. QED
      BY <3>1
  <2>. QED
    BY <2>4, <2>5 DEF OnceCalled
<1>4. ASSUME "fn1" \in fs, NEW h \in Heaps, NEW o \in Objects
      PROVE  /\ TwiceCalled(program)["fn1"][h] \in Heaps
             /\ TwiceCalled(program)["fn1"][h][o] = h[o] + all(o)
  <2>1. ThreadsOf("fn1") = Nested
    BY DEF ThreadsOf
  <2>2. CallsAdd(Code[program]["fn1"], OnceCalled(program), o, one(o))
    <3> SUFFICES ASSUME NEW i \in 1..Len(Code[program]["fn1"]),
                        Code[program]["fn1"][i].op = "create", NEW g \in Heaps
                 PROVE  /\ OnceCalled(program)[Code[program]["fn1"][i].fn][g] \in Heaps
                        /\ OnceCalled(program)[Code[program]["fn1"][i].fn][g][o] = g[o] + one(o)
      BY DEF CallsAdd
    <3>1. Code[program]["fn1"][i].fn = "fn2"
      <4>1. Laid(Code[program]["fn1"], LinesBefore("fn1"), ThreadsOf("fn1"), "fn2")
        BY <1>2, <1>4 DEF Child
      <4>. QED
        BY <4>1 DEF Laid
    <3>2. "fn2" \in fs
      BY <1>4, <3>1, CreatedIsThere
    <3>. QED
      BY <1>3, <3>1, <3>2
  <2>3. /\ Called(program, OnceCalled(program))["fn1"][h] \in Heaps
        /\ Called(program, OnceCalled(program))["fn1"][h][o] = h[o] + one(o) + one(o) * Nested
    <3>1. "fn1" \in fs \ {"main"} /\ one(o) \in Nat
      BY <1>4
    <3> HIDE DEF one
    <3>2. /\ Called(program, OnceCalled(program))["fn1"][h] \in Heaps
          /\ Called(program, OnceCalled(program))["fn1"][h][o] =
               h[o] + (IF o \in Counters THEN 1 ELSE 0) + one(o) * ThreadsOf("fn1")
      BY <2>2, <3>1, ThreadAdds
    <3>. QED
      BY <2>1, <3>2, Zenon DEF one
  <2>4. h[o] + one(o) + one(o) * Nested = h[o] + all(o)
    <3>1. h[o] \in Nat
      BY DEF Heaps
    <3>. QED
      BY <1>1, <3>1
  <2>. QED
    BY <2>3, <2>4 DEF TwiceCalled
<1>5. /\ m \in Seq(Operations(fs)) /\ LoadsFirst(m) /\ PutsZeros(m) /\ "main" \in fs
  <2>1. "main" \in fs /\ program # "order_violation"
    BY DEF Code, Verifying
  <2> HIDE DEF fs, m
  <2>2. Tame(m, "main", fs)
    BY <2>1, CodeTame DEF m, fs
  <2>. QED
    BY <2>1, <2>2 DEF Tame
<1>6. zero \in Heaps /\ PutsKeep(m, zero)
  BY <1>5 DEF Heaps, PutsKeep
<1>7. Laid(m, LinesBefore("main"), ThreadNum, "fn1") /\ \A i \in 1..Len(m) : m[i].op # "increment"
  BY MainLines
<1>8. Cardinality(Creating(m, Len(m))) = ThreadNum
  <2>1. LinesBefore("main") \in Nat /\ Len(m) \in Nat
    BY <1>5 DEF LinesBefore
  <2>. QED
    BY <1>1, <1>7, <2>1, CreatesLaid
<1>9. ASSUME NEW o \in Objects
      PROVE  /\ SerialOutcome(program) \in Heaps
             /\ SerialOutcome(program)[o] = IF o \in Counters THEN ThreadNum * (Nested + 1) ELSE 0
  <2>1. CallsAdd(m, TwiceCalled(program), o, all(o))
    <3> SUFFICES ASSUME NEW i \in 1..Len(m), m[i].op = "create", NEW g \in Heaps
                 PROVE  /\ TwiceCalled(program)[m[i].fn][g] \in Heaps
                        /\ TwiceCalled(program)[m[i].fn][g][o] = g[o] + all(o)
      BY DEF CallsAdd
    <3>1. m[i].fn = "fn1"
      BY <1>7 DEF Laid
    <3>2. "fn1" \in fs
      BY <1>5, <3>1, CreatedIsThere
    <3>. QED
      BY <1>4, <3>1, <3>2
  <2>2. Cardinality(Incrementing(m, o, Len(m))) = 0
    <3>1. Incrementing(m, o, Len(m)) = {}
      BY <1>7 DEF Incrementing, Increment
    <3>. QED
      BY <3>1, FS_EmptySet
  <2>3. all(o) \in Nat
    BY <1>1
  <2> HIDE DEF all
  <2>4. /\ After(m, zero, TwiceCalled(program)) \in Heaps
        /\ After(m, zero, TwiceCalled(program))[o] =
             zero[o] + Cardinality(Incrementing(m, o, Len(m)))
               + all(o) * Cardinality(Creating(m, Len(m)))
    BY <1>5, <1>6, <2>1, <2>3, SerialCounts
  <2>5. zero[o] + 0 + all(o) * ThreadNum =
          IF o \in Counters THEN ThreadNum * (Nested + 1) ELSE 0
    <3>1. zero[o] = 0
      OBVIOUS
    <3>2. all(o) * ThreadNum = IF o \in Counters THEN ThreadNum * (Nested + 1) ELSE 0
      BY <1>1 DEF all
    <3>3. PICK v \in Nat : v = all(o) * ThreadNum
      BY <1>1, <2>3
    <3>4. 0 + 0 + v = v
      OBVIOUS
    <3>. QED
      BY <3>1, <3>2, <3>3, <3>4
  <2>. QED
    BY <1>8, <2>2, <2>4, <2>5, OutcomeOf, Zenon
<1>. QED
  BY <1>9 DEF Objects

\* serial.cc calls nothing.
LEMMA SerialCountsAlone ==
  ASSUME program = "serial", NEW s, s = Code[program]["main"]
  PROVE  /\ SerialOutcome(program) \in Heaps
         /\ \A o \in Objects :
              SerialOutcome(program)[o] = Cardinality(Incrementing(s, o, Len(s)))
<1> DEFINE zero == [x \in Objects |-> 0]
<1>1. /\ program \in DOMAIN Code /\ "main" \in DOMAIN Code[program]
      /\ program # "order_violation"
  BY DEF Code
<1>2. PICK fs : fs = DOMAIN Code[program]
  OBVIOUS
<1>3. s \in Seq(Operations(fs)) /\ LoadsFirst(s) /\ PutsZeros(s)
  <2>1. Tame(s, "main", fs)
    BY <1>1, <1>2, CodeTame
  <2>. QED
    BY <2>1 DEF Tame
<1>4. zero \in Heaps /\ PutsKeep(s, zero)
  BY <1>3 DEF Heaps, PutsKeep
<1>5. \A i \in 1..Len(s) : s[i].op # "create"
  BY SerialLines DEF Plain
<1>6. PICK called : called = TwiceCalled(program)
  OBVIOUS
<1> HIDE DEF zero
<1>7. ASSUME NEW o \in Objects
      PROVE  /\ After(s, zero, called) \in Heaps
             /\ After(s, zero, called)[o] = Cardinality(Incrementing(s, o, Len(s)))
  <2>1. CallsAdd(s, called, o, 0) /\ 0 \in Nat
    BY <1>5 DEF CallsAdd
  <2>2. /\ After(s, zero, called) \in Heaps
        /\ After(s, zero, called)[o] = zero[o] + Cardinality(Incrementing(s, o, Len(s)))
                                         + 0 * Cardinality(Creating(s, Len(s)))
    BY <1>3, <1>4, <2>1, SerialCounts
  <2>3. Len(s) \in Nat
    BY <1>3
  <2>4. /\ Cardinality(Incrementing(s, o, Len(s))) \in Nat
        /\ Cardinality(Creating(s, Len(s))) \in Nat
    BY <2>3, LinesGrow
  <2>5. zero[o] = 0
    BY DEF zero
  <2>. QED
    BY <2>2, <2>4, <2>5
<1>8. SerialOutcome(program) = After(s, zero, called)
  BY <1>6, OutcomeOf DEF zero
<1>. QED
  BY <1>7, <1>8, "a" \in Objects DEF Objects

\* noheap.cc creates and joins.
LEMMA NoheapLines ==
  ASSUME program = "noheap", NEW f \in DOMAIN Code[program]
  PROVE  /\ Code[program][f] \in Seq(Operations(DOMAIN Code[program]))
         /\ \A i \in 1..Len(Code[program][f]) : Code[program][f][i].op \in {"create", "join"}
<1> DEFINE X == [op : {"create"}, fn : {"fn1"}] \cup [op : {"join"}, index : Nat]
           create == CreateAll(ThreadNum, "fn1")
           join == JoinAll(ThreadNum)
<1>1. ThreadNum \in Nat
  BY ProgramsAssumption
<1>2. create \in Seq(X) /\ join \in Seq(X) /\ noheap_fn1 \in Seq(X)
  BY <1>1 DEF CreateAll, JoinAll, Create, Join, noheap_fn1
<1>3. \A x \in X : x.op \in {"create", "join"}
  OBVIOUS
<1>4. noheap_main = create \o join
  BY DEF noheap_main
<1> HIDE DEF X, create, join
<1>5. noheap_main \in Seq(X)
  <2>1. create \o join \in Seq(X)
    BY ONLY <1>2, Concatenated, Zenon
  <2>. QED
    BY <1>4, <2>1, Zenon
<1>6. Code[program] = [main |-> noheap_main, fn1 |-> noheap_fn1]
  BY DEF Code
<1>7. PICK s : s = Code[program][f] /\ s \in Seq(X)
  BY <1>2, <1>5, <1>6
<1>8. \A k \in 1..Len(s) : s[k] \in X
  BY <1>7, Elements, Zenon
<1>9. Code[program][f] \in Seq(Operations(DOMAIN Code[program]))
  BY CodeIsOps DEF Code
<1>. QED
  BY <1>3, <1>7, <1>8, <1>9

LEMMA NoheapOutcome ==
  ASSUME program = "noheap"
  PROVE  /\ SerialOutcome(program) \in Heaps
         /\ \A o \in Objects : SerialOutcome(program)[o] = 0
<1> DEFINE zero == [x \in Objects |-> 0]
<1>1. PICK fs : fs = DOMAIN Code[program]
  OBVIOUS
<1>2. "main" \in fs /\ fs = {"main", "fn1"}
  BY <1>1 DEF Code
<1>3. \A f \in fs : /\ Code[program][f] \in Seq(Operations(fs))
                    /\ \A i \in 1..Len(Code[program][f]) :
                         Code[program][f][i].op \in {"create", "join"}
  BY <1>1, NoheapLines
<1>4. ASSUME NEW f \in fs, NEW h \in Heaps, NEW called, NEW o \in Objects,
             CallsAdd(Code[program][f], called, o, 0)
      PROVE  After(Code[program][f], h, called) \in Heaps
             /\ After(Code[program][f], h, called)[o] = h[o]
  <2>1. PICK s : s = Code[program][f]
    OBVIOUS
  <2>2. /\ s \in Seq(Operations(fs)) /\ Len(s) \in Nat
        /\ \A i \in 1..Len(s) : s[i].op \in {"create", "join"}
    BY <1>3, <2>1
  <2>3. LoadsFirst(s) /\ PutsKeep(s, h)
    BY <2>2 DEF LoadsFirst, PutsKeep, PutsNothing, Increment
  <2>4. /\ After(s, h, called) \in Heaps
        /\ After(s, h, called)[o] = h[o] + Cardinality(Incrementing(s, o, Len(s)))
                                      + 0 * Cardinality(Creating(s, Len(s)))
    <3>1. 0 \in Nat /\ CallsAdd(s, called, o, 0)
      BY <1>4, <2>1
    <3>. QED
      BY <2>2, <2>3, <3>1, SerialCounts
  <2>5. Cardinality(Creating(s, Len(s))) \in Nat /\ h[o] \in Nat
    BY <2>2, LinesGrow DEF Heaps
  <2>6. Cardinality(Incrementing(s, o, Len(s))) = 0
    <3>1. Incrementing(s, o, Len(s)) = {}
      BY <2>2 DEF Incrementing, Increment
    <3>. QED
      BY <3>1, FS_EmptySet
  <2>. QED
    BY <2>1, <2>4, <2>5, <2>6
<1>5. \A o \in Objects : CallsAdd(Code[program]["fn1"], OnceCalled(program), o, 0)
  <2>1. Code[program]["fn1"] = <<>>
    BY DEF Code, noheap_fn1
  <2>. QED
    BY <2>1 DEF CallsAdd
<1>6. \A o \in Objects : CallsAdd(Code[program]["main"], TwiceCalled(program), o, 0)
  <2> SUFFICES ASSUME NEW o \in Objects, NEW i \in 1..Len(Code[program]["main"]),
                      Code[program]["main"][i].op = "create", NEW g \in Heaps
               PROVE  LET f == Code[program]["main"][i].fn
                      IN  TwiceCalled(program)[f][g] \in Heaps
                          /\ TwiceCalled(program)[f][g][o] = g[o] + 0
    BY DEF CallsAdd
  <2>1. program \in DOMAIN Code
    BY DEF Code
  <2>2. Code[program]["main"][i].fn = "fn1" /\ "fn1" \in DOMAIN Code[program]
    BY <1>1, <1>2, <2>1, CreatedIsThere
  <2>3. TwiceCalled(program)["fn1"][g] = After(Code[program]["fn1"], g, OnceCalled(program))
    BY <2>2 DEF TwiceCalled, Called
  <2>4. /\ After(Code[program]["fn1"], g, OnceCalled(program)) \in Heaps
        /\ After(Code[program]["fn1"], g, OnceCalled(program))[o] = g[o]
    <3>1. "fn1" \in fs /\ CallsAdd(Code[program]["fn1"], OnceCalled(program), o, 0)
      BY <1>2, <1>5
    <3>. QED
      BY <1>4, <3>1, Zenon
  <2>5. g[o] + 0 = g[o]
    BY DEF Heaps
  <2>. QED
    BY <2>2, <2>3, <2>4, <2>5
<1>7. zero \in Heaps /\ \A o \in Objects : zero[o] = 0
  BY DEF Heaps
<1>8. SerialOutcome(program) = After(Code[program]["main"], zero, TwiceCalled(program))
  BY OutcomeOf
<1> HIDE DEF zero
<1>9. \A o \in Objects : SerialOutcome(program) \in Heaps /\ SerialOutcome(program)[o] = 0
  BY <1>2, <1>4, <1>6, <1>7, <1>8
<1>. QED
  BY <1>9 DEF Objects

\* What a thread function of order_violation.cc clears.
Cleared(f) == IF f = "fn1" THEN "x" ELSE "y"

LEMMA ViolationThread ==
  ASSUME program = "order_violation", NEW f \in {"fn1", "fn2"}, NEW h \in Heaps, NEW called
  PROVE  /\ After(Code[program][f], h, called) \in Heaps
         /\ \A o \in Objects :
              After(Code[program][f], h, called)[o] =
                IF h[Tested(f)] = 1 /\ o = Cleared(f) THEN 0 ELSE h[o]
<1>1. PICK s : s = Code[program][f]
  OBVIOUS
<1>2. s = <<Load(Tested(f)), PutIf(Cleared(f), 0)>>
  BY <1>1 DEF Code, order_violation_fn1, order_violation_fn2, Tested, Cleared
<1>3. PICK x, y : x = Load(Tested(f)) /\ y = PutIf(Cleared(f), 0)
  OBVIOUS
<1>4. Len(s) = 2 /\ s[1] = x /\ s[2] = y
  BY <1>2, <1>3
<1>5. /\ x.op = "load" /\ x.at = Tested(f) /\ y.op = "put_if" /\ y.at = Cleared(f) /\ y.val = 0
      /\ x \in Operations({}) /\ y \in Operations({})
      /\ Tested(f) \in Objects /\ Cleared(f) \in Objects
  BY <1>3 DEF Load, PutIf, Operations, Objects, Tested, Cleared
<1>n. Len(s) \in Nat
  BY <1>4
<1>6. PICK st : /\ st[0] = [heap |-> h, reg |-> 0]
                /\ \A i \in 1..Len(s) : st[i] = Effect(s[i], st[i - 1], called)
                /\ After(s, h, called) = st[Len(s)].heap
  BY ONLY <1>n, AfterStates
<1>7. /\ st[1] = Effect(x, st[0], called) /\ st[2] = Effect(y, st[1], called)
      /\ After(s, h, called) = st[2].heap
  <2>1. 1 \in 1..Len(s) /\ 2 \in 1..Len(s) /\ 1 - 1 = 0 /\ 2 - 1 = 1
    BY <1>4
  <2>2. st[1] = Effect(s[1], st[1 - 1], called) /\ st[2] = Effect(s[2], st[2 - 1], called)
    BY <1>6, <2>1
  <2>3. st[1] = Effect(x, st[0], called) /\ st[2] = Effect(y, st[1], called)
    BY ONLY <1>4, <2>1, <2>2, Zenon
  <2>. QED
    BY <1>4, <1>6, <2>3
<1>8. st[0] \in States /\ st[0].heap = h
  BY <1>6 DEF States
<1>9. Changes(x, st[0], called, st[1])
  BY <1>5, <1>7, <1>8, EffectOf
<1>10. st[1] \in States /\ st[1].heap = h /\ st[1].reg = h[Tested(f)]
  BY <1>5, <1>8, <1>9 DEF Changes
<1>11. Changes(y, st[1], called, st[2])
  BY <1>5, <1>7, <1>10, EffectOf
<1>12. /\ st[2] \in States
       /\ st[1].reg = 1 => \A o \in Objects : st[2].heap[o] = IF o = Cleared(f) THEN 0 ELSE h[o]
       /\ st[1].reg # 1 => st[2].heap = h
  BY <1>5, <1>10, <1>11 DEF Changes
<1>. QED
  BY <1>1, <1>7, <1>10, <1>12 DEF States

\* fn1, which comes first, finds what main has set.
LEMMA ViolationOutcome ==
  ASSUME program = "order_violation"
  PROVE  /\ SerialOutcome(program) \in Heaps
         /\ \A o \in Objects : SerialOutcome(program)[o] = IF o = "y" THEN 1 ELSE 0
<1> DEFINE zero == [x \in Objects |-> 0]
<1>1. PICK m : m = order_violation_main
  OBVIOUS
<1>2. PICK called : called = TwiceCalled(program)
  OBVIOUS
<1>3. /\ m \in Seq(Operations({"main", "fn1", "fn2"})) /\ Len(m) = 6
      /\ m[1] = Put("x", 1) /\ m[2] = Put("y", 1)
      /\ m[3] = Create("fn1") /\ m[4] = Create("fn2") /\ m[5] = Join(1) /\ m[6] = Join(2)
  BY <1>1, ViolationMain
<1>4. SerialOutcome(program) = After(m, zero, called)
  <2>1. Code[program]["main"] = m
    BY <1>1 DEF Code
  <2>. QED
    BY <1>2, <2>1, OutcomeOf, Zenon
<1>5. zero \in Heaps /\ \A o \in Objects : zero[o] = 0
  BY DEF Heaps
<1> HIDE DEF zero
<1>n. Len(m) \in Nat
  BY <1>3
<1>6. PICK st : /\ st[0] = [heap |-> zero, reg |-> 0]
                /\ \A i \in 1..Len(m) : st[i] = Effect(m[i], st[i - 1], called)
                /\ After(m, zero, called) = st[Len(m)].heap
  BY ONLY <1>n, AfterStates
<1>7. ASSUME NEW i \in 1..6, NEW k \in 0..5, i = k + 1
      PROVE  st[i] = Effect(m[i], st[k], called) /\ m[i] \in Operations({"main", "fn1", "fn2"})
  <2>1. i \in 1..Len(m) /\ i - 1 = k
    BY <1>3, <1>7
  <2>2. st[i] = Effect(m[i], st[i - 1], called)
    BY <1>6, <2>1
  <2>3. st[i] = Effect(m[i], st[k], called)
    BY ONLY <2>1, <2>2, Zenon
  <2>4. m[i] \in Operations({"main", "fn1", "fn2"})
    BY <1>3, <2>1, Elements, Zenon
  <2>. QED
    BY <2>3, <2>4
<1>8. ASSUME NEW f \in {"fn1", "fn2"}, NEW h \in Heaps
      PROVE  /\ called[f][h] \in Heaps
             /\ \A o \in Objects : called[f][h][o] =
                  IF h[Tested(f)] = 1 /\ o = Cleared(f) THEN 0 ELSE h[o]
  <2>1. f \in DOMAIN Code[program]
    BY DEF Code
  <2>2. called[f][h] = After(Code[program][f], h, OnceCalled(program))
    BY <1>2, <2>1 DEF TwiceCalled, Called
  <2>. QED
    BY <2>2, ViolationThread
<1>a. /\ Put("x", 1).op = "put" /\ Put("x", 1).at = "x" /\ Put("x", 1).val = 1
      /\ Put("y", 1).op = "put" /\ Put("y", 1).at = "y" /\ Put("y", 1).val = 1
      /\ Create("fn1").op = "create" /\ Create("fn1").fn = "fn1"
      /\ Create("fn2").op = "create" /\ Create("fn2").fn = "fn2"
      /\ Join(1).op = "join" /\ Join(2).op = "join"
  BY DEF Put, Create, Join
<1>9. st[0] \in States /\ \A o \in Objects : st[0].heap[o] = 0
  BY <1>5, <1>6 DEF States
<1>10. st[1] \in States /\ \A o \in Objects : st[1].heap[o] = IF o = "x" THEN 1 ELSE 0
  <2>1. Changes(m[1], st[0], called, st[1])
    <3>1. st[1] = Effect(m[1], st[0], called) /\ m[1] \in Operations({"main", "fn1", "fn2"})
      BY <1>7
    <3>. QED
      BY <1>3, <1>a, <1>9, <3>1, EffectOf
  <2>. QED
    BY <1>3, <1>a, <1>9, <2>1 DEF Changes
<1>11. st[2] \in States /\ \A o \in Objects : st[2].heap[o] = IF o \in {"x", "y"} THEN 1 ELSE 0
  <2>1. Changes(m[2], st[1], called, st[2])
    <3>1. st[2] = Effect(m[2], st[1], called) /\ m[2] \in Operations({"main", "fn1", "fn2"})
      BY <1>7
    <3>. QED
      BY <1>3, <1>a, <1>10, <3>1, EffectOf
  <2>. QED
    BY <1>3, <1>a, <1>10, <2>1 DEF Changes
<1>12. st[3] \in States /\ \A o \in Objects : st[3].heap[o] = IF o = "y" THEN 1 ELSE 0
  <2>1. st[2].heap \in Heaps /\ "y" \in Objects
    BY <1>11 DEF States, Objects
  <2>2. /\ called["fn1"][st[2].heap] \in Heaps
        /\ \A o \in Objects : called["fn1"][st[2].heap][o] =
             IF st[2].heap["y"] = 1 /\ o = "x" THEN 0 ELSE st[2].heap[o]
    BY <1>8, <2>1 DEF Tested, Cleared
  <2>3. Changes(m[3], st[2], called, st[3])
    <3>1. st[3] = Effect(m[3], st[2], called) /\ m[3] \in Operations({"main", "fn1", "fn2"})
      BY <1>7
    <3>. QED
      BY <1>3, <1>a, <1>11, <2>2, <3>1, EffectOf
  <2>. QED
    BY <1>3, <1>a, <1>11, <2>1, <2>2, <2>3 DEF Changes
<1>13. st[4] \in States /\ \A o \in Objects : st[4].heap[o] = IF o = "y" THEN 1 ELSE 0
  <2>1. st[3].heap \in Heaps /\ "x" \in Objects
    BY <1>12 DEF States, Objects
  <2>2. /\ called["fn2"][st[3].heap] \in Heaps
        /\ \A o \in Objects : called["fn2"][st[3].heap][o] =
             IF st[3].heap["x"] = 1 /\ o = "y" THEN 0 ELSE st[3].heap[o]
    BY <1>8, <2>1 DEF Tested, Cleared
  <2>3. Changes(m[4], st[3], called, st[4])
    <3>1. st[4] = Effect(m[4], st[3], called) /\ m[4] \in Operations({"main", "fn1", "fn2"})
      BY <1>7
    <3>. QED
      BY <1>3, <1>a, <1>12, <2>2, <3>1, EffectOf
  <2>4. st[3].heap["x"] # 1
    BY <1>12, <2>1
  <2>. QED
    BY <1>3, <1>a, <1>12, <2>2, <2>3, <2>4 DEF Changes
<1>14. st[5] \in States /\ st[5].heap = st[4].heap
  <2>1. Changes(m[5], st[4], called, st[5])
    <3>1. st[5] = Effect(m[5], st[4], called) /\ m[5] \in Operations({"main", "fn1", "fn2"})
      BY <1>7
    <3>. QED
      BY <1>3, <1>a, <1>13, <3>1, EffectOf
  <2>. QED
    BY <1>3, <1>a, <2>1 DEF Changes
<1>15. st[6] \in States /\ st[6].heap = st[5].heap
  <2>1. Changes(m[6], st[5], called, st[6])
    <3>1. st[6] = Effect(m[6], st[5], called) /\ m[6] \in Operations({"main", "fn1", "fn2"})
      BY <1>7
    <3>. QED
      BY <1>3, <1>a, <1>14, <3>1, EffectOf
  <2>. QED
    BY <1>3, <1>a, <2>1 DEF Changes
<1>16. SerialOutcome(program) = st[6].heap
  BY <1>3, <1>4, <1>6
<1>. QED
  BY <1>13, <1>14, <1>15, <1>16 DEF States

-----------------------------------------------------------------------------
(* A program has come to its end *)

\* No thread runs behind the end of its function.
InsideBody(p) == stack[p].pc <= Len(Body(p)) + 1

\* wrapped_main exits only when it has joined main.
RootEnds ==
  phase[Root] = "exited" \/ call[Root].op = "exit" => \E c \in Procs : parent[c] = Root

\* A section that has ended for another reason than a call ends its function.
CallEnds(p) ==
  phase[p] \in {"waiting", "validating", "ended", "exited"} =>
    AtEnd(p) \/ (phase[p] # "exited" /\ call[p].op \in {"create", "join"})

EndInv == RootEnds /\ \A p \in Born : InsideBody(p) /\ CallEnds(p)

\* What wrapped_main has created is a thread.
MainIsBorn == \A c \in Procs : parent[c] = Root => c \in Born

LEMMA MainKnown == Spec => []MainIsBorn
<1>1. GP!FamilyInv => MainIsBorn
  <2> SUFFICES ASSUME GP!FamilyInv, NEW c \in Procs, parent[c] = Root PROVE c \in Born
    BY DEF MainIsBorn
  <2>1. c \in before[Root] /\ Root \notin before[Root]
    BY SystemAssumption DEF GP!FamilyInv, GP!ChildrenBefore, GP!NotBeforeItself
  <2>2. phase[c] # "unborn"
    BY SystemAssumption DEF GP!FamilyInv, GP!UnbornUnrelated
  <2>. QED
    BY <2>1, <2>2 DEF Born
<1>2. GP!Spec => []GP!FamilyInv
  BY ThreadsAssumption, GP!FamilyInvariant
<1>. QED
  BY <1>1, <1>2, StepsOfGThread, SameSpec, PTL

LEMMA BodyLength ==
  ASSUME Shapes, NEW p \in Procs
  PROVE  Len(Body(p)) \in Nat /\ stack[p].pc \in Nat \ {0}
<1>1. program \in DOMAIN Code /\ stack[p].fn \in DOMAIN Code[program] /\ stack[p].pc \in Nat \ {0}
  BY SystemAssumption DEF Shapes, Frames
<1>2. Body(p) \in Seq(Operations(DOMAIN Code[program]))
  BY <1>1, CodeIsOps DEF Body
<1>. QED
  BY <1>1, <1>2

LEMMA BodyGoesOn ==
  ASSUME Shapes, NEW p \in Procs, ~AtEnd(p), stack'[p].fn = stack[p].fn,
         stack'[p].pc = stack[p].pc + 1, UNCHANGED program
  PROVE  InsideBody(p)'
<1>1. Len(Body(p)) \in Nat /\ stack[p].pc \in Nat
  BY BodyLength
<1>2. Body(p)' = Body(p)
  BY DEF Body
<1>. QED
  BY <1>1, <1>2 DEF InsideBody, AtEnd, Body

LEMMA BodyStays ==
  ASSUME NEW p, InsideBody(p), stack'[p] = stack[p], UNCHANGED program
  PROVE  InsideBody(p)'
BY DEF InsideBody, Body

LEMMA EndStays ==
  ASSUME NEW p, CallEnds(p), UNCHANGED <<stack[p], phase[p], call[p]>>, UNCHANGED program
  PROVE  CallEnds(p)'
BY DEF CallEnds, AtEnd

LEMMA ProgramEnds ==
  ASSUME Control, Threads, EndInv, NEW p \in Procs, ProgramStep(p)
  PROVE  EndInv'
<1>1. /\ Shapes /\ p \in Born /\ ~AtEnd(p) /\ UNCHANGED <<phase, call, parent, program>>
      /\ stack'[p].fn = stack[p].fn /\ stack'[p].pc = stack[p].pc + 1
      /\ \A q \in Procs \ {p} : stack'[q] = stack[q]
  BY ProgramEffect DEF Control
<1>2. InsideBody(p)' /\ \A q \in Born \ {p} : InsideBody(q)'
  BY <1>1, BodyGoesOn, BodyStays DEF EndInv, Born
<1>3. CallEnds(p)' /\ \A q \in Born \ {p} : CallEnds(q)'
  <2>1. phase'[p] = "running"
    BY <1>1 DEF ProgramStep, LoadStep, StoreStep, SkipStep, RequireStep, MutexStep, At, Running
  <2>. QED
    BY <1>1, <2>1, EndStays DEF EndInv, CallEnds, Born
<1>. QED
  BY <1>1, <1>2, <1>3 DEF EndInv, RootEnds, Born

LEMMA PhaseEnds ==
  ASSUME Control, Threads, EndInv, NEW p \in Procs, Calling(p) \/ PredecessorExited(p) \/ Exit(p)
  PROVE  EndInv'
<1>1. Shapes /\ phase[Root] \notin {"unborn", "waiting"}
  BY DEF Control, RootAlone
<1>2. /\ UNCHANGED <<program, stack, parent>> /\ \A q \in Procs \ {p} : Same(q)
      /\ \/ phase[p] = "running" /\ phase'[p] \in {"waiting", "ended"}
         \/ phase[p] = "waiting" /\ phase'[p] = "validating"
         \/ phase[p] = "ended" /\ phase'[p] = "exited"
  BY <1>1, PhaseEffect DEF programVars
<1>3. Born' = Born
  BY <1>2 DEF Born, Same
<1>4. RootEnds'
  <2>1. CASE p # Root
    BY <1>2, <2>1, SystemAssumption DEF EndInv, RootEnds, Same
  <2>2. CASE p = Root /\ Calling(p)
    <3>1. G!WrappedMain
      BY <2>2 DEF Calling, At, Joins, Running
    <3>2. phase'[Root] # "exited"
      BY <1>2, <2>2, <3>1 DEF G!WrappedMain, G!EndSection
    <3>3. ASSUME NEW what, G!EndSection(Root, what) PROVE call'[Root] = what
      BY <3>3, SystemAssumption DEF G!EndSection, Threads
    <3>4. CASE G!Children(Root) \cap joined # {}
      BY <1>2, <3>4 DEF RootEnds, G!Children
    <3>5. CASE G!EndSection(Root, [op |-> "create", slot |-> 0])
      BY <3>2, <3>3, <3>5 DEF RootEnds
    <3>6. CASE \E t : G!EndSection(Root, [op |-> "join", thread |-> t])
      BY <3>2, <3>3, <3>6 DEF RootEnds
    <3>. QED
      BY <3>1, <3>4, <3>5, <3>6 DEF G!WrappedMain
  <2>3. CASE p = Root /\ PredecessorExited(p)
    BY <1>1, <2>3 DEF PredecessorExited, G!PredecessorExited
  <2>4. CASE p = Root /\ Exit(p)
    BY <1>2, <2>4 DEF Exit, G!Exit, EndInv, RootEnds
  <2>. QED
    BY <2>1, <2>2, <2>3, <2>4
<1>5. \A q \in Born : InsideBody(q)'
  BY <1>2, BodyStays DEF EndInv
<1>6. ASSUME p \in Born PROVE CallEnds(p)'
  <2>1. AtEnd(p)' <=> AtEnd(p)
    BY <1>2 DEF AtEnd
  <2>2. CASE Calling(p)
    <3>1. ASSUME NEW what, G!EndSection(p, what)
          PROVE  call'[p] = what /\ phase'[p] # "exited"
      BY <3>1 DEF G!EndSection, G!Goto, Threads
    <3>2. CASE At(p, "create") /\ G!CallCreate(p)
      BY <3>1, <3>2 DEF G!CallCreate, CallEnds
    <3>3. CASE \E t \in Procs : Joins(p, t) /\ G!CallJoin(p, t)
      BY <3>1, <3>3 DEF G!CallJoin, CallEnds
    <3>4. CASE Running(p) /\ AtEnd(p)
      BY <2>1, <3>4 DEF CallEnds
    <3>. QED
      BY <1>6, <2>2, <3>2, <3>3, <3>4 DEF Calling, Born
  <2>3. CASE PredecessorExited(p)
    <3>1. phase[p] = "waiting" /\ phase'[p] = "validating" /\ call'[p] = call[p]
      BY <2>3 DEF PredecessorExited, G!PredecessorExited, G!Goto, Threads
    <3>. QED
      BY <1>6, <2>1, <3>1 DEF EndInv, CallEnds
  <2>4. CASE Exit(p)
    <3>1. phase[p] = "ended" /\ call[p].op = "exit"
      BY <2>4 DEF Exit, G!Exit
    <3>. QED
      BY <1>6, <2>1, <3>1 DEF EndInv, CallEnds
  <2>. QED
    BY <2>2, <2>3, <2>4
<1>7. \A q \in Born \ {p} : CallEnds(q)'
  BY <1>2, EndStays DEF EndInv, Same, Born
<1>. QED
  BY <1>3, <1>4, <1>5, <1>6, <1>7 DEF EndInv

LEMMA CommitEnds ==
  ASSUME Control, Threads, EndInv, NEW p \in Procs, Commit(p)
  PROVE  EndInv'
<1>1. /\ UNCHANGED <<program, stack, parent, call>> /\ \A q \in Procs \ {p} : Same(q)
      /\ phase[p] = "validating" /\ phase'[p] = "ended"
  BY CommitEffect DEF Control, programVars
<1>2. Born' = Born
  BY <1>1 DEF Born, Same
<1>3. phase'[Root] = "exited" => phase[Root] = "exited"
  BY <1>1, SystemAssumption DEF Same
<1>4. \A q \in Born : InsideBody(q)'
  BY <1>1, BodyStays DEF EndInv
<1>5. p \in Born => CallEnds(p)'
  BY <1>1 DEF EndInv, CallEnds, AtEnd
<1>6. \A q \in Born \ {p} : CallEnds(q)'
  BY <1>1, EndStays DEF EndInv, Same, Born
<1>. QED
  BY <1>1, <1>2, <1>3, <1>4, <1>5, <1>6 DEF EndInv, RootEnds

LEMMA ResumeEnds ==
  ASSUME Control, Threads, EndInv, NEW p \in Procs, Rollback(p) \/ JoinReturns(p)
  PROVE  EndInv'
<1>1. /\ Begins({p}) /\ UNCHANGED parent /\ call'[p] = G!NoCall
      /\ \/ phase[p] = "validating" /\ stack'[p] = checkpoint[p]
         \/ /\ phase[p] = "ended" /\ call[p].op = "join"
            /\ stack'[p].fn = stack[p].fn /\ stack'[p].pc = stack[p].pc + 1
  BY RollbackEffect, JoinEffect DEF Control
<1>2. /\ phase'[p] = "running" /\ UNCHANGED program
      /\ \A q \in Procs \ {p} : Same(q)
  BY <1>1 DEF Begins
<1>3. Born' = Born
  BY <1>1, <1>2 DEF Born, Same
<1>4. RootEnds'
  BY <1>1, <1>2, SystemAssumption DEF EndInv, RootEnds, Same, G!NoCall
<1>5. p \in Born => InsideBody(p)'
  <2> SUFFICES ASSUME p \in Born PROVE InsideBody(p)'
    OBVIOUS
  <2>1. SectionRunsOn(p) /\ Shapes
    BY DEF Control
  <2>2. CASE stack'[p] = checkpoint[p]
    <3>1. checkpoint[p].pc \in Nat /\ checkpoint[p].fn = stack[p].fn
          /\ checkpoint[p].pc <= stack[p].pc
      BY <2>1 DEF SectionRunsOn, Shapes, Frames
    <3>2. Body(p)' = Body(p)
      BY <1>2, <2>2, <3>1 DEF Body
    <3>3. stack[p].pc <= Len(Body(p)) + 1 /\ Len(Body(p)) \in Nat /\ stack[p].pc \in Nat
      BY <2>1, BodyLength DEF EndInv, InsideBody
    <3>. QED
      BY <2>2, <3>1, <3>2, <3>3 DEF InsideBody
  <2>3. CASE /\ phase[p] = "ended" /\ call[p].op = "join"
             /\ stack'[p].fn = stack[p].fn /\ stack'[p].pc = stack[p].pc + 1
    BY <1>2, <2>1, <2>3, BodyGoesOn DEF SectionRunsOn
  <2>. QED
    BY <1>1, <2>2, <2>3
<1>6. \A q \in Born \ {p} : InsideBody(q)'
  BY <1>2, BodyStays DEF EndInv, Same, Born
<1>7. CallEnds(p)' /\ \A q \in Born \ {p} : CallEnds(q)'
  BY <1>2, EndStays DEF EndInv, CallEnds, Same, Born
<1>. QED
  BY <1>3, <1>4, <1>5, <1>6, <1>7 DEF EndInv

LEMMA ForkEnds ==
  ASSUME Control, Threads, EndInv, NEW p \in Procs, NEW c \in Procs, Fork(p, c)
  PROVE  EndInv'
<1>p. phase[p] = "ended" /\ call[p].op = "create"
  BY DEF Fork, G!Fork
<1>1. Shapes /\ (p # Root => ~AtEnd(p) /\ Op(p).op = "create" /\ p \in Born)
  BY <1>p DEF Control, SectionRunsOn, Born
<1>2. /\ c # p /\ Begins({p, c}) /\ phase[c] = "unborn" /\ call'[p] = G!NoCall
      /\ parent' = [parent EXCEPT ![c] = p]
      /\ stack'[p].fn = stack[p].fn /\ stack'[p].pc = stack[p].pc + 1
      /\ stack'[c] = Enter(IF p = Root THEN "main" ELSE Op(p).fn)
  BY <1>1, ForkEffect
<1>3. /\ UNCHANGED program /\ Shapes'
      /\ phase'[p] = "running" /\ phase'[c] = "running"
      /\ \A q \in Procs \ {p, c} : Same(q)
  BY <1>2 DEF Begins
<1>4. c # Root /\ Born' = Born \cup {c}
  BY <1>p, <1>2, <1>3 DEF Control, RootAlone, Born, Same
<1>5. RootEnds'
  <2>1. parent[c] = NoPid /\ NoPid # Root
    BY <1>2, SystemAssumption DEF Threads
  <2>2. \A q \in Procs : parent[q] = Root => parent'[q] = Root
    BY <1>2, <2>1 DEF Threads
  <2>. QED
    BY <1>2, <1>3, <1>4, <2>2, SystemAssumption DEF EndInv, RootEnds, Same, G!NoCall
<1>6. InsideBody(c)'
  <2>1. stack'[c].pc = 1
    BY <1>2 DEF Enter
  <2>2. Len(Body(c)') \in Nat
    <3>1. program' \in DOMAIN Code /\ stack'[c].fn \in DOMAIN Code[program']
      BY <1>3, SystemAssumption DEF Shapes, Frames
    <3>2. Body(c)' \in Seq(Operations(DOMAIN Code[program']))
      BY <3>1, CodeIsOps DEF Body
    <3>. QED
      BY <3>2
  <2>. QED
    BY <2>1, <2>2 DEF InsideBody
<1>7. p # Root => InsideBody(p)'
  BY <1>1, <1>2, <1>3, BodyGoesOn
<1>8. \A q \in Born \ {p} : InsideBody(q)'
  <2>1. \A q \in Born \ {p} : stack'[q] = stack[q]
    BY <1>2, <1>3 DEF Born, Same
  <2>. QED
    BY <1>3, <2>1, BodyStays DEF EndInv
<1>9. /\ CallEnds(p)' /\ CallEnds(c)'
      /\ \A q \in Born \ {p} : CallEnds(q)'
  <2>1. \A q \in Born \ {p} : UNCHANGED <<stack[q], phase[q], call[q]>>
    BY <1>2, <1>3 DEF Born, Same
  <2>. QED
    BY <1>3, <2>1, EndStays DEF EndInv, CallEnds
<1>. QED
  BY <1>4, <1>5, <1>6, <1>7, <1>8, <1>9 DEF EndInv, Born

LEMMA InitEnds == Init => EndInv
<1> SUFFICES ASSUME Init PROVE EndInv
  OBVIOUS
<1>1. phase[Root] = "running" /\ call[Root].op = "none"
  BY SystemAssumption DEF Init, G!Init, G!NoCall
<1>2. Born = {}
  BY DEF Init, G!Init, Born
<1>. QED
  BY <1>1, <1>2 DEF EndInv, RootEnds

LEMMA NextEnds == Control /\ Threads /\ EndInv /\ [Next]_vars => EndInv'
<1> SUFFICES ASSUME Control, Threads, EndInv, [Next]_vars PROVE EndInv'
  OBVIOUS
<1>1. CASE UNCHANGED vars \/ Terminated
  BY <1>1 DEF Terminated, vars, gvars, programVars, EndInv, RootEnds, InsideBody, CallEnds, AtEnd,
                   Born, Body
<1>. QED
  BY <1>1, ProgramEnds, PhaseEnds, CommitEnds, ResumeEnds, ForkEnds DEF Next, Library

AllEnded == \A p \in Procs : phase[p] \in {"unborn", "exited"}

\* Nobody has counted an object that is in no line of a thread.
LEMMA NotCounted ==
  ASSUME Control, EndInv, program # "order_violation", HeapCounts, NEW o \in Objects,
         \A q \in Born : \A i \in 1..Len(Body(q)) : Body(q)[i] # Increment(o)
  PROVE  heap[o] = 0
<1>1. ASSUME NEW q \in Born PROVE Counted(q, o) = {}
  <2>1. /\ stack[q].pc \in Nat \ {0} /\ Len(Body(q)) \in Nat /\ stack[q].pc <= Len(Body(q)) + 1
        /\ checkpoint[q].pc \in Nat \ {0} /\ checkpoint[q].pc <= stack[q].pc
    BY BodyLength DEF EndInv, InsideBody, Born, Control, SectionRunsOn, Shapes, Frames
  <2>2. Committed(q) \subseteq 1..Len(Body(q))
    BY <2>1 DEF Committed
  <2>. QED
    BY <2>2 DEF Counted
<1>2. Applied(o) = {}
  BY <1>1 DEF Applied
<1>. QED
  BY <1>2, FS_EmptySet DEF HeapCounts

\* In the end main, in a program that counts, has joined its threads.
LEMMA MainEnded ==
  ASSUME Control, EndInv, MainIsBorn, Families, program \in Verifying, AllEnded
  PROVE  \E p \in Born : /\ stack[p].fn = "main" /\ phase[p] = "exited" /\ AtEnd(p)
                         /\ stack[p].pc > LastJoin("main")
<1>1. phase[Root] = "exited"
  BY SystemAssumption DEF Control, RootAlone, AllEnded
<1>2. PICK p \in Born : parent[p] = Root
  BY <1>1 DEF EndInv, RootEnds, MainIsBorn
<1>3. p \in Procs /\ phase[p] = "exited" /\ Root \notin Born
  BY DEF AllEnded, Born
<1>4. stack[p].fn = "main" /\ AtEnd(p)
  BY <1>2, <1>3 DEF Families, FamilyOf, HasCreator, CallStands
<1>5. stack[p].pc > LastJoin(stack[p].fn)
  BY <1>3, <1>4, ExitedJoined DEF Control, LastJoin
<1>. QED
  BY <1>3, <1>4, <1>5

LEMMA CountersEnd ==
  ASSUME Control, EndInv, MainIsBorn, JoinedExited, Families, HeapCounts,
         program \in Verifying, program # "serial", AllEnded, NEW o \in Objects
  PROVE  heap[o] = SerialOutcome(program)[o]
<1>1. program \in DOMAIN Code
  BY SystemAssumption DEF Control, Shapes
<1>2. PICK p \in Born : stack[p].fn = "main" /\ stack[p].pc > LastJoin("main")
  BY MainEnded
<1>3. SerialOutcome(program)[o] = IF o \in Counters THEN ThreadNum * (Nested + 1) ELSE 0
  BY <1>1, VerifyingOutcome
<1>4. CASE o \in Counters
  <2>1. Cardinality(Applied(o)) = ThreadNum * (Nested + 1)
    BY <1>2, <1>4, AllCounted
  <2>. QED
    BY <1>3, <1>4, <2>1, Zenon DEF HeapCounts
<1>5. CASE o \notin Counters
  <2>1. ASSUME NEW q \in Born, NEW i \in 1..Len(Body(q)) PROVE Body(q)[i] # Increment(o)
    <3>1. Increment(o).op = "increment" /\ Increment(o).at = o
      BY DEF Increment
    <3>2. CASE stack[q].fn = "main"
      <4>1. Body(q)[i].op # "increment"
        BY <3>2, MainLines DEF Body
      <4>. QED
        BY <3>1, <4>1
    <3>3. CASE stack[q].fn # "main"
      <4>1. stack[q].fn \in DOMAIN Code[program]
        BY DEF Control, Shapes, Frames, Born
      <4>2. Within(Body(q), Counters)
        BY <1>1, <3>3, <4>1, ThreadsWithin DEF Body
      <4>. QED
        BY <1>5, <3>1, <4>2 DEF Within
    <3>. QED
      BY <3>2, <3>3
  <2>2. program # "order_violation"
    BY DEF Verifying
  <2>3. heap[o] = 0
    BY <2>1, <2>2, NotCounted
  <2>. QED
    BY <1>3, <1>5, <2>3
<1>. QED
  BY <1>4, <1>5

LEMMA SerialEnds ==
  ASSUME Control, EndInv, MainIsBorn, JoinedExited, Families, HeapCounts,
         program = "serial", AllEnded, NEW o \in Objects
  PROVE  heap[o] = SerialOutcome(program)[o]
<1>1. program \in Verifying /\ LastJoin("main") = 0 /\ ThreadsOf("main") = 0
  BY DEF Verifying, LastJoin, ThreadsOf
<1>2. PICK p \in Born : /\ stack[p].fn = "main" /\ phase[p] = "exited" /\ AtEnd(p)
                        /\ stack[p].pc > LastJoin("main")
  BY <1>1, MainEnded
<1>3. Born = {p}
  <2>1. Len(stack[p].threads) = 0
    BY <1>1, <1>2, OthersDone
  <2>. QED
    BY <1>1, <1>2, <2>1, Descent
<1>4. PICK s : s = Code[program]["main"] /\ s = Body(p)
  BY <1>2 DEF Body
<1>5. Len(s) \in Nat /\ stack[p].pc \in Nat /\ stack[p].pc = Len(s) + 1
  <2>1. Len(s) \in Nat /\ stack[p].pc \in Nat
    BY <1>4, BodyLength DEF Control, Born
  <2>2. stack[p].pc > Len(s) /\ stack[p].pc <= Len(s) + 1
    BY <1>2, <1>4 DEF AtEnd, Body, EndInv, InsideBody
  <2>. QED
    BY <2>1, <2>2
<1>6. Counted(p, o) = Incrementing(s, o, Len(s))
  <2>1. Committed(p) = 1..Len(s)
    BY <1>2, <1>5 DEF Committed, G!Open
  <2>. QED
    BY <1>4, <2>1 DEF Counted, Incrementing
<1>7. Applied(o) = {p} \X Counted(p, o)
  BY <1>3 DEF Applied
<1>8. Cardinality(Applied(o)) = Cardinality(Counted(p, o))
  <2>1. IsFiniteSet(1..Len(s))
    BY <1>5, FS_Interval
  <2>2. IsFiniteSet(Counted(p, o))
    BY <1>6, <2>1, FS_Subset DEF Incrementing
  <2>3. IsFiniteSet({p}) /\ Cardinality({p}) = 1
    BY FS_Singleton
  <2>4. Cardinality({p} \X Counted(p, o)) = 1 * Cardinality(Counted(p, o))
    BY <2>2, <2>3, FS_Product
  <2>5. Cardinality(Counted(p, o)) \in Nat
    BY <2>2, FS_CardinalityType
  <2>. QED
    BY <1>7, <2>4, <2>5
<1>9. SerialOutcome(program)[o] = Cardinality(Incrementing(s, o, Len(s)))
  BY <1>4, SerialCountsAlone
<1>. QED
  BY <1>6, <1>8, <1>9 DEF HeapCounts

LEMMA NoheapEnds ==
  ASSUME Control, EndInv, HeapCounts, program = "noheap", NEW o \in Objects
  PROVE  heap[o] = SerialOutcome(program)[o]
<1>1. ASSUME NEW q \in Born, NEW i \in 1..Len(Body(q)) PROVE Body(q)[i] # Increment(o)
  <2>1. stack[q].fn \in DOMAIN Code[program]
    BY DEF Control, Shapes, Frames, Born
  <2>2. Body(q)[i].op \in {"create", "join"}
    BY <2>1, NoheapLines DEF Body
  <2>3. Increment(o).op = "increment"
    BY DEF Increment
  <2>. QED
    BY <2>2, <2>3
<1>2. heap[o] = 0
  BY <1>1, NotCounted
<1>. QED
  BY <1>2, NoheapOutcome

\* The heap is what the program leaves there without threads.
LEMMA CountingEnds ==
  ASSUME Control, EndInv, MainIsBorn, JoinedExited, program \in Verifying => Families,
         HeapCounts, program # "order_violation", AllEnded
  PROVE  heap = SerialOutcome(program)
<1>1. program \in Verifying \cup {"noheap"}
  BY SystemAssumption DEF Control, Shapes, Verifying, Code
<1>2. heap \in Heaps
  BY DEF Control, Shapes, Heaps
<1>3. SerialOutcome(program) \in Heaps
  <2>1. program \in DOMAIN Code
    BY SystemAssumption DEF Control, Shapes
  <2>. QED
    BY <1>1, <2>1, VerifyingOutcome, SerialCountsAlone, NoheapOutcome
<1>4. \A o \in Objects : heap[o] = SerialOutcome(program)[o]
  <2>1. CASE program = "serial"
    <3>1. program \in Verifying
      BY <2>1 DEF Verifying
    <3>. QED
      BY <2>1, <3>1, SerialEnds
  <2>2. CASE program = "noheap"
    BY <2>2, NoheapEnds
  <2>3. CASE program \in Verifying /\ program # "serial"
    BY <2>3, CountersEnd
  <2>. QED
    BY <1>1, <2>1, <2>2, <2>3
<1>5. \A g, h \in Heaps : (\A o \in Objects : g[o] = h[o]) => g = h
  BY DEF Heaps
<1>. QED
  BY <1>2, <1>3, <1>4, <1>5

LEMMA ViolationCalls ==
  ASSUME Shapes, program = "order_violation", NEW p \in Procs
  PROVE  /\ stack[p].fn \in {"main", "fn1", "fn2"}
         /\ AtEnd(p) => stack[p].pc > IF stack[p].fn = "main" THEN 6 ELSE 2
         /\ ~AtEnd(p) /\ stack[p].fn = "main" =>
              /\ stack[p].pc = 3 => Op(p).op = "create" /\ Op(p).fn = "fn1"
              /\ stack[p].pc = 4 => Op(p).op = "create" /\ Op(p).fn = "fn2"
              /\ stack[p].pc > 4 => Op(p).op = "join"
         /\ ~AtEnd(p) /\ stack[p].fn # "main" /\ stack[p].pc = 2 =>
              Op(p).at = Cleared(stack[p].fn) /\ Op(p).val = 0
<1>1. Code[program] = [main |-> order_violation_main,
                       fn1 |-> order_violation_fn1, fn2 |-> order_violation_fn2]
  BY DEF Code
<1>2. stack[p].fn \in {"main", "fn1", "fn2"} /\ stack[p].pc \in Nat \ {0}
  BY <1>1 DEF Shapes, Frames
<1>3. CASE stack[p].fn = "main"
  <2>1. PICK m : m = order_violation_main
    OBVIOUS
  <2>2. /\ Len(m) = 6 /\ m[3] = Create("fn1") /\ m[4] = Create("fn2")
        /\ m[5] = Join(1) /\ m[6] = Join(2)
    BY <2>1, ViolationMain
  <2>3. /\ AtEnd(p) <=> stack[p].pc > Len(m)
        /\ Op(p) = m[stack[p].pc]
    BY <1>1, <1>3, <2>1 DEF AtEnd, Op
  <2>4. \A f : /\ Create(f).op = "create" /\ Create(f).fn = f /\ Join(f).op = "join"
    BY DEF Create, Join
  <2>5. /\ stack[p].pc = 3 => Op(p) = Create("fn1")
        /\ stack[p].pc = 4 => Op(p) = Create("fn2")
        /\ ~AtEnd(p) /\ stack[p].pc > 4 => Op(p) \in {Join(1), Join(2)}
        /\ AtEnd(p) => stack[p].pc > 6
    <3>1. ~AtEnd(p) /\ stack[p].pc > 4 => stack[p].pc \in {5, 6}
      BY <1>2, <2>2, <2>3
    <3>. QED
      BY <2>2, <2>3, <3>1
  <2>. QED
    BY <1>2, <1>3, <2>4, <2>5
<1>4. CASE stack[p].fn \in {"fn1", "fn2"}
  <2>1. PICK s : s = Code[program][stack[p].fn]
    OBVIOUS
  <2>2. s = <<Load(Tested(stack[p].fn)), PutIf(Cleared(stack[p].fn), 0)>>
    BY <1>1, <1>4, <2>1 DEF order_violation_fn1, order_violation_fn2, Tested, Cleared
  <2>3. Len(s) = 2 /\ s[2] = PutIf(Cleared(stack[p].fn), 0)
    BY <2>2
  <2>4. (AtEnd(p) <=> stack[p].pc > 2) /\ (stack[p].pc = 2 => Op(p) = s[2])
    BY <2>1, <2>3 DEF AtEnd, Op
  <2>. QED
    BY <1>2, <1>4, <2>3, <2>4 DEF PutIf
<1>. QED
  BY <1>2, <1>3, <1>4

\* A thread of order_violation.cc ends a section only at the end of its function.
LEMMA ThreadRuns ==
  ASSUME Control, EndInv, program = "order_violation", NEW p \in Born, stack[p].fn # "main"
  PROVE  /\ ~AtEnd(p) => Op(p).op \notin {"create", "join"}
         /\ phase[p] \in {"waiting", "validating", "ended"} => call[p].op \notin {"create", "join"}
         /\ phase[p] \in {"waiting", "validating", "ended", "exited"} =>
              AtEnd(p) /\ stack[p].pc > 2
<1>1. p \in Procs /\ Shapes /\ stack[p].pc \in Nat \ {0}
  BY DEF Born, Control, Shapes, Frames
<1>2. ~AtEnd(p) => Op(p).op \in {"load", "put_if"}
  BY <1>1, ViolationLines
<1>3. phase[p] \in {"waiting", "validating", "ended"} => call[p].op \notin {"create", "join"}
  BY <1>2 DEF Control, SectionRunsOn
<1>4. phase[p] \in {"waiting", "validating", "ended", "exited"} => AtEnd(p)
  BY <1>3 DEF EndInv, CallEnds
<1>. QED
  BY <1>1, <1>2, <1>3, <1>4, ViolationCalls

-----------------------------------------------------------------------------
(* Nobody writes to anything but x and y *)

Unused == {"a", "b", "c"}

UnusedInv == \A o \in Unused : heap[o] = 0 /\ \A p \in Procs : Value(p, o) = 0

LEMMA UnusedStays ==
  ASSUME NEW o \in Unused, NEW q \in Procs, heap[o] = 0, heap'[o] = 0, Value(q, o) = 0,
         \/ UNCHANGED <<writes[q], copies[q]>>
         \/ writes'[q] = {}
  PROVE  Value(q, o)' = 0
BY DEF Value, Page

LEMMA NextUnused ==
  Control /\ Threads /\ UnusedInv /\ program = "order_violation" /\ [Next]_vars => UnusedInv'
<1> SUFFICES ASSUME Control, Threads, UnusedInv, program = "order_violation", [Next]_vars,
                    NEW o \in Unused
             PROVE  heap'[o] = 0 /\ \A q \in Procs : Value(q, o)' = 0
  BY DEF UnusedInv
<1>1. Shapes /\ o \in Objects /\ heap[o] = 0 /\ \A q \in Procs : Value(q, o) = 0
  BY DEF Control, UnusedInv, Unused, Objects
<1>2. CASE UNCHANGED vars \/ Terminated
  BY <1>1, <1>2, UnusedStays DEF Terminated, vars, heapVars
<1>3. ASSUME NEW p \in Procs, ProgramStep(p) PROVE heap'[o] = 0 /\ \A q \in Procs : Value(q, o)' = 0
  <2>1. /\ ~AtEnd(p) /\ UNCHANGED heap
        /\ \A q \in Procs \ {p} : writes'[q] = writes[q] /\ copies'[q] = copies[q]
    BY <1>1, <1>3, ProgramEffect
  <2>2. \A q \in Procs \ {p} : Value(q, o)' = 0
    BY <1>1, <2>1, UnusedStays
  <2>3. CASE UNCHANGED <<copies, writes>>
    BY <1>1, <2>1, <2>3, UnusedStays
  <2>4. CASE \E v : Write(p, Op(p).at, v)
    <3>1. PICK v : Write(p, Op(p).at, v)
      BY <2>4
    <3>2. Op(p).op \in {"increment", "put", "put_if"} \/ UNCHANGED <<copies, writes>>
      BY <1>3 DEF ProgramStep, LoadStep, StoreStep, SkipStep, RequireStep, MutexStep, At,
                  heapVars
    <3>3. stack[p].pc \in Nat \ {0}
      BY <1>1 DEF Shapes, Frames
    <3>4. UNCHANGED <<copies, writes>> \/ Op(p).at \in {"x", "y"}
      <4>1. ~(UNCHANGED <<copies, writes>>) => Op(p).op \in {"put", "put_if"}
        BY <1>1, <2>1, <3>2, <3>3, ViolationLines
      <4>2. Op(p).op = "put" => Op(p).at \in {"x", "y"}
        BY <1>1, <2>1, <3>3, ViolationLines
      <4>3. Op(p).op = "put_if" => Op(p).at \in {"x", "y"}
        <5>1. Op(p).op = "put_if" => stack[p].fn # "main" /\ stack[p].pc = 2
          BY <1>1, <2>1, <3>3, ViolationLines
        <5>. QED
          BY <1>1, <2>1, <5>1, ViolationCalls DEF Cleared
      <4>. QED
        BY <4>1, <4>2, <4>3
    <3>5. Op(p).at \in {"x", "y"} => Value(p, o)' = 0
      <4> SUFFICES ASSUME Op(p).at \in {"x", "y"} PROVE Value(p, o)' = 0
        OBVIOUS
      <4>1. Op(p).at \in Objects /\ Op(p).at # o
        BY DEF Objects, Unused
      <4>. QED
        BY <1>1, <2>1, <3>1, <4>1, WriteEffect
    <3>. QED
      BY <1>1, <2>1, <2>2, <2>3, <3>4, <3>5
  <2>5. UNCHANGED <<copies, writes>> \/ \E v : Write(p, Op(p).at, v)
    BY <1>3 DEF ProgramStep, LoadStep, StoreStep, SkipStep, RequireStep, MutexStep, heapVars
  <2>. QED
    BY <2>3, <2>4, <2>5
<1>4. ASSUME NEW p \in Procs, Calling(p) \/ PredecessorExited(p) \/ Exit(p)
      PROVE  heap'[o] = 0 /\ \A q \in Procs : Value(q, o)' = 0
  BY <1>1, <1>4, PhaseEffect, UnusedStays DEF heapVars
<1>5. ASSUME NEW p \in Procs, Commit(p) PROVE heap'[o] = 0 /\ \A q \in Procs : Value(q, o)' = 0
  <2>1. UNCHANGED <<writes, copies>> /\ heap'[o] = Value(p, o)
    BY <1>1, <1>5, CommitEffect
  <2>. QED
    BY <1>1, <2>1, UnusedStays
<1>6. ASSUME NEW ps \in SUBSET Procs, Begins(ps)
      PROVE  heap'[o] = 0 /\ \A q \in Procs : Value(q, o)' = 0
  <2>1. UNCHANGED heap /\ \A q \in Procs : \/ UNCHANGED <<writes[q], copies[q]>>
                                           \/ writes'[q] = {}
    BY <1>6 DEF Begins, Same
  <2>. QED
    BY <1>1, <2>1, UnusedStays
<1>7. ASSUME NEW p \in Procs, Rollback(p) \/ JoinReturns(p) PROVE Begins({p})
  BY <1>1, <1>7, RollbackEffect, JoinEffect
<1>8. ASSUME NEW p \in Procs, NEW c \in Procs, Fork(p, c) PROVE Begins({p, c})
  <2>1. phase[p] = "ended" /\ call[p].op = "create"
    BY <1>8 DEF Fork, G!Fork
  <2>2. p # Root => ~AtEnd(p) /\ Op(p).op = "create"
    BY <2>1 DEF Control, SectionRunsOn, Born
  <2>. QED
    BY <1>1, <1>8, <2>2, ForkEffect
<1>9. CASE \E p \in Procs : Library(p)
  BY <1>4, <1>5, <1>6, <1>7, <1>8, <1>9 DEF Library
<1>. QED
  BY <1>2, <1>3, <1>4, <1>9 DEF Next

LEMMA InitUnused == Init => UnusedInv
<1> SUFFICES ASSUME Init, NEW o \in Unused
             PROVE  heap[o] = 0 /\ \A p \in Procs : Value(p, o) = 0
  BY DEF UnusedInv
<1>1. o \in Objects
  BY DEF Unused, Objects
<1>. QED
  BY <1>1 DEF Init, Value

-----------------------------------------------------------------------------
(* Which thread comes before which *)

\* A thread that runs fn1 comes before p in the serial program.
HasFirst(p) == \E q \in before[p] : q \in Born /\ stack[q].fn = "fn1"

Precedence(p) ==
  /\ \A q \in before[p] : q \in Born /\ stack[q].fn # "main"
  /\ stack[p].fn = "main" /\ stack[p].pc > 3 => checkpoint[p].pc > 3 /\ HasFirst(p)
  /\ stack[p].fn = "fn2" => HasFirst(p)

PrecedenceInv == before[Root] \subseteq Born /\ \A p \in Born : Precedence(p)

\* A thread has an entry in its read set once it has run a line, and so waits
\* for those before it.
Patient(p) == (stack[p].pc > 1 => touched[p]) /\ p \notin hasty

PatientInv ==
  /\ hasty \subseteq Born \cup {Root}
  /\ \A p \in Born : stack[p].fn # "main" => Patient(p)

ViolationInv ==
  /\ Control /\ Threads /\ FirstInv /\ EndInv /\ program = "order_violation"

WaitedOrder ==
  \A p \in Procs :
    phase[p] = "validating" /\ before[p] \cap hasty = {} => \A q \in before[p] : phase[q] = "exited"

\* Theorems about GThread: who has waited comes after the dead.
LEMMA OrderKnown ==
  ASSUME ~NoOrder
  PROVE  Spec => []WaitedOrder
<1>1. GP!OrderInv => WaitedOrder
  BY DEF GP!OrderInv, GP!WaitedForAll, GP!Waited, WaitedOrder
<1>2. GP!Spec => []GP!OrderInv
  BY ThreadsAssumption, GP!OrderInvariant
<1>. QED
  BY <1>1, <1>2, StepsOfGThread, SameSpec, PTL

LEMMA BeforeKnown == Spec => [](before \in [Procs -> SUBSET Procs])
<1>1. GP!IInv => before \in [Procs -> SUBSET Procs]
  BY DEF GP!IInv, GP!TypeOK
<1>2. GP!Spec => []GP!IInv
  BY ThreadsAssumption, GP!InductiveInvariant
<1>. QED
  BY <1>1, <1>2, StepsOfGThread, SameSpec, PTL

LEMMA HistoryEffect ==
  ASSUME NEW p \in Procs
  PROVE  /\ ProgramStep(p) \/ Calling(p) \/ PredecessorExited(p) \/ Commit(p) \/ Rollback(p)
              \/ JoinReturns(p) => UNCHANGED <<before, hasty>>
         /\ Exit(p) => /\ UNCHANGED before
                       /\ phase[p] = "ended" /\ call[p].op = "exit"
                       /\ hasty' = IF touched[p] THEN hasty ELSE hasty \cup {p}
         /\ \A c \in Procs : Fork(p, c) =>
              /\ UNCHANGED hasty
              /\ before' = [q \in Procs |->
                              IF q = c THEN before[p]
                              ELSE IF q = p \/ p \in before[q] THEN before[q] \cup {c}
                              ELSE before[q]]
<1>1. ProgramStep(p) => UNCHANGED <<before, hasty>>
  BY DEF ProgramStep, LoadStep, StoreStep, SkipStep, RequireStep, MutexStep, Fault, G!Touch, gvars
<1>2. Calling(p) => UNCHANGED <<before, hasty>>
  BY DEF Calling, G!CallCreate, G!CallJoin, G!CallExit, G!WrappedMain, G!EndSection
<1>3. PredecessorExited(p) \/ Commit(p) \/ Rollback(p) \/ JoinReturns(p) => UNCHANGED <<before, hasty>>
  BY DEF PredecessorExited, Commit, Rollback, JoinReturns, G!PredecessorExited, G!Commit,
         G!Rollback, G!JoinReturns
<1>4. Exit(p) => /\ UNCHANGED before
                 /\ phase[p] = "ended" /\ call[p].op = "exit"
                 /\ hasty' = IF touched[p] THEN hasty ELSE hasty \cup {p}
  BY DEF Exit, G!Exit, G!Leave
<1>5. \A c \in Procs : Fork(p, c) =>
              /\ UNCHANGED hasty
              /\ before' = [q \in Procs |->
                              IF q = c THEN before[p]
                              ELSE IF q = p \/ p \in before[q] THEN before[q] \cup {c}
                              ELSE before[q]]
  BY DEF Fork, G!Fork
<1>. QED
  BY <1>1, <1>2, <1>3, <1>4, <1>5

LEMMA PrecedenceStays ==
  ASSUME NEW q, Precedence(q), UNCHANGED <<before[q], stack[q], checkpoint[q]>>,
         Born \subseteq Born', \A r \in Born : stack'[r].fn = stack[r].fn
  PROVE  Precedence(q)'
BY DEF Precedence, HasFirst

LEMMA StepPrecedence ==
  ASSUME ViolationInv, PrecedenceInv, NEW p \in Procs,
         ProgramStep(p) \/ Calling(p) \/ PredecessorExited(p) \/ Commit(p) \/ Exit(p)
  PROVE  PrecedenceInv'
<1>1. Shapes /\ program = "order_violation"
  BY DEF ViolationInv, Control
<1>2. UNCHANGED before
  BY HistoryEffect
<1>3. CASE ~ProgramStep(p)
  <2>1. UNCHANGED <<stack, checkpoint>> /\ Born' = Born
    <3>1. CASE Calling(p) \/ PredecessorExited(p) \/ Exit(p)
      BY <1>1, <3>1, PhaseEffect DEF ViolationInv, programVars, Born, Same
    <3>2. CASE Commit(p)
      BY <1>1, <3>2, CommitEffect DEF ViolationInv, programVars, Born, Same
    <3>. QED
      BY <1>3, <3>1, <3>2
  <2>. QED
    BY <1>2, <2>1, PrecedenceStays DEF PrecedenceInv
<1>4. CASE ProgramStep(p)
  <2>1. /\ p \in Born /\ phase[p] = "running" /\ ~AtEnd(p)
        /\ UNCHANGED <<phase, program, checkpoint>> /\ Shapes'
        /\ stack'[p].fn = stack[p].fn /\ stack'[p].pc = stack[p].pc + 1
        /\ \A q \in Procs \ {p} : stack'[q] = stack[q]
    BY <1>1, <1>4, ProgramEffect DEF ViolationInv
  <2>2. Born' = Born /\ \A r \in Born : stack'[r].fn = stack[r].fn
    BY <2>1 DEF Born
  <2>3. stack[p].fn = "main" => stack'[p].pc <= 3
    <3>1. Op(p).op \notin {"create", "join"}
      BY <1>4 DEF ProgramStep, LoadStep, StoreStep, SkipStep, RequireStep, MutexStep, At
    <3>2. stack[p].pc \in Nat \ {0}
      BY <1>1 DEF Shapes, Frames
    <3>. QED
      BY <1>1, <2>1, <3>1, <3>2, ViolationLines
  <2>4. stack'[p].pc \in Nat
    BY <2>1 DEF Shapes, Frames
  <2>5. Precedence(p)'
    BY <1>2, <2>1, <2>2, <2>3, <2>4 DEF PrecedenceInv, Precedence, HasFirst
  <2>6. \A q \in Born \ {p} : Precedence(q)'
    BY <1>2, <2>1, <2>2, PrecedenceStays DEF PrecedenceInv, Born
  <2>. QED
    BY <1>2, <2>2, <2>5, <2>6 DEF PrecedenceInv
<1>. QED
  BY <1>3, <1>4

LEMMA ResumePrecedence ==
  ASSUME ViolationInv, PrecedenceInv, NEW p \in Procs, Rollback(p) \/ JoinReturns(p)
  PROVE  PrecedenceInv'
<1>1. Shapes /\ program = "order_violation"
  BY DEF ViolationInv, Control
<1>2. UNCHANGED before
  BY HistoryEffect
<1>3. /\ Begins({p}) /\ phase[p] \in {"validating", "ended"}
      /\ \/ stack'[p] = checkpoint[p]
         \/ /\ phase[p] = "ended" /\ call[p].op = "join"
            /\ stack'[p].fn = stack[p].fn /\ stack'[p].pc = stack[p].pc + 1
  BY <1>1, RollbackEffect, JoinEffect DEF ViolationInv
<1>4. /\ UNCHANGED program /\ phase'[p] = "running" /\ checkpoint'[p] = stack'[p]
      /\ \A q \in Procs \ {p} : Same(q)
  BY <1>3 DEF Begins
<1>5. Born' = Born
  BY <1>3, <1>4 DEF Born, Same
<1>6. p \in Born => /\ checkpoint[p].fn = stack[p].fn /\ checkpoint[p].pc <= stack[p].pc
                    /\ stack[p].pc \in Nat /\ checkpoint[p].pc \in Nat
  BY <1>1 DEF ViolationInv, Control, SectionRunsOn, Shapes, Frames
<1>7. \A r \in Born : stack'[r].fn = stack[r].fn
  BY <1>3, <1>4, <1>6 DEF Same, Born
<1>8. p \in Born => Precedence(p)'
  <2> SUFFICES ASSUME p \in Born PROVE Precedence(p)'
    OBVIOUS
  <2>1. Precedence(p)
    BY DEF PrecedenceInv
  <2>2. HasFirst(p) => HasFirst(p)'
    BY <1>2, <1>5, <1>7 DEF HasFirst
  <2>3. CASE stack'[p] = checkpoint[p]
    BY <1>2, <1>4, <1>5, <1>6, <1>7, <2>1, <2>2, <2>3 DEF Precedence
  <2>4. CASE /\ phase[p] = "ended" /\ call[p].op = "join"
             /\ stack'[p].fn = stack[p].fn /\ stack'[p].pc = stack[p].pc + 1
    <3>1. ~AtEnd(p) /\ Op(p).op = "join"
      BY <2>4 DEF ViolationInv, Control, SectionRunsOn
    <3>2. stack[p].fn = "main" /\ stack[p].pc # 3
      <4>1. stack[p].pc \in Nat \ {0}
        BY <1>1 DEF Shapes, Frames
      <4>2. stack[p].fn = "main"
        BY <1>1, <3>1, <4>1, ViolationLines
      <4>3. stack[p].pc = 3 => Op(p).op = "create"
        BY <1>1, <3>1, <4>2, ViolationCalls
      <4>. QED
        BY <3>1, <4>2, <4>3
    <3>3. stack[p].pc > 3
      <4>1. stack[p].pc = 1 => Op(p).op = "put"
        BY <1>1, <3>1, <3>2, ViolationLines
      <4>2. stack[p].pc = 2 => Op(p).op = "put"
        BY <1>1, <3>1, <3>2, ViolationLines
      <4>3. stack[p].pc \in Nat \ {0}
        BY <1>1 DEF Shapes, Frames
      <4>. QED
        BY <3>1, <3>2, <4>1, <4>2, <4>3
    <3>. QED
      BY <1>2, <1>4, <1>5, <1>6, <1>7, <2>1, <2>2, <2>4, <3>2, <3>3 DEF Precedence
  <2>. QED
    BY <1>3, <2>3, <2>4
<1>9. \A q \in Born \ {p} : Precedence(q)'
  BY <1>2, <1>4, <1>5, <1>7, PrecedenceStays DEF PrecedenceInv, Same, Born
<1>. QED
  BY <1>2, <1>5, <1>8, <1>9 DEF PrecedenceInv

LEMMA ForkPrecedence ==
  ASSUME ViolationInv, PrecedenceInv, before \in [Procs -> SUBSET Procs],
         NEW p \in Procs, NEW c \in Procs, Fork(p, c)
  PROVE  PrecedenceInv'
<1>1. Shapes /\ program = "order_violation" /\ RootAlone
  BY DEF ViolationInv, Control
<1>p. phase[p] = "ended" /\ call[p].op = "create"
  BY DEF Fork, G!Fork
<1>2. p # Root => ~AtEnd(p) /\ Op(p).op = "create" /\ p \in Born
  BY <1>p DEF ViolationInv, Control, SectionRunsOn, Born
<1>3. /\ c # p /\ Begins({p, c}) /\ phase[c] = "unborn"
      /\ stack'[p].fn = stack[p].fn /\ stack'[p].pc = stack[p].pc + 1
      /\ stack'[c] = Enter(IF p = Root THEN "main" ELSE Op(p).fn)
  BY <1>1, <1>2, ForkEffect DEF ViolationInv
<1>4. /\ UNCHANGED program /\ Shapes'
      /\ \A q \in {p, c} : phase'[q] = "running" /\ checkpoint'[q] = stack'[q]
      /\ \A q \in Procs \ {p, c} : Same(q)
  BY <1>3 DEF Begins
<1>5. /\ c # Root /\ Born' = Born \cup {c} /\ c \notin Born
  BY <1>p, <1>1, <1>3, <1>4 DEF RootAlone, Born, Same
<1>6. /\ stack'[c].fn = (IF p = Root THEN "main" ELSE Op(p).fn) /\ stack'[c].pc = 1
  <2>1. \A f : Enter(f).fn = f /\ Enter(f).pc = 1
    BY DEF Enter
  <2>. QED
    BY <1>3, <2>1
<1>7. /\ before'[c] = before[p] /\ before'[p] = before[p] \cup {c}
      /\ \A q \in Procs \ {p, c} : before'[q] = IF p \in before[q] THEN before[q] \cup {c} ELSE before[q]
  <2>1. before' = [q \in Procs |->
                     IF q = c THEN before[p]
                     ELSE IF q = p \/ p \in before[q] THEN before[q] \cup {c}
                     ELSE before[q]]
    BY HistoryEffect, Zenon
  <2>2. c # p
    BY <1>3
  <2>. QED
    BY <2>1, <2>2
<1>8. \A r \in Born : stack'[r].fn = stack[r].fn
  BY <1>3, <1>4, <1>5 DEF Same, Born
<1>9. CASE p = Root
  <2>1. Born = {} /\ before[Root] = {}
    BY <1>p, <1>1, <1>9 DEF RootAlone, PrecedenceInv
  <2>2. before'[c] = {} /\ before'[Root] = {c} /\ Born' = {c} /\ stack'[c].fn = "main" /\ stack'[c].pc = 1
    BY <1>5, <1>6, <1>7, <1>9, <2>1
  <2>. QED
    BY <2>2 DEF PrecedenceInv, Precedence
<1>10. CASE p # Root
  <2>1. /\ p \in Born /\ Precedence(p) /\ stack[p].pc \in Nat \ {0} /\ ~AtEnd(p) /\ Op(p).op = "create"
    BY <1>1, <1>2, <1>10 DEF PrecedenceInv, Shapes, Frames
  <2>2. stack[p].fn = "main" /\ stack[p].pc > 2
    <3>1. stack[p].fn = "main"
      BY <1>1, <2>1, ViolationLines
    <3>2. stack[p].pc \notin {1, 2}
      BY <1>1, <2>1, <3>1, ViolationLines
    <3>. QED
      BY <2>1, <3>1, <3>2
  <2>3. /\ stack[p].pc = 3 => Op(p).fn = "fn1"
        /\ stack[p].pc > 3 => Op(p).fn = "fn2"
    BY <1>1, <2>1, <2>2, ViolationCalls
  <2>4. \A q \in Born : p \notin before[q]
    BY <2>2 DEF PrecedenceInv, Precedence
  <2>5. /\ before'[c] = before[p] /\ before'[p] = before[p] \cup {c}
        /\ \A q \in Born \ {p} : before'[q] = before[q]
    BY <1>5, <1>7, <2>4 DEF Born
  <2>6. before'[Root] \subseteq Born'
    <3>1. Root \in Procs \ {p, c} /\ before[Root] \subseteq Born
      BY <1>5, <1>10, SystemAssumption DEF PrecedenceInv
    <3>2. before'[Root] \subseteq before[Root] \cup {c}
      BY <1>7, <3>1
    <3>. QED
      BY <1>5, <3>1, <3>2
  <2>7. stack'[c].fn \in {"fn1", "fn2"}
    BY <1>6, <1>10, <2>1, <2>2, <2>3
  <2>8. Precedence(c)'
    <3>1. \A q \in before'[c] : q \in Born' /\ stack'[q].fn # "main"
      BY <1>5, <1>8, <2>1, <2>5 DEF Precedence
    <3>2. stack'[c].fn = "fn2" => HasFirst(c)'
      <4>1. stack'[c].fn = "fn2" => HasFirst(p)
        <5>1. stack'[c].fn = "fn2" => stack[p].pc # 3
          BY <1>6, <1>10, <2>3
        <5>. QED
          BY <2>1, <2>2, <5>1 DEF Precedence
      <4>2. HasFirst(p) => HasFirst(c)'
        BY <1>5, <1>8, <2>5 DEF HasFirst
      <4>. QED
        BY <4>1, <4>2
    <3>. QED
      BY <2>7, <3>1, <3>2 DEF Precedence
  <2>9. Precedence(p)'
    <3>1. \A q \in before'[p] : q \in Born' /\ stack'[q].fn # "main"
      BY <1>5, <1>8, <2>1, <2>5, <2>7 DEF Precedence
    <3>2. HasFirst(p)'
      <4>1. CASE stack[p].pc = 3
        <5>1. stack'[c].fn = "fn1" /\ c \in before'[p] /\ c \in Born'
          BY <1>5, <1>6, <1>10, <2>3, <2>5, <4>1
        <5>. QED
          BY <5>1 DEF HasFirst
      <4>2. CASE stack[p].pc > 3
        <5>1. HasFirst(p)
          BY <2>1, <2>2, <4>2 DEF Precedence
        <5>. QED
          BY <1>5, <1>8, <2>5, <5>1 DEF HasFirst
      <4>. QED
        BY <2>1, <2>2, <4>1, <4>2
    <3>3. checkpoint'[p].pc > 3
      BY <1>3, <1>4, <2>1, <2>2
    <3>. QED
      BY <1>3, <2>2, <3>1, <3>2, <3>3 DEF Precedence
  <2>10. \A q \in Born \ {p} : Precedence(q)'
    <3>1. \A q \in Born \ {p} : UNCHANGED <<stack[q], checkpoint[q]>>
      BY <1>4, <1>5 DEF Born, Same
    <3>. QED
      BY <1>5, <1>8, <2>5, <3>1, PrecedenceStays DEF PrecedenceInv
  <2>. QED
    BY <1>5, <2>6, <2>8, <2>9, <2>10 DEF PrecedenceInv
<1>. QED
  BY <1>9, <1>10

LEMMA NextPrecedence ==
  ViolationInv /\ before \in [Procs -> SUBSET Procs] /\ PrecedenceInv /\ [Next]_vars => PrecedenceInv'
<1> SUFFICES ASSUME ViolationInv, before \in [Procs -> SUBSET Procs], PrecedenceInv, [Next]_vars
             PROVE  PrecedenceInv'
  OBVIOUS
<1>1. CASE UNCHANGED vars \/ Terminated
  BY <1>1, PrecedenceStays DEF Terminated, vars, gvars, programVars, PrecedenceInv, Born
<1>. QED
  BY <1>1, StepPrecedence, ResumePrecedence, ForkPrecedence DEF Next, Library

LEMMA InitPrecedence == Init => PrecedenceInv
<1> SUFFICES ASSUME Init PROVE PrecedenceInv
  OBVIOUS
<1>1. Born = {} /\ before[Root] = {}
  BY SystemAssumption DEF Init, G!Init, Born
<1>. QED
  BY <1>1 DEF PrecedenceInv

LEMMA ProgramPatient ==
  ASSUME ViolationInv, Control', FirstInv', PatientInv, NEW p \in Procs, ProgramStep(p)
  PROVE  PatientInv'
<1>1. /\ p \in Born /\ phase[p] = "running" /\ UNCHANGED <<phase, program, hasty>>
      /\ stack'[p].fn = stack[p].fn /\ stack'[p].pc = stack[p].pc + 1
      /\ \A q \in Procs \ {p} : stack'[q] = stack[q] /\ touched'[q] = touched[q]
  BY ProgramEffect, HistoryEffect DEF ViolationInv, Control
<1>2. Born' = Born
  BY <1>1 DEF Born
<1>3. stack[p].fn # "main" => touched'[p]
  <2> SUFFICES ASSUME stack[p].fn # "main" PROVE touched'[p]
    OBVIOUS
  <2>1. LeavesSomething(p)' /\ SectionRunsOn(p)'
    BY <1>1, <1>2 DEF FirstInv, Control
  <2>2. stack'[p].pc > 1
    BY <1>1 DEF ViolationInv, Control, Shapes, Frames
  <2>3. reads'[p] # {}
    BY <1>1, <2>1, <2>2 DEF LeavesSomething, ThreadTests, G!Open
  <2>. QED
    BY <1>1, <2>1, <2>3 DEF SectionRunsOn, G!Open
<1>. QED
  BY <1>1, <1>2, <1>3 DEF PatientInv, Patient, Born

LEMMA LibraryPatient ==
  ASSUME ViolationInv, PatientInv, NEW p \in Procs, Calling(p) \/ Library(p)
  PROVE  PatientInv'
<1>1. Shapes /\ program = "order_violation" /\ RootAlone
  BY DEF ViolationInv, Control
<1>2. ASSUME NEW q \in Born, stack[q].fn # "main", Same(q), q \notin hasty'
      PROVE  stack'[q].fn # "main" => Patient(q)'
  BY <1>2 DEF PatientInv, Patient, Same
<1>3. CASE Calling(p) \/ PredecessorExited(p)
  <2>1. UNCHANGED <<hasty, stack, touched>> /\ Born' = Born
    BY <1>1, <1>3, HistoryEffect, PhaseEffect DEF ViolationInv, programVars, Born, Same
  <2>. QED
    BY <2>1 DEF PatientInv, Patient
<1>4. CASE Commit(p)
  <2>1. UNCHANGED <<hasty, stack, touched>> /\ Born' = Born
    BY <1>1, <1>4, HistoryEffect, CommitEffect DEF ViolationInv, programVars, Born, Same
  <2>. QED
    BY <2>1 DEF PatientInv, Patient
<1>5. CASE Exit(p)
  <2>1. UNCHANGED <<stack, touched>> /\ Born' = Born
    BY <1>1, <1>5, PhaseEffect DEF ViolationInv, programVars, Born, Same
  <2>2. phase[p] = "ended" /\ hasty' = IF touched[p] THEN hasty ELSE hasty \cup {p}
    BY <1>5, HistoryEffect
  <2>3. p \in Born \cup {Root}
    BY <2>2 DEF Born
  <2>4. p \in Born /\ stack[p].fn # "main" => touched[p]
    <3> SUFFICES ASSUME p \in Born, stack[p].fn # "main" PROVE touched[p]
      OBVIOUS
    <3>1. stack[p].pc > 2 /\ stack[p].pc \in Nat
      BY <1>1, <2>2, ThreadRuns DEF ViolationInv, Shapes, Frames
    <3>. QED
      BY <3>1 DEF PatientInv, Patient
  <2>. QED
    BY <2>1, <2>2, <2>3, <2>4 DEF PatientInv, Patient
<1>6. CASE Rollback(p) \/ JoinReturns(p)
  <2>1. /\ UNCHANGED hasty /\ Begins({p}) /\ phase[p] \in {"validating", "ended"}
        /\ stack'[p] = checkpoint[p] \/ (phase[p] = "ended" /\ call[p].op = "join"
             /\ stack'[p].fn = stack[p].fn)
    BY <1>1, <1>6, HistoryEffect, RollbackEffect, JoinEffect DEF ViolationInv
  <2>2. Born' = Born /\ \A q \in Procs \ {p} : Same(q)
    BY <2>1 DEF Begins, Born, Same
  <2>3. ASSUME p \in Born, stack'[p].fn # "main" PROVE Patient(p)'
    <3>1. checkpoint[p].fn = stack[p].fn
      BY <2>3 DEF ViolationInv, Control, SectionRunsOn
    <3>2. stack[p].fn # "main"
      BY <2>1, <2>3, <3>1
    <3>3. stack'[p] = checkpoint[p]
      BY <1>1, <2>1, <2>3, <3>2, ThreadRuns DEF ViolationInv
    <3>4. checkpoint[p].pc = 1
      BY <2>3, <3>2 DEF ViolationInv, FirstInv, LeavesSomething, ThreadTests
    <3>. QED
      BY <2>1, <2>3, <3>2, <3>3, <3>4 DEF PatientInv, Patient
  <2>4. \A q \in Born \ {p} : stack'[q].fn # "main" => Patient(q)'
    BY <2>1, <2>2 DEF PatientInv, Patient, Same, Born
  <2>. QED
    BY <2>1, <2>2, <2>3, <2>4 DEF PatientInv
<1>7. ASSUME NEW c \in Procs, Fork(p, c) PROVE PatientInv'
  <2>1. phase[p] = "ended" /\ call[p].op = "create" /\ UNCHANGED hasty
    BY <1>7, HistoryEffect DEF Fork, G!Fork
  <2>2. p # Root => ~AtEnd(p) /\ Op(p).op = "create" /\ p \in Born
    BY <2>1 DEF ViolationInv, Control, SectionRunsOn, Born
  <2>3. /\ c # p /\ Begins({p, c}) /\ phase[c] = "unborn"
        /\ stack'[p].fn = stack[p].fn
        /\ stack'[c] = Enter(IF p = Root THEN "main" ELSE Op(p).fn)
    BY <1>1, <1>7, <2>2, ForkEffect DEF ViolationInv
  <2>4. c # Root /\ c \notin Born /\ Born' = Born \cup {c} /\ \A q \in Procs \ {p, c} : Same(q)
    BY <1>1, <2>1, <2>3 DEF RootAlone, Begins, Born, Same
  <2>5. p \in Born => stack'[p].fn = "main"
    BY <1>1, <2>1, <2>3, ThreadRuns DEF ViolationInv, Born
  <2>6. stack'[c].pc = 1
    <3>1. \A f : Enter(f).pc = 1
      BY DEF Enter
    <3>. QED
      BY <2>3, <3>1
  <2>7. Patient(c)'
    BY <2>1, <2>4, <2>6 DEF PatientInv, Patient
  <2>8. \A q \in Born \ {p} : stack'[q].fn # "main" => Patient(q)'
    BY <2>1, <2>4 DEF PatientInv, Patient, Same, Born
  <2>. QED
    BY <2>1, <2>4, <2>5, <2>7, <2>8 DEF PatientInv
<1>. QED
  BY <1>3, <1>4, <1>5, <1>6, <1>7 DEF Library

LEMMA NextPatient ==
  ViolationInv /\ Control' /\ FirstInv' /\ PatientInv /\ [Next]_vars => PatientInv'
<1>1. PatientInv /\ (UNCHANGED vars \/ Terminated) => PatientInv'
  BY DEF Terminated, vars, gvars, programVars, PatientInv, Patient, Born
<1>. QED
  BY <1>1, ProgramPatient, LibraryPatient DEF Next

LEMMA InitPatient == Init => PatientInv
BY DEF Init, G!Init, PatientInv, Born

-----------------------------------------------------------------------------
(* The heap, at any time, is one of the serial program *)

\* fn1 has been committed.
FirstDone == \E q \in Born : stack[q].fn = "fn1" /\ phase[q] \notin G!Open

AsSerial == heap["y"] = 1 /\ heap["x"] = IF FirstDone THEN 0 ELSE 1

MainLeaves(p) ==
  /\ checkpoint[p].pc = 1 /\ stack[p].pc > 2 /\ phase[p] \in G!Open =>
       Page("y") \in writes[p] /\ Value(p, "y") = 1
  /\ checkpoint[p].pc # 1 \/ (phase[p] = "ended" /\ call[p].op \in {"create", "join"}) =>
       AsSerial

\* fn1 finds what main has set.  fn2 has what the heap has, while it may commit.
ThreadLeaves(p) ==
  /\ AsSerial
  /\ stack[p].fn = "fn1" /\ phase[p] \in G!Open =>
       /\ Value(p, "y") = 1
       /\ stack[p].pc = 2 => stack[p].reg = 1
       /\ stack[p].pc > 2 => Page("x") \in writes[p] /\ Value(p, "x") = 0
  /\ stack[p].fn # "fn1" /\ phase[p] \in G!Open /\ Page("x") \notin newer[p] =>
       Value(p, "x") = heap["x"]

LeavesAsSerial(p) == IF stack[p].fn = "main" THEN MainLeaves(p) ELSE ThreadLeaves(p)

SerialInv == \A p \in Born : LeavesAsSerial(p)

OrderedInv == ViolationInv /\ PrecedenceInv /\ PatientInv /\ WaitedOrder /\ SerialInv

LEMMA SerialStays ==
  ASSUME NEW q, Same(q), UNCHANGED program, LeavesAsSerial(q), AsSerial => AsSerial',
         Page("x") \notin newer'[q] => Page("x") \notin newer[q] /\ heap'["x"] = heap["x"]
  PROVE  LeavesAsSerial(q)'
<1>1. \A o : Page(o)' = Page(o)
  BY DEF Page
<1>2. \A o : Value(q, o)' = IF Page(o) \in writes[q] THEN Value(q, o) ELSE heap'[o]
  BY <1>1 DEF Same, Value
<1>3. CASE stack[q].fn = "main"
  BY <1>1, <1>2, <1>3 DEF Same, LeavesAsSerial, MainLeaves
<1>4. CASE stack[q].fn # "main"
  <2>1. AsSerial' /\ heap'["y"] = 1 /\ ThreadLeaves(q)
    BY <1>4 DEF LeavesAsSerial, ThreadLeaves, AsSerial
  <2>2. /\ Value(q, "y") = 1 => Value(q, "y")' = 1
        /\ Page("x") \in writes[q] => Value(q, "x")' = Value(q, "x")
        /\ Page("x") \notin newer'[q] /\ Value(q, "x") = heap["x"] => Value(q, "x")' = heap'["x"]
    BY <1>2, <2>1
  <2>3. ThreadLeaves(q)'
    BY <1>1, <2>1, <2>2 DEF ThreadLeaves, Same
  <2>. QED
    BY <1>4, <2>3 DEF LeavesAsSerial, Same
<1>. QED
  BY <1>3, <1>4

LEMMA DoneStays ==
  ASSUME UNCHANGED heap, Born \subseteq Born',
         \A q \in Born : stack'[q].fn = stack[q].fn,
         \A q \in Born : stack[q].fn = "fn1" => (phase'[q] \in G!Open <=> phase[q] \in G!Open),
         \A q \in Born' : q \in Born \/ phase'[q] \in G!Open
  PROVE  AsSerial' <=> AsSerial
<1>1. FirstDone' <=> FirstDone
  BY DEF FirstDone
<1>. QED
  BY <1>1 DEF AsSerial

LEMMA ProgramSerial ==
  ASSUME OrderedInv, NEW p \in Procs, ProgramStep(p)
  PROVE  SerialInv'
<1>1. Shapes /\ program = "order_violation"
  BY DEF OrderedInv, ViolationInv, Control
<1>2. /\ p \in Born /\ phase[p] = "running" /\ ~AtEnd(p)
      /\ UNCHANGED <<phase, call, program, heap, newer, checkpoint>>
      /\ stack'[p].fn = stack[p].fn /\ stack'[p].pc = stack[p].pc + 1
      /\ \A q \in Procs \ {p} :
           /\ stack'[q] = stack[q] /\ touched'[q] = touched[q] /\ copies'[q] = copies[q]
           /\ reads'[q] = reads[q] /\ writes'[q] = writes[q]
  BY <1>1, ProgramEffect DEF OrderedInv, ViolationInv
<1>3. (\A q \in Procs \ {p} : Same(q)) /\ Born' = Born
  BY <1>2 DEF Same, Born
<1>4. AsSerial' <=> AsSerial
  BY <1>2, <1>3, DoneStays DEF Same, Born
<1>5. /\ stack[p].pc \in Nat \ {0} /\ "x" \in Objects /\ "y" \in Objects
      /\ LeavesSomething(p) /\ LeavesAsSerial(p) /\ stack \in [Procs -> Frames]
  BY <1>1, <1>2 DEF Shapes, Frames, OrderedInv, ViolationInv, FirstInv, SerialInv, Objects
<1>6. \A o : Page(o)' = Page(o)
  BY DEF Page
<1>7. UNCHANGED <<copies, writes>> => \A o : Value(p, o)' = Value(p, o)
  BY <1>2, <1>6 DEF Value
<1>8. LeavesAsSerial(p)'
  <2>1. CASE stack[p].fn = "main"
    <3>1. MainSets(p) /\ MainLeaves(p)
      BY <1>5, <2>1 DEF LeavesSomething, LeavesAsSerial
    <3>2. stack[p].pc \in {1, 2}
      <4>1. Op(p).op \notin {"create", "join"}
        BY DEF ProgramStep, LoadStep, StoreStep, SkipStep, RequireStep, MutexStep, At
      <4>. QED
        BY <1>1, <1>2, <1>5, <2>1, <4>1, ViolationLines
    <3>3. stack'[p].pc > 2 => Page("y") \in writes'[p] /\ Value(p, "y")' = 1
      <4> SUFFICES ASSUME stack[p].pc = 2 PROVE Page("y") \in writes'[p] /\ Value(p, "y")' = 1
        BY <1>2, <3>2
      <4>1. Op(p).op = "put" /\ Op(p).at = "y" /\ Op(p).val = 1
        BY <1>1, <1>2, <2>1, ViolationLines
      <4>2. Write(p, "y", 1)
        BY <4>1 DEF ProgramStep, LoadStep, StoreStep, SkipStep, RequireStep, MutexStep, At
      <4>. QED
        BY <1>1, <1>2, <1>5, <4>2, WriteEffect
    <3>4. MainLeaves(p)'
      BY <1>2, <1>4, <1>6, <3>1, <3>3 DEF MainLeaves
    <3>. QED
      BY <1>2, <2>1, <3>4 DEF LeavesAsSerial
  <2>2. CASE stack[p].fn # "main"
    <3>1. ThreadLeaves(p) /\ phase[p] \in G!Open /\ phase'[p] \in G!Open /\ AsSerial'
      BY <1>2, <1>4, <1>5, <2>2 DEF LeavesAsSerial, ThreadLeaves, G!Open
    <3>2. CASE stack[p].pc = 1
      <4>1. Op(p).op = "load" /\ Op(p).at = Tested(stack[p].fn)
        BY <1>1, <1>2, <2>2, <3>2, ViolationLines
      <4>2. LoadStep(p)
        BY <4>1 DEF ProgramStep, StoreStep, SkipStep, RequireStep, MutexStep, At
      <4>3. stack'[p].reg = Value(p, Tested(stack[p].fn)) /\ UNCHANGED <<copies, writes>>
        BY <1>5, <4>1, <4>2 DEF LoadStep, Frames
      <4>4. stack[p].fn = "fn1" => stack'[p].reg = 1
        BY <3>1, <4>3 DEF ThreadLeaves, Tested
      <4>5. stack'[p].pc = 2
        BY <1>2, <3>2
      <4>6. ThreadLeaves(p)'
        BY <1>2, <1>6, <1>7, <3>1, <4>3, <4>4, <4>5 DEF ThreadLeaves
      <4>. QED
        BY <1>2, <2>2, <4>6 DEF LeavesAsSerial
    <3>3. CASE stack[p].pc # 1
      <4>1. /\ stack[p].pc = 2 /\ Op(p).op = "put_if"
            /\ Op(p).at = Cleared(stack[p].fn) /\ Op(p).val = 0 /\ stack'[p].pc = 3
        BY <1>1, <1>2, <2>2, <3>3, ViolationLines, ViolationCalls
      <4>2. CASE SkipStep(p)
        <5>1. stack[p].reg # 1 /\ UNCHANGED <<copies, writes>>
          BY <4>2 DEF SkipStep, heapVars
        <5>2. stack[p].fn # "fn1"
          BY <3>1, <4>1, <5>1 DEF ThreadLeaves
        <5>3. ThreadLeaves(p)'
          BY <1>2, <1>6, <1>7, <3>1, <5>1, <5>2 DEF ThreadLeaves
        <5>. QED
          BY <1>2, <2>2, <5>3 DEF LeavesAsSerial
      <4>3. CASE StoreStep(p)
        <5>1. Write(p, Cleared(stack[p].fn), 0) /\ Cleared(stack[p].fn) \in Objects
          BY <4>1, <4>3 DEF StoreStep, At, Cleared, Objects
        <5>2. /\ writes'[p] = writes[p] \cup {Page(Cleared(stack[p].fn))}
              /\ \A o \in Objects :
                   Value(p, o)' = IF o = Cleared(stack[p].fn) THEN 0 ELSE Value(p, o)
          BY <1>1, <1>2, <5>1, WriteEffect
        <5>3. CASE stack[p].fn = "fn1"
          <6>1. Page("x") \in writes'[p] /\ Value(p, "x")' = 0 /\ Value(p, "y")' = Value(p, "y")
            BY <1>5, <5>2, <5>3 DEF Cleared
          <6>. QED
            BY <1>2, <1>6, <2>2, <3>1, <4>1, <5>3, <6>1 DEF ThreadLeaves, LeavesAsSerial
        <5>4. CASE stack[p].fn # "fn1"
          <6>1. Value(p, "x")' = Value(p, "x")
            BY <1>5, <5>2, <5>4 DEF Cleared
          <6>. QED
            BY <1>2, <1>6, <2>2, <3>1, <5>4, <6>1 DEF ThreadLeaves, LeavesAsSerial
        <5>. QED
          BY <5>3, <5>4
      <4>. QED
        BY <4>1, <4>2, <4>3 DEF ProgramStep, LoadStep, RequireStep, MutexStep, At
    <3>. QED
      BY <3>2, <3>3
  <2>. QED
    BY <2>1, <2>2
<1>9. \A q \in Born \ {p} : LeavesAsSerial(q)'
  BY <1>2, <1>3, <1>4, SerialStays DEF OrderedInv, SerialInv, Born
<1>. QED
  BY <1>3, <1>8, <1>9 DEF SerialInv

\* A thread calls nothing before the end of its function, and has then read.
LEMMA ThreadWaits ==
  ASSUME ViolationInv, PatientInv, NEW p \in Born, stack[p].fn # "main", Calling(p)
  PROVE  touched[p]
<1>1. p \in Procs /\ p # Root /\ Shapes /\ program = "order_violation" /\ stack[p].pc \in Nat
  BY DEF Born, ViolationInv, Control, Shapes, Frames
<1>2. AtEnd(p)
  BY <1>1, ThreadRuns DEF ViolationInv, Calling, Joins, At
<1>3. stack[p].pc > 2
  BY <1>1, <1>2, ViolationCalls
<1>. QED
  BY <1>1, <1>3 DEF PatientInv, Patient

LEMMA PhaseSerial ==
  ASSUME OrderedInv, NEW p \in Procs, Calling(p) \/ PredecessorExited(p) \/ Exit(p)
  PROVE  SerialInv'
<1>1. Shapes /\ program = "order_violation"
  BY DEF OrderedInv, ViolationInv, Control
<1>2. /\ UNCHANGED <<program, heap, copies, reads, writes, newer, stack, checkpoint>>
      /\ \A q \in Procs \ {p} : Same(q)
      /\ \/ /\ phase[p] = "running"
            /\ phase'[p] = IF touched[p] THEN "waiting" ELSE "ended"
            /\ call'[p].op \in {"create", "join"} => p = Root \/ (~AtEnd(p) /\ Op(p).op = call'[p].op)
         \/ phase[p] = "waiting" /\ phase'[p] = "validating" /\ call'[p] = call[p]
         \/ phase[p] = "ended" /\ phase'[p] = "exited" /\ call'[p] = G!NoCall
  BY <1>1, PhaseEffect DEF OrderedInv, ViolationInv, heapVars, programVars
<1>3. Born' = Born
  BY <1>2 DEF Born, Same
<1>4. p \in Born /\ stack[p].fn # "main" => (phase'[p] \in G!Open <=> phase[p] \in G!Open)
  <2>1. CASE Calling(p)
    <3>1. p \in Born /\ stack[p].fn # "main" => touched[p]
      BY <2>1, ThreadWaits DEF OrderedInv
    <3>. QED
      BY <1>2, <3>1 DEF G!Open
  <2>2. CASE PredecessorExited(p) \/ Exit(p)
    <3>1. phase[p] # "running"
      BY <2>2 DEF PredecessorExited, G!PredecessorExited, Exit, G!Exit
    <3>. QED
      BY <1>2, <3>1 DEF G!Open
  <2>. QED
    BY <2>1, <2>2
<1>5. AsSerial' <=> AsSerial
  <2>1. \A q \in Born : stack[q].fn = "fn1" => (phase'[q] \in G!Open <=> phase[q] \in G!Open)
    BY <1>2, <1>4 DEF Same, Born
  <2>. QED
    BY <1>2, <1>3, <2>1, DoneStays
<1>6. \A o : Page(o)' = Page(o) /\ \A q : Value(q, o)' = Value(q, o)
  BY <1>2 DEF Value, Page
<1>7. phase'[p] \in G!Open => phase[p] \in G!Open
  BY <1>2 DEF G!Open
<1>8. ASSUME p \in Born PROVE LeavesAsSerial(p)'
  <2>1. CASE stack[p].fn = "main"
    <3>1. MainLeaves(p) /\ MainSets(p)
      BY <1>8, <2>1 DEF OrderedInv, ViolationInv, FirstInv, SerialInv, LeavesSomething, LeavesAsSerial
    <3>2. phase'[p] = "ended" /\ call'[p].op \in {"create", "join"} => AsSerial
      <4> SUFFICES ASSUME phase'[p] = "ended", call'[p].op \in {"create", "join"}, checkpoint[p].pc = 1
                   PROVE  FALSE
        BY <3>1 DEF MainLeaves
      <4>1. phase[p] = "running" /\ ~touched[p] /\ ~AtEnd(p) /\ Op(p).op \in {"create", "join"}
        BY <1>2, <1>8 DEF Born
      <4>2. stack[p].pc \in Nat \ {0}
        BY <1>1, <1>8 DEF Shapes, Frames, Born
      <4>3. stack[p].pc > 1
        BY <1>1, <1>8, <2>1, <4>1, <4>2, ViolationLines DEF Born
      <4>4. writes[p] # {}
        BY <3>1, <4>1, <4>3 DEF MainSets, G!Open
      <4>. QED
        BY <1>8, <4>1, <4>4 DEF OrderedInv, ViolationInv, Control, SectionRunsOn, G!Open
    <3>3. MainLeaves(p)'
      BY <1>2, <1>5, <1>6, <1>7, <3>1, <3>2 DEF MainLeaves
    <3>. QED
      BY <1>2, <2>1, <3>3 DEF LeavesAsSerial
  <2>2. CASE stack[p].fn # "main"
    <3>1. ThreadLeaves(p)
      BY <1>8, <2>2 DEF OrderedInv, SerialInv, LeavesAsSerial
    <3>2. ThreadLeaves(p)'
      BY <1>2, <1>5, <1>6, <1>7, <3>1 DEF ThreadLeaves
    <3>. QED
      BY <1>2, <2>2, <3>2 DEF LeavesAsSerial
  <2>. QED
    BY <2>1, <2>2
<1>9. \A q \in Born \ {p} : LeavesAsSerial(q)'
  BY <1>2, <1>5, SerialStays DEF OrderedInv, SerialInv, Born
<1>. QED
  BY <1>3, <1>8, <1>9 DEF SerialInv

\* main sets both before it creates a thread.
LEMMA MainCommits ==
  ASSUME OrderedInv, NEW p \in Born, Commit(p), stack[p].fn = "main"
  PROVE  AsSerial' /\ (checkpoint[p].pc = 1 \/ writes[p] = {})
<1>1. /\ p \in Procs /\ Shapes /\ program = "order_violation"
      /\ MainSets(p) /\ MainLeaves(p) /\ InsideBody(p) /\ CallEnds(p)
      /\ stack[p].pc \in Nat \ {0} /\ checkpoint[p].pc \in Nat
      /\ "x" \in Objects /\ "y" \in Objects
  BY DEF Born, OrderedInv, ViolationInv, Control, Shapes, Frames, FirstInv, SerialInv, EndInv,
         LeavesSomething, LeavesAsSerial, Objects
<1>2. /\ UNCHANGED <<program, stack, checkpoint>> /\ \A q \in Procs \ {p} : Same(q)
      /\ phase[p] = "validating" /\ phase'[p] = "ended"
      /\ \A o \in Objects : heap'[o] = Value(p, o)
  BY <1>1, CommitEffect DEF OrderedInv, ViolationInv, programVars
<1>3. Born' = Born
  BY <1>2 DEF Born, Same
<1>4. CASE checkpoint[p].pc = 1
  <2>1. Born = {p}
    <3>1. ~Creates("main", 0)
      BY DEF Creates
    <3>. QED
      BY <1>4, <3>1 DEF OrderedInv, ViolationInv, Control, MainFirst
  <2>2. ~FirstDone'
    BY <1>2, <1>3, <1>4, <2>1 DEF FirstDone
  <2>3. stack[p].pc > 2
    <3>1. AtEnd(p) \/ call[p].op \in {"create", "join"}
      BY <1>1, <1>2 DEF CallEnds
    <3>2. ~AtEnd(p) => Op(p).op \in {"create", "join"}
      BY <1>2, <3>1 DEF OrderedInv, ViolationInv, Control, SectionRunsOn
    <3>3. CASE AtEnd(p)
      BY <1>1, <3>3, ViolationCalls
    <3>4. CASE ~AtEnd(p)
      BY <1>1, <3>2, <3>4, ViolationLines
    <3>. QED
      BY <3>3, <3>4
  <2>4. Value(p, "x") = 1 /\ Value(p, "y") = 1
    BY <1>1, <1>2, <1>4, <2>3 DEF MainSets, MainLeaves, G!Open
  <2>. QED
    BY <1>1, <1>2, <1>4, <2>2, <2>4 DEF AsSerial
<1>5. CASE checkpoint[p].pc # 1
  <2>1. writes[p] = {} /\ AsSerial
    BY <1>1, <1>2, <1>5 DEF MainSets, MainLeaves, G!Open
  <2>2. \A o \in Objects : heap'[o] = heap[o]
    BY <1>2, <2>1 DEF Value
  <2>3. FirstDone' <=> FirstDone
    <3>1. \A q \in Born : stack[q].fn = "fn1" => phase'[q] = phase[q]
      BY <1>2, <1>5 DEF Same, Born
    <3>. QED
      BY <1>2, <1>3, <3>1 DEF FirstDone
  <2>. QED
    BY <1>1, <2>1, <2>2, <2>3 DEF AsSerial
<1>. QED
  BY <1>4, <1>5

\* fn1 clears x; fn2 waits for fn1, and does not find x set.
LEMMA ThreadCommits ==
  ASSUME OrderedInv, NEW p \in Born, Commit(p), stack[p].fn # "main"
  PROVE  AsSerial'
<1>1. /\ p \in Procs /\ Shapes /\ program = "order_violation"
      /\ ThreadTests(p) /\ ThreadLeaves(p) /\ Precedence(p)
      /\ stack[p].fn \in {"fn1", "fn2"}
      /\ "x" \in Objects /\ "y" \in Objects
  <2>1. Shapes /\ program = "order_violation" /\ p \in Procs
    BY DEF Born, OrderedInv, ViolationInv, Control
  <2>. QED
    BY <2>1, ViolationCalls DEF OrderedInv, ViolationInv, PrecedenceInv, FirstInv, SerialInv,
                                LeavesSomething, LeavesAsSerial, Objects
<1>2. /\ UNCHANGED <<program, stack, checkpoint>> /\ \A q \in Procs \ {p} : Same(q)
      /\ phase[p] = "validating" /\ phase'[p] = "ended"
      /\ \A o \in Objects : heap'[o] = Value(p, o)
      /\ reads[p] \cap newer[p] = {}
  BY <1>1, CommitEffect DEF OrderedInv, ViolationInv, programVars
<1>3. Born' = Born
  BY <1>2 DEF Born, Same
<1>4. stack[p].pc > 2 /\ stack[p].pc \in Nat /\ phase[p] \in G!Open /\ phase'[p] \notin G!Open
  <2>1. stack[p].pc \in Nat
    BY <1>1 DEF Shapes, Frames
  <2>. QED
    BY <1>1, <1>2, <2>1, ThreadRuns DEF OrderedInv, ViolationInv, G!Open
<1>5. CASE stack[p].fn = "fn1"
  <2>1. Value(p, "x") = 0 /\ Value(p, "y") = 1
    BY <1>1, <1>4, <1>5 DEF ThreadLeaves
  <2>2. FirstDone'
    BY <1>2, <1>3, <1>4, <1>5 DEF FirstDone
  <2>. QED
    BY <1>1, <1>2, <2>1, <2>2 DEF AsSerial
<1>6. CASE stack[p].fn = "fn2"
  <2>1. FirstDone
    <3>1. PICK q \in before[p] : q \in Born /\ stack[q].fn = "fn1"
      BY <1>1, <1>6 DEF Precedence, HasFirst
    <3>2. before[p] \cap hasty = {}
      BY <1>1 DEF Precedence, OrderedInv, PatientInv, Patient
    <3>3. phase[q] = "exited"
      BY <1>1, <1>2, <3>1, <3>2 DEF OrderedInv, WaitedOrder
    <3>. QED
      BY <3>1, <3>3 DEF FirstDone, G!Open
  <2>2. heap["x"] = 0 /\ heap["y"] = 1
    BY <1>1, <2>1 DEF ThreadLeaves, AsSerial
  <2>3. writes[p] = {}
    <3> SUFFICES ASSUME writes[p] # {} PROVE FALSE
      OBVIOUS
    <3>1. Tested(stack[p].fn) = "x"
      BY <1>6 DEF Tested
    <3>2. Page("x") \in reads[p] /\ Page("x") \notin newer[p] => Value(p, "x") = 1
      BY <1>1, <1>4, <3>1 DEF ThreadTests
    <3>3. Page("x") \in reads[p]
      BY <1>1, <1>4, <3>1 DEF ThreadTests
    <3>4. Page("x") \notin newer[p]
      BY <1>2, <3>3
    <3>5. Value(p, "x") = heap["x"]
      BY <1>1, <1>4, <1>6, <3>4 DEF ThreadLeaves
    <3>. QED
      BY <2>2, <3>2, <3>3, <3>4, <3>5
  <2>4. \A o \in Objects : heap'[o] = heap[o]
    BY <1>2, <2>3 DEF Value
  <2>5. FirstDone'
    <3>1. PICK q \in Born : stack[q].fn = "fn1" /\ phase[q] \notin G!Open
      BY <2>1 DEF FirstDone
    <3>2. q # p /\ phase'[q] = phase[q] /\ stack'[q] = stack[q]
      BY <1>2, <1>6, <3>1 DEF Same, Born
    <3>. QED
      BY <1>3, <3>1, <3>2 DEF FirstDone, G!Open
  <2>. QED
    BY <1>1, <2>2, <2>4, <2>5 DEF AsSerial
<1>. QED
  BY <1>1, <1>5, <1>6

LEMMA CommitSerial ==
  ASSUME OrderedInv, NEW p \in Procs, Commit(p)
  PROVE  SerialInv'
<1>1. Shapes /\ program = "order_violation" /\ RootAlone
  BY DEF OrderedInv, ViolationInv, Control
<1>2. /\ UNCHANGED <<program, stack, checkpoint>> /\ \A q \in Procs \ {p} : Same(q)
      /\ phase[p] = "validating" /\ phase'[p] = "ended"
      /\ \A o \in Objects : heap'[o] = Value(p, o)
      /\ \A q \in Procs \ {p} : newer'[q] = newer[q] \cup writes[p]
  BY <1>1, CommitEffect DEF OrderedInv, ViolationInv, programVars
<1>3. p \in Born /\ Born' = Born
  BY <1>1, <1>2 DEF RootAlone, Born, Same
<1>4. AsSerial' /\ (stack[p].fn = "main" => checkpoint[p].pc = 1 \/ writes[p] = {})
  BY <1>3, MainCommits, ThreadCommits
<1>5. LeavesAsSerial(p)'
  BY <1>2, <1>4 DEF LeavesAsSerial, MainLeaves, ThreadLeaves, G!Open
<1>6. Page("x") \notin writes[p] => heap'["x"] = heap["x"]
  BY <1>2 DEF Value, Objects
<1>7. \A q \in Born \ {p} : LeavesAsSerial(q)'
  BY <1>2, <1>4, <1>6, SerialStays DEF OrderedInv, SerialInv, Born
<1>. QED
  BY <1>3, <1>5, <1>7 DEF SerialInv

LEMMA ResumeSerial ==
  ASSUME OrderedInv, NEW p \in Procs, Rollback(p) \/ JoinReturns(p)
  PROVE  SerialInv'
<1>1. Shapes /\ program = "order_violation"
  BY DEF OrderedInv, ViolationInv, Control
<1>2. /\ Begins({p})
      /\ \/ phase[p] = "validating" /\ stack'[p] = checkpoint[p]
         \/ /\ phase[p] = "ended" /\ call[p].op = "join"
            /\ stack'[p].fn = stack[p].fn /\ stack'[p].pc = stack[p].pc + 1
  BY <1>1, RollbackEffect, JoinEffect DEF OrderedInv, ViolationInv
<1>3. /\ UNCHANGED <<program, heap>>
      /\ phase'[p] = "running" /\ writes'[p] = {} /\ newer'[p] = {} /\ checkpoint'[p] = stack'[p]
      /\ \A q \in Procs \ {p} : Same(q) /\ newer'[q] = newer[q]
  BY <1>2 DEF Begins
<1>4. Born' = Born
  BY <1>2, <1>3 DEF Born, Same
<1>5. ASSUME p \in Born
      PROVE  /\ stack'[p].fn = stack[p].fn /\ checkpoint[p].fn = stack[p].fn
             /\ stack[p].fn # "main" => phase[p] = "validating" /\ stack'[p] = checkpoint[p]
  <2>1. checkpoint[p].fn = stack[p].fn
    BY <1>5 DEF OrderedInv, ViolationInv, Control, SectionRunsOn
  <2>. QED
    BY <1>1, <1>2, <1>5, <2>1, ThreadRuns DEF OrderedInv, ViolationInv
<1>6. AsSerial' <=> AsSerial
  <2>1. \A q \in Born : stack'[q].fn = stack[q].fn
    BY <1>3, <1>5 DEF Same, Born
  <2>2. \A q \in Born : stack[q].fn = "fn1" => (phase'[q] \in G!Open <=> phase[q] \in G!Open)
    BY <1>3, <1>5 DEF Same, Born, G!Open
  <2>. QED
    BY <1>3, <1>4, <2>1, <2>2, DoneStays
<1>7. ASSUME p \in Born PROVE LeavesAsSerial(p)'
  <2>1. LeavesAsSerial(p) /\ LeavesSomething(p) /\ SectionRunsOn(p)
    BY <1>7 DEF OrderedInv, ViolationInv, Control, FirstInv, SerialInv
  <2>2. CASE stack[p].fn = "main"
    <3>1. checkpoint'[p].pc = 1 => stack'[p].pc = 1
      BY <1>3
    <3>2. checkpoint'[p].pc # 1 => AsSerial
      BY <1>2, <1>3, <2>1, <2>2 DEF LeavesAsSerial, MainLeaves
    <3>3. MainLeaves(p)'
      BY <1>3, <1>6, <3>1, <3>2 DEF MainLeaves
    <3>. QED
      BY <1>5, <1>7, <2>2, <3>3 DEF LeavesAsSerial
  <2>3. CASE stack[p].fn # "main"
    <3>1. AsSerial /\ stack'[p].pc = 1
      BY <1>5, <1>7, <2>1, <2>3 DEF LeavesAsSerial, ThreadLeaves, LeavesSomething, ThreadTests
    <3>2. \A o : Value(p, o)' = heap'[o]
      BY <1>3 DEF Value
    <3>3. ThreadLeaves(p)'
      BY <1>6, <3>1, <3>2 DEF ThreadLeaves, AsSerial
    <3>. QED
      BY <1>5, <1>7, <2>3, <3>3 DEF LeavesAsSerial
  <2>. QED
    BY <2>2, <2>3
<1>8. \A q \in Born \ {p} : LeavesAsSerial(q)'
  BY <1>3, <1>6, SerialStays DEF OrderedInv, SerialInv, Born
<1>. QED
  BY <1>4, <1>7, <1>8 DEF SerialInv

LEMMA ForkSerial ==
  ASSUME OrderedInv, NEW p \in Procs, NEW c \in Procs, Fork(p, c)
  PROVE  SerialInv'
<1>1. Shapes /\ program = "order_violation" /\ RootAlone
  BY DEF OrderedInv, ViolationInv, Control
<1>p. phase[p] = "ended" /\ call[p].op = "create"
  BY DEF Fork, G!Fork
<1>2. p # Root => ~AtEnd(p) /\ Op(p).op = "create" /\ p \in Born
  BY <1>p DEF OrderedInv, ViolationInv, Control, SectionRunsOn, Born
<1>3. /\ c # p /\ Begins({p, c}) /\ phase[c] = "unborn"
      /\ stack'[p].fn = stack[p].fn /\ stack'[p].pc = stack[p].pc + 1
      /\ stack'[c] = Enter(IF p = Root THEN "main" ELSE Op(p).fn)
  BY <1>1, <1>2, ForkEffect DEF OrderedInv, ViolationInv
<1>4. /\ UNCHANGED <<program, heap>>
      /\ \A q \in {p, c} : /\ phase'[q] = "running" /\ writes'[q] = {} /\ newer'[q] = {}
                           /\ checkpoint'[q] = stack'[q]
      /\ \A q \in Procs \ {p, c} : Same(q) /\ newer'[q] = newer[q]
  BY <1>3 DEF Begins
<1>5. c # Root /\ Born' = Born \cup {c} /\ c \notin Born
  BY <1>p, <1>1, <1>3, <1>4 DEF RootAlone, Born, Same
<1>6. stack'[c].fn = (IF p = Root THEN "main" ELSE Op(p).fn) /\ stack'[c].pc = 1
      /\ checkpoint'[c].pc = 1
  <2>1. \A f : Enter(f).fn = f /\ Enter(f).pc = 1
    BY DEF Enter
  <2>. QED
    BY <1>3, <1>4, <2>1
<1>7. ASSUME p # Root
      PROVE  AsSerial /\ stack[p].fn = "main" /\ stack[p].pc \in Nat /\ stack[p].pc > 2
             /\ Op(p).fn # "main"
  <2>1. LeavesAsSerial(p) /\ stack[p].pc \in Nat \ {0}
    BY <1>1, <1>2, <1>7 DEF OrderedInv, SerialInv, Shapes, Frames, Born
  <2>2. stack[p].fn = "main" /\ stack[p].pc > 2 /\ Op(p).fn # "main"
    BY <1>1, <1>2, <1>7, <2>1, ViolationLines, OpTyped
  <2>. QED
    BY <1>p, <2>1, <2>2 DEF LeavesAsSerial, MainLeaves
<1>8. AsSerial' <=> AsSerial
  <2>1. \A q \in Born : stack'[q].fn = stack[q].fn
    BY <1>3, <1>4, <1>5 DEF Same, Born
  <2>2. \A q \in Born : stack[q].fn = "fn1" => (phase'[q] \in G!Open <=> phase[q] \in G!Open)
    BY <1>4, <1>5, <1>7 DEF Same, Born
  <2>3. \A q \in Born' : q \in Born \/ phase'[q] \in G!Open
    BY <1>4, <1>5 DEF G!Open
  <2>. QED
    BY <1>4, <1>5, <2>1, <2>2, <2>3, DoneStays
<1>9. LeavesAsSerial(c)'
  <2>1. CASE p = Root
    BY <1>4, <1>6, <2>1 DEF LeavesAsSerial, MainLeaves
  <2>2. CASE p # Root
    <3>1. \A o : Value(c, o)' = heap'[o]
      BY <1>4 DEF Value
    <3>2. ThreadLeaves(c)'
      BY <1>6, <1>7, <1>8, <2>2, <3>1 DEF ThreadLeaves, AsSerial
    <3>. QED
      BY <1>6, <1>7, <2>2, <3>2 DEF LeavesAsSerial
  <2>. QED
    BY <2>1, <2>2
<1>10. ASSUME p # Root PROVE LeavesAsSerial(p)'
  BY <1>3, <1>4, <1>7, <1>8, <1>10 DEF LeavesAsSerial, MainLeaves
<1>11. \A q \in Born \ {p} : LeavesAsSerial(q)'
  BY <1>4, <1>5, <1>8, SerialStays DEF OrderedInv, SerialInv, Born
<1>. QED
  BY <1>5, <1>9, <1>10, <1>11 DEF SerialInv, Born

LEMMA NextSerial ==
  OrderedInv /\ [Next]_vars => SerialInv'
<1> SUFFICES ASSUME OrderedInv, [Next]_vars PROVE SerialInv'
  OBVIOUS
<1>1. CASE UNCHANGED vars \/ Terminated
  <2>1. UNCHANGED <<program, heap, newer>> /\ \A q \in Procs : Same(q)
    BY <1>1 DEF Terminated, vars, gvars, heapVars, programVars, Same
  <2>2. Born' = Born
    BY <2>1 DEF Born, Same
  <2>3. AsSerial' <=> AsSerial
    BY <2>1, <2>2, DoneStays DEF Born, Same
  <2>. QED
    BY <2>1, <2>2, <2>3, SerialStays DEF OrderedInv, SerialInv, Born
<1>. QED
  BY <1>1, ProgramSerial, PhaseSerial, CommitSerial, ResumeSerial, ForkSerial DEF Next, Library

\* Both threads have ended, fn1 as if it had been called first.
LEMMA ViolationEnds ==
  ASSUME OrderedInv, UnusedInv, MainIsBorn, AllEnded
  PROVE  heap = SerialOutcome(program)
<1>1. Shapes /\ program = "order_violation" /\ EndInv
  BY DEF OrderedInv, ViolationInv, Control
<1>2. PICK p \in Born : TRUE
  <2>1. phase[Root] = "exited"
    BY SystemAssumption DEF AllEnded, OrderedInv, ViolationInv, Control, RootAlone
  <2>. QED
    BY <1>1, <2>1 DEF EndInv, RootEnds, MainIsBorn
<1>3. \A q \in Born : phase[q] = "exited" /\ AtEnd(q) /\ q \in Procs
  BY <1>1 DEF AllEnded, Born, EndInv, CallEnds
<1>4. ASSUME NEW q \in Born, stack[q].fn = "fn1" PROVE AsSerial /\ FirstDone
  BY <1>3, <1>4 DEF OrderedInv, SerialInv, LeavesAsSerial, ThreadLeaves, FirstDone, G!Open
<1>5. \E q \in Born : stack[q].fn = "fn1"
  <2>1. Precedence(p)
    BY DEF OrderedInv, PrecedenceInv
  <2>2. stack[p].fn \in {"main", "fn1", "fn2"} /\ stack[p].pc \in Nat
    BY <1>1, <1>3, ViolationCalls DEF Shapes, Frames
  <2>3. stack[p].fn = "main" => stack[p].pc > 3
    BY <1>1, <1>3, <2>2, ViolationCalls
  <2>. QED
    BY <2>1, <2>2, <2>3 DEF Precedence, HasFirst
<1>6. heap["x"] = 0 /\ heap["y"] = 1
  BY <1>4, <1>5 DEF AsSerial
<1>7. \A o \in Objects : heap[o] = IF o = "y" THEN 1 ELSE 0
  BY <1>6 DEF UnusedInv, Unused, Objects
<1>8. heap \in Heaps
  BY <1>1 DEF Shapes, Heaps
<1>9. \A g, h \in Heaps : (\A o \in Objects : g[o] = h[o]) => g = h
  BY DEF Heaps
<1>. QED
  BY <1>1, <1>7, <1>8, <1>9, ViolationOutcome

\* What holds of every program, with NO_ORDER or without.
CountingInv ==
  /\ Control /\ EndInv
  /\ program # "order_violation" => CountInv
  /\ program \in Verifying => Families

LEMMA CountingKnown == Spec => []CountingInv
<1>1. Init => CountingInv
  <2>1. Init => Born = {}
    BY DEF Init, G!Init, Born
  <2>. QED
    BY <2>1, InitControl, InitCounts, InitEnds DEF CountingInv, Families
<1>2. Threads /\ JoinedExited /\ CountingInv /\ [Next]_vars => CountingInv'
  <2> SUFFICES ASSUME Threads, JoinedExited, CountingInv, [Next]_vars PROVE CountingInv'
    OBVIOUS
  <2>1. program' = program /\ Control' /\ EndInv'
    BY ProgramIsFixed, NextControl, NextEnds DEF CountingInv
  <2>2. program # "order_violation" => CountInv'
    BY NextCounts DEF CountingInv
  <2>3. program \in Verifying => Families'
    BY NextFamilies DEF CountingInv
  <2>4. (program \in Verifying)' = (program \in Verifying)
    BY <2>1 DEF Verifying
  <2>. QED
    BY <2>1, <2>2, <2>3, <2>4 DEF CountingInv
<1>. QED
  BY <1>1, <1>2, ThreadsKnown, JoinedKnown, PTL DEF Spec

LEMMA CountingResult ==
  MainIsBorn /\ JoinedExited /\ CountingInv /\ program # "order_violation" => SequentialResult
<1> SUFFICES ASSUME MainIsBorn, JoinedExited, CountingInv, program # "order_violation", AllEnded
             PROVE  heap = SerialOutcome(program)
  BY DEF SequentialResult, AllEnded
<1>. QED
  BY CountingEnds DEF CountingInv, CountInv

\* The programs that only count need no order: what they leave in the heap is
\* what they leave without threads, whichever thread commits first, with NO_ORDER
\* (gthread.cc:42) or without.
THEOREM CountsAreSerial == Spec => [](program # "order_violation" => SequentialResult)
BY CountingResult, CountingKnown, MainKnown, JoinedKnown, PTL

\* Without NO_ORDER every program, order_violation.cc too, leaves in the heap what
\* it leaves there if every pthread_create is replaced by a call of the function:
\* a thread waits for its predecessor before it commits (gthread.cc:100), and
\* rolls back if what it has read has changed.
THEOREM ResultIsSerial ==
  ASSUME ~NoOrder
  PROVE  Spec => []SequentialResult
<1> DEFINE Violates == FirstInv /\ UnusedInv /\ PrecedenceInv /\ PatientInv /\ SerialInv
           I == program = "order_violation" => Violates
           K == /\ CountingInv /\ Threads /\ JoinedExited /\ MainIsBorn /\ WaitedOrder
                /\ before \in [Procs -> SUBSET Procs]
<1>1. Init => I
  <2>1. Init => Born = {}
    BY DEF Init, G!Init, Born
  <2>. QED
    BY <2>1, InitUnused, InitPrecedence, InitPatient DEF FirstInv, SerialInv
<1>2. K /\ K' /\ I /\ [Next]_vars => I'
  <2> SUFFICES ASSUME K, K', program = "order_violation", Violates, [Next]_vars PROVE Violates'
    BY ProgramIsFixed
  <2>1. OrderedInv
    BY DEF OrderedInv, ViolationInv, CountingInv
  <2>2. FirstInv' /\ UnusedInv'
    BY NextFirst, NextUnused DEF CountingInv
  <2>3. PrecedenceInv' /\ SerialInv'
    BY <2>1, NextPrecedence, NextSerial DEF OrderedInv
  <2>4. PatientInv'
    BY <2>1, <2>2, NextPatient DEF OrderedInv, CountingInv
  <2>. QED
    BY <2>2, <2>3, <2>4
<1>3. K /\ I => SequentialResult
  <2> SUFFICES ASSUME K, I PROVE SequentialResult
    OBVIOUS
  <2>1. CASE program = "order_violation"
    <3> SUFFICES ASSUME AllEnded PROVE heap = SerialOutcome(program)
      BY DEF SequentialResult, AllEnded
    <3>. QED
      BY <2>1, ViolationEnds DEF OrderedInv, ViolationInv, CountingInv
  <2>2. CASE program # "order_violation"
    BY <2>2, CountingResult
  <2>. QED
    BY <2>1, <2>2
<1>. QED
  BY <1>1, <1>2, <1>3, CountingKnown, ThreadsKnown, JoinedKnown, MainKnown, OrderKnown,
     BeforeKnown, PTL DEF Spec

=============================================================================
