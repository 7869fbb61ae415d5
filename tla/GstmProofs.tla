---------------------------- MODULE GstmProofs ----------------------------
(***************************************************************************)
(* Theorems about Gstm, for any number of processes, pages and contents    *)
(* and any bound on the sections.                                          *)
(***************************************************************************)
EXTENDS Gstm, FiniteSetTheorems, TLAPS

-----------------------------------------------------------------------------
(* The inductive invariant *)

\* A page without an entry has version 0.
Base(v) == IF v = Absent THEN 0 ELSE v

\* The mutex is held by the one process that copies pages, and only a page
\* that process has still to copy can be torn.
MutexInv ==
  /\ mutex # NoProc => phase[mutex] = "copying"
  /\ \A p \in Procs : phase[p] = "copying" => mutex = p
  /\ \A p \in Procs : phase[p] # "copying" => toCommit[p] = {}
  /\ \A x \in Pages : globalHeap[x] = Torn => mutex # NoProc /\ x \in toCommit[mutex]

\* The entries and the protection of a page say the same of it, and its
\* entries are the version of the snapshot and its successor.
Tracked(t, v) ==
  /\ t.read # Absent => t.read = Base(v)
  /\ t.write # Absent => t.write = Base(v) + 1 /\ t.read # Absent
  /\ t.prot = "none" <=> t.read = Absent
  /\ t.prot = "readwrite" <=> t.write # Absent

PageTracked(p, x) ==
  /\ phase[p] \in Open \cup {"copying"} =>
       Tracked(track[p][x], localPageVersion[p][x])
  /\ localHeap[p][x] # NotCopied =>
       /\ phase[p] \in Open \cup {"copying", "aborting"}
       /\ track[p][x].write # Absent
       /\ track[p][x].read # Absent
  /\ phase[p] \in Open \cup {"copying"} /\ track[p][x].write # Absent =>
       localHeap[p][x] # NotCopied

TrackInv == \A p \in Procs : \A x \in Pages : PageTracked(p, x)

\* While a section is open, a page is dirty exactly when its version has moved
\* on, and what the section came across in a clean page is still there.
PageWitnessed(p, x) ==
  /\ Base(localPageVersion[p][x]) <= Base(globalPageVersion[x])
  /\ x \in dirty[p] <=> Base(localPageVersion[p][x]) # Base(globalPageVersion[x])
  /\ x \notin dirty[p] /\ globalHeap[x] # Torn => seen[p][x] \subseteq {globalHeap[x]}
  /\ seen[p][x] # {} => track[p][x].read # Absent
  /\ localHeap[p][x] = Torn => Torn \in seen[p][x]

SnapshotInv ==
  \A p \in Procs :
    /\ phase[p] \in Open => \A x \in Pages : PageWitnessed(p, x)
    /\ phase[p] \notin Open => dirty[p] = {} /\ seen[p] = NothingSeen

\* A page on its way to the heap file is whole and is one version ahead of it.
CommitInv ==
  \A p \in Procs : \A x \in toCommit[p] :
    /\ localHeap[p][x] \in Contents
    /\ track[p][x].write = Base(globalPageVersion[x]) + 1

\* Only a section that has come across a torn page has one on its stack, and
\* an attempt starts with the stack that SaveContext saved.
StackInv ==
  \A p \in Procs :
    /\ savedStack[p] # Torn
    /\ phase[p] = "snapshot" => stack[p] = savedStack[p]
    /\ phase[p] \notin Open \cup {"aborting"} => stack[p] # Torn
    /\ phase[p] \in Open /\ stack[p] = Torn => \E x \in Pages : Torn \in seen[p][x]

IInv == MutexInv /\ TrackInv /\ SnapshotInv /\ CommitInv /\ StackInv

-----------------------------------------------------------------------------
(* Page faults *)

\* A load finds its page readable: a fault records the version of the
\* snapshot, and the write entry stays as it was.
LEMMA LoadFaults ==
  ASSUME NEW t \in Tracking, NEW v \in Version, Tracked(t, v)
  PROVE  /\ FaultsOfLoad(t, v) \in Tracking
         /\ Tracked(FaultsOfLoad(t, v), v)
         /\ FaultsOfLoad(t, v).read # Absent
         /\ FaultsOfLoad(t, v).write = t.write
  <1>1. CASE t.prot = "none"
    <2>1. FaultsOfLoad(t, v) = HandleReads(t, v)
      BY <1>1 DEF FaultsOfLoad, SegfaultHandler, Tracked
    <2>2. HandleReads(t, v) = [read |-> Base(v), write |-> t.write, prot |-> "read"]
      BY DEF HandleReads, Base, Tracking
    <2>3. t.write = Absent /\ Base(v) \in Nat
      BY <1>1, GstmAssumption DEF Tracked, Base, Version
    <2> QED
      BY <2>1, <2>2, <2>3, GstmAssumption
         DEF Tracking, Version, Protection, Tracked
  <1>2. CASE t.prot # "none"
    BY <1>2 DEF FaultsOfLoad, Tracked
  <1> QED
    BY <1>1, <1>2

\* A store finds its page writable after at most two faults, the first of
\* which has put the page in the read set.
LEMMA StoreFaults ==
  ASSUME NEW t \in Tracking, NEW v \in Version, Tracked(t, v)
  PROVE  /\ FaultsOfStore(t, v) \in Tracking
         /\ Tracked(FaultsOfStore(t, v), v)
         /\ FaultsOfStore(t, v).read # Absent
         /\ FaultsOfStore(t, v).write # Absent
  <1> DEFINE once == FaultsOfLoad(t, v)
  <1>1. /\ once \in Tracking
        /\ Tracked(once, v)
        /\ once.read # Absent
    BY LoadFaults
  <1> HIDE DEF once
  <1>2. CASE once.prot = "readwrite"
    BY <1>1, <1>2 DEF FaultsOfStore, Tracked, once
  <1>3. CASE once.prot # "readwrite"
    <2>1. FaultsOfStore(t, v) = HandleWrites(once, v)
      BY <1>1, <1>3 DEF FaultsOfStore, SegfaultHandler, once
    <2>2. HandleWrites(once, v) = [read |-> once.read, write |-> Base(v) + 1, prot |-> "readwrite"]
      BY <1>1, GstmAssumption DEF HandleWrites, Base, Tracking, Version
    <2>3. Base(v) + 1 \in Nat /\ Base(v) + 1 # Absent /\ once.read \in Version
      BY <1>1, GstmAssumption DEF Base, Version, Tracking
    <2> QED
      BY <1>1, <2>1, <2>2, <2>3, GstmAssumption
         DEF Tracking, Version, Protection, Tracked
  <1> QED
    BY <1>2, <1>3

\* The handlers keep the entries of a page well-formed whatever these hold.
LEMMA HandlersType ==
  ASSUME NEW t \in Tracking, NEW v \in Version
  PROVE  SegfaultHandler(t, v) \in Tracking
  <1>1. v # Absent => v \in Nat
    BY DEF Version
  <1>2. HandleReads(t, v) \in Tracking
    BY <1>1 DEF HandleReads, Tracking, Version, Protection
  <1>3. HandleWrites(t, v) \in Tracking
    BY <1>1 DEF HandleWrites, Tracking, Version, Protection
  <1> QED
    BY <1>2, <1>3 DEF SegfaultHandler

LEMMA FaultsType ==
  ASSUME NEW t \in Tracking, NEW v \in Version
  PROVE  FaultsOfLoad(t, v) \in Tracking /\ FaultsOfStore(t, v) \in Tracking
  <1>1. FaultsOfLoad(t, v) \in Tracking
    BY HandlersType DEF FaultsOfLoad
  <1> QED
    BY <1>1, HandlersType DEF FaultsOfStore

-----------------------------------------------------------------------------
(* Type correctness *)

LEMMA InitType == Init => TypeOK
  BY GstmAssumption
     DEF Init, TypeOK, Phases, Version, Protection, Tracking, NoVersions,
         NoPrivatePages, NothingSeen, Untracked

\* What a process's page shows, and what its section has come across.
LEMMA PageTypes ==
  ASSUME TypeOK, NEW p \in Procs, NEW x \in Pages
  PROVE  /\ LocalPage(p, x) \in Contents \cup {Torn}
         /\ Witness(p, x) \in [Procs -> [Pages -> SUBSET (Contents \cup {Torn})]]
  BY GstmAssumption DEF TypeOK, LocalPage, Witness

LEMMA NextType == TypeOK /\ [Next]_vars => TypeOK'
  <1> SUFFICES ASSUME TypeOK, [Next]_vars PROVE TypeOK'
    OBVIOUS
  <1> USE GstmAssumption
  <1>g. ASSUME NEW p \in Procs, NEW s \in Phases, Goto(p, s)
        PROVE  phase' \in [Procs -> Phases]
    BY <1>g DEF Goto, TypeOK
  <1>d. ASSUME NEW p \in Procs, Decided(p)
        PROVE  /\ seen' \in [Procs -> [Pages -> SUBSET (Contents \cup {Torn})]]
               /\ dirty' \in [Procs -> SUBSET Pages]
    BY <1>d DEF Decided, NothingSeen, TypeOK
  <1>u. ASSUME NEW p \in Procs, UpdateHeap(p)
        PROVE  /\ localHeap' \in [Procs -> [Pages -> Contents \cup {Torn, NotCopied}]]
               /\ track' \in [Procs -> [Pages -> Tracking]]
    <2>1. ASSUME NEW t \in Tracking
          PROVE  [t EXCEPT !.prot = "readwrite"] \in Tracking
      BY DEF Tracking, Protection
    <2>2. Protect(track[p], "readwrite") \in [Pages -> Tracking]
      BY <2>1 DEF Protect, TypeOK
    <2> QED
      BY <1>u, <2>2 DEF UpdateHeap, NoPrivatePages, TypeOK
  <1>m. ASSUME NEW p \in Procs, Unmap(p)
        PROVE  /\ localPageVersion' \in [Procs -> [Pages -> Version]]
               /\ track' \in [Procs -> [Pages -> Tracking]]
               /\ localHeap' \in [Procs -> [Pages -> Contents \cup {Torn, NotCopied}]]
               /\ toCommit' \in [Procs -> SUBSET Pages]
               /\ stack' \in [Procs -> Contents \cup {Torn}]
               /\ savedStack' \in [Procs -> Contents \cup {Torn}]
               /\ sections' \in 1..MaxSections
    BY <1>m DEF Unmap, NoVersions, NoPrivatePages, Untracked, Version, Tracking,
                Protection, TypeOK
  <1>1. ASSUME NEW p \in Procs, SaveContext(p) PROVE TypeOK'
    BY <1>1, <1>g DEF SaveContext, Phases, sharedVars, trackVars, history, TypeOK
  <1>2. ASSUME NEW p \in Procs, Snapshot(p) PROVE TypeOK'
    BY <1>2, <1>g
       DEF Snapshot, Phases, Untracked, Version, Tracking, Protection,
           sharedVars, stackVars, history, TypeOK
  <1>3. ASSUME NEW p \in Procs, NEW x \in Pages, Load(p, x) PROVE TypeOK'
    <2>1. FaultsOfLoad(track[p][x], localPageVersion[p][x]) \in Tracking
      BY FaultsType DEF TypeOK
    <2> QED
      BY <1>3, <2>1, PageTypes DEF Load, sharedVars, TypeOK
  <1>4. ASSUME NEW p \in Procs, NEW x \in Pages, Store(p, x) PROVE TypeOK'
    <2>1. FaultsOfStore(track[p][x], localPageVersion[p][x]) \in Tracking
      BY FaultsType DEF TypeOK
    <2> QED
      BY <1>4, <2>1, PageTypes DEF Store, sharedVars, stackVars, TypeOK
  <1>5. ASSUME NEW p \in Procs, RealSegfault(p) PROVE TypeOK'
    BY <1>5, <1>g, <1>d, <1>m DEF RealSegfault, Phases, sharedVars, TypeOK
  <1>6. ASSUME NEW p \in Procs, CommitEmpty(p) PROVE TypeOK'
    BY <1>6, <1>g, <1>d, <1>u DEF CommitEmpty, Phases, sharedVars, stackVars, TypeOK
  <1>7. ASSUME NEW p \in Procs, StartCommit(p) PROVE TypeOK'
    BY <1>7, <1>g DEF StartCommit, Phases, sharedVars, trackVars, stackVars, history, TypeOK
  <1>8. ASSUME NEW p \in Procs, PredecessorExited(p) PROVE TypeOK'
    BY <1>8, <1>g
       DEF PredecessorExited, Phases, sharedVars, trackVars, stackVars, history, TypeOK
  <1>9. ASSUME NEW p \in Procs, ValidateSuccess(p) PROVE TypeOK'
    BY <1>9, <1>g, <1>d DEF ValidateSuccess, Phases, WriteSet, stackVars, TypeOK
  <1>10. ASSUME NEW p \in Procs, ValidateFailure(p) PROVE TypeOK'
    BY <1>10, <1>g, <1>d DEF ValidateFailure, Phases, trackVars, stackVars, TypeOK
  <1>11. ASSUME NEW p \in Procs, NEW x \in Pages, CopyStart(p, x) PROVE TypeOK'
    BY <1>11 DEF CopyStart, trackVars, stackVars, history, TypeOK
  <1>12. ASSUME NEW p \in Procs, NEW x \in Pages, CopyFinish(p, x) PROVE TypeOK'
    BY <1>12, PageTypes DEF CopyFinish, Tracking, stackVars, TypeOK
  <1>13. ASSUME NEW p \in Procs, FinishCommit(p) PROVE TypeOK'
    BY <1>13, <1>g, <1>u DEF FinishCommit, Phases, stackVars, history, TypeOK
  <1>14. ASSUME NEW p \in Procs, AtomicAbort(p) PROVE TypeOK'
    BY <1>14, <1>g
       DEF AtomicAbort, Phases, NoPrivatePages, sharedVars, history, TypeOK
  <1>15. ASSUME NEW p \in Procs, NEW c \in Procs, Fork(p, c) PROVE TypeOK'
    <2>1. phase' \in [Procs -> Phases]
      BY <1>15 DEF Fork, Phases, TypeOK
    <2>3. sections' \in 1..MaxSections
      BY <1>15 DEF Fork, TypeOK
    <2>2. /\ localPageVersion' \in [Procs -> [Pages -> Version]]
          /\ track' \in [Procs -> [Pages -> Tracking]]
          /\ localHeap' \in [Procs -> [Pages -> Contents \cup {Torn, NotCopied}]]
          /\ stack' \in [Procs -> Contents \cup {Torn}]
          /\ savedStack' \in [Procs -> Contents \cup {Torn}]
      BY <1>15 DEF Fork, TypeOK
    <2> QED
      BY <1>15, <2>1, <2>2, <2>3 DEF Fork, sharedVars, history, TypeOK
  <1>16. ASSUME NEW p \in Procs, Resume(p) PROVE TypeOK'
    BY <1>16, <1>g DEF Resume, Phases, sharedVars, trackVars, history, TypeOK
  <1>17. ASSUME NEW p \in Procs, Exit(p) PROVE TypeOK'
    BY <1>17, <1>g, <1>m DEF Exit, Phases, sharedVars, history, TypeOK
  <1>18. CASE UNCHANGED vars
    BY <1>18 DEF vars, sharedVars, trackVars, stackVars, history, TypeOK
  <1> QED
    BY <1>1, <1>2, <1>3, <1>4, <1>5, <1>6, <1>7, <1>8, <1>9, <1>10, <1>11,
       <1>12, <1>13, <1>14, <1>15, <1>16, <1>17, <1>18
       DEF Next, Library, Program, Terminated

\* Every variable keeps its type.
THEOREM TypeCorrect == Spec => []TypeOK
  BY InitType, NextType, PTL DEF Spec

-----------------------------------------------------------------------------
(* The mutex *)

LEMMA InitMutexInv == Init => MutexInv
  BY GstmAssumption DEF Init, MutexInv

LEMMA NextMutexInv == TypeOK /\ TrackInv /\ CommitInv /\ MutexInv /\ [Next]_vars => MutexInv'
  <1> SUFFICES ASSUME TypeOK, TrackInv, CommitInv, MutexInv, [Next]_vars PROVE MutexInv'
    OBVIOUS
  <1> USE GstmAssumption
  \* Most steps move one process between phases that have nothing to do with
  \* the mutex.
  <1>a. ASSUME UNCHANGED <<globalHeap, mutex, toCommit>>,
               NEW p \in Procs, phase[p] # "copying",
               NEW s \in Phases \ {"copying"}, Goto(p, s)
        PROVE  MutexInv'
    BY <1>a DEF Goto, MutexInv, TypeOK
  <1>b. ASSUME UNCHANGED <<globalHeap, mutex, toCommit, phase>>
        PROVE  MutexInv'
    BY <1>b DEF MutexInv
  <1>1. ASSUME NEW p \in Procs, SaveContext(p) PROVE MutexInv'
    BY <1>1, <1>a DEF SaveContext, Phases, sharedVars, trackVars
  <1>2. ASSUME NEW p \in Procs, Snapshot(p) PROVE MutexInv'
    BY <1>2, <1>a DEF Snapshot, Phases, sharedVars
  <1>3. ASSUME NEW p \in Procs, NEW x \in Pages, Load(p, x) \/ Store(p, x) PROVE MutexInv'
    BY <1>3, <1>b DEF Load, Store, sharedVars
  <1>5. ASSUME NEW p \in Procs, RealSegfault(p) PROVE MutexInv'
    BY <1>5, <1>a DEF RealSegfault, Phases, sharedVars, Unmap
  <1>6. ASSUME NEW p \in Procs, CommitEmpty(p) PROVE MutexInv'
    BY <1>6, <1>a DEF CommitEmpty, Phases, sharedVars
  <1>7. ASSUME NEW p \in Procs, StartCommit(p) PROVE MutexInv'
    BY <1>7, <1>a DEF StartCommit, Phases, sharedVars, trackVars
  <1>8. ASSUME NEW p \in Procs, PredecessorExited(p) PROVE MutexInv'
    BY <1>8, <1>a DEF PredecessorExited, Phases, sharedVars, trackVars
  <1>9. ASSUME NEW p \in Procs, ValidateSuccess(p) PROVE MutexInv'
    BY <1>9 DEF ValidateSuccess, Goto, MutexInv, TypeOK
  <1>10. ASSUME NEW p \in Procs, ValidateFailure(p) PROVE MutexInv'
    BY <1>10, <1>a DEF ValidateFailure, Phases, trackVars
  <1>11. ASSUME NEW p \in Procs, NEW x \in Pages, CopyStart(p, x) PROVE MutexInv'
    BY <1>11 DEF CopyStart, trackVars, MutexInv, TypeOK
  <1>12. ASSUME NEW p \in Procs, NEW x \in Pages, CopyFinish(p, x) PROVE MutexInv'
    <2>1. LocalPage(p, x) # Torn
      BY <1>12 DEF CopyFinish, CommitInv, LocalPage
    <2>2. mutex = p /\ mutex' = p /\ phase' = phase
      BY <1>12 DEF CopyFinish, MutexInv
    <2>3. globalHeap' = [globalHeap EXCEPT ![x] = LocalPage(p, x)]
      BY <1>12 DEF CopyFinish
    <2>4. toCommit' = [toCommit EXCEPT ![p] = @ \ {x}]
      BY <1>12 DEF CopyFinish
    <2> QED
      BY <2>1, <2>2, <2>3, <2>4 DEF MutexInv, TypeOK
  <1>13. ASSUME NEW p \in Procs, FinishCommit(p) PROVE MutexInv'
    BY <1>13 DEF FinishCommit, Goto, MutexInv, TypeOK
  <1>14. ASSUME NEW p \in Procs, AtomicAbort(p) PROVE MutexInv'
    BY <1>14, <1>a DEF AtomicAbort, Phases, sharedVars
  <1>15. ASSUME NEW p \in Procs, NEW c \in Procs, Fork(p, c) PROVE MutexInv'
    BY <1>15 DEF Fork, sharedVars, MutexInv, TypeOK
  <1>16. ASSUME NEW p \in Procs, Resume(p) PROVE MutexInv'
    BY <1>16, <1>a DEF Resume, Phases, sharedVars, trackVars
  <1>17. ASSUME NEW p \in Procs, Exit(p) PROVE MutexInv'
    BY <1>17, <1>a DEF Exit, Phases, sharedVars, Unmap
  <1>18. CASE UNCHANGED vars
    BY <1>18, <1>b DEF vars, sharedVars, trackVars
  <1> QED
    BY <1>1, <1>2, <1>3, <1>5, <1>6, <1>7, <1>8, <1>9, <1>10, <1>11,
       <1>12, <1>13, <1>14, <1>15, <1>16, <1>17, <1>18
       DEF Next, Library, Program, Terminated

-----------------------------------------------------------------------------
(* The read and write sets *)

LEMMA InitTrackInv == Init => TrackInv
  BY GstmAssumption
     DEF Init, TrackInv, PageTracked, Open, NoPrivatePages

LEMMA NextTrackInv == TypeOK /\ TrackInv /\ [Next]_vars => TrackInv'
  <1> SUFFICES ASSUME TypeOK, TrackInv, [Next]_vars,
                      NEW q \in Procs, NEW y \in Pages
               PROVE  PageTracked(q, y)'
    BY DEF TrackInv
  <1> USE GstmAssumption
  <1>q. PageTracked(q, y)
    BY DEF TrackInv
  \* A step that leaves page y of process q alone and lets q stay where it is,
  \* or take a step forward with the same section.
  <1>s. ASSUME track'[q][y] = track[q][y],
               localPageVersion'[q][y] = localPageVersion[q][y],
               localHeap'[q][y] = localHeap[q][y],
               \/ phase'[q] = phase[q]
               \/ phase[q] \in Open \cup {"copying"} /\ phase'[q] \in Open \cup {"copying", "aborting"}
               \/ phase[q] \notin Open \cup {"copying", "aborting"} /\ phase'[q] \notin Open \cup {"copying"}
        PROVE  PageTracked(q, y)'
    BY <1>q, <1>s DEF PageTracked, Open, TypeOK
  \* A step after which no page of q is private and q is in no section.
  <1>n. ASSUME localHeap'[q] = NoPrivatePages,
               phase'[q] \notin Open \cup {"copying"}
        PROVE  PageTracked(q, y)'
    BY <1>n DEF PageTracked, NoPrivatePages
  <1>1. ASSUME NEW p \in Procs, SaveContext(p) PROVE PageTracked(q, y)'
    BY <1>1, <1>s DEF SaveContext, Goto, Open, trackVars, TypeOK
  <1>2. ASSUME NEW p \in Procs, Snapshot(p) PROVE PageTracked(q, y)'
    <2>1. CASE q # p
      BY <1>2, <1>s, <2>1 DEF Snapshot, Goto, TypeOK
    <2>2. CASE q = p
      BY <1>2, <1>q, <2>2
         DEF Snapshot, Goto, Untracked, PageTracked, Tracked, Open, TypeOK
    <2> QED
      BY <2>1, <2>2
  <1>3. ASSUME NEW p \in Procs, NEW x \in Pages, Load(p, x) PROVE PageTracked(q, y)'
    <2>1. CASE q # p \/ y # x
      BY <1>3, <1>s, <2>1 DEF Load, TypeOK
    <2>2. CASE q = p /\ y = x
      <3> DEFINE t == FaultsOfLoad(track[q][y], localPageVersion[q][y])
      <3>1. Tracked(track[q][y], localPageVersion[q][y])
        BY <1>3, <1>q, <2>2 DEF Load, PageTracked, Open
      <3>2. track[q][y] \in Tracking /\ localPageVersion[q][y] \in Version
        BY DEF TypeOK
      <3>3. /\ Tracked(t, localPageVersion[q][y])
            /\ t.read # Absent
            /\ t.write = track[q][y].write
        BY <3>1, <3>2, LoadFaults
      <3>4. /\ track'[q][y] = t
            /\ UNCHANGED <<phase, localPageVersion, localHeap>>
        BY <1>3, <2>2 DEF Load, TypeOK
      <3> HIDE DEF t
      <3> QED
        BY <1>q, <3>3, <3>4 DEF PageTracked
    <2> QED
      BY <2>1, <2>2
  <1>4. ASSUME NEW p \in Procs, NEW x \in Pages, Store(p, x) PROVE PageTracked(q, y)'
    <2>1. CASE q # p \/ y # x
      BY <1>4, <1>s, <2>1 DEF Store, TypeOK
    <2>2. CASE q = p /\ y = x
      <3> DEFINE t == FaultsOfStore(track[q][y], localPageVersion[q][y])
      <3>1. Tracked(track[q][y], localPageVersion[q][y])
        BY <1>4, <1>q, <2>2 DEF Store, PageTracked, Open
      <3>2. track[q][y] \in Tracking /\ localPageVersion[q][y] \in Version
        BY DEF TypeOK
      <3>3. /\ Tracked(t, localPageVersion[q][y])
            /\ t.read # Absent
            /\ t.write # Absent
        BY <3>1, <3>2, StoreFaults
      <3>4. /\ track'[q][y] = t
            /\ phase' = phase /\ phase[q] = "running"
            /\ localPageVersion' = localPageVersion
            /\ localHeap'[q][y] # NotCopied
        BY <1>4, <2>2 DEF Store, TypeOK
      <3> HIDE DEF t
      <3> QED
        BY <3>3, <3>4 DEF PageTracked, Open
    <2> QED
      BY <2>1, <2>2
  <1>5. ASSUME NEW p \in Procs, RealSegfault(p) \/ Exit(p) PROVE PageTracked(q, y)'
    <2>1. CASE q # p
      BY <1>5, <1>s, <2>1 DEF RealSegfault, Exit, Unmap, Goto, TypeOK
    <2>2. CASE q = p
      BY <1>5, <1>n, <2>2 DEF RealSegfault, Exit, Unmap, Goto, Open, TypeOK
    <2> QED
      BY <2>1, <2>2
  <1>6. ASSUME NEW p \in Procs, CommitEmpty(p) \/ FinishCommit(p) PROVE PageTracked(q, y)'
    <2>1. CASE q # p
      BY <1>6, <1>s, <2>1 DEF CommitEmpty, FinishCommit, UpdateHeap, Goto, TypeOK
    <2>2. CASE q = p
      BY <1>6, <1>n, <2>2 DEF CommitEmpty, FinishCommit, UpdateHeap, Goto, Open, TypeOK
    <2> QED
      BY <2>1, <2>2
  <1>7. ASSUME NEW p \in Procs, StartCommit(p) \/ PredecessorExited(p)
        PROVE  PageTracked(q, y)'
    BY <1>7, <1>s DEF StartCommit, PredecessorExited, Goto, Open, trackVars, TypeOK
  <1>8. ASSUME NEW p \in Procs, ValidateSuccess(p) \/ ValidateFailure(p)
        PROVE  PageTracked(q, y)'
    BY <1>8, <1>s DEF ValidateSuccess, ValidateFailure, Goto, Open, trackVars, TypeOK
  <1>9. ASSUME NEW p \in Procs, NEW x \in Pages, CopyStart(p, x) \/ CopyFinish(p, x)
        PROVE  PageTracked(q, y)'
    BY <1>9, <1>s DEF CopyStart, CopyFinish, trackVars
  <1>10. ASSUME NEW p \in Procs, AtomicAbort(p) PROVE PageTracked(q, y)'
    <2>1. CASE q # p
      BY <1>10, <1>s, <2>1 DEF AtomicAbort, Goto, TypeOK
    <2>2. CASE q = p
      BY <1>10, <1>n, <2>2 DEF AtomicAbort, Goto, Open, TypeOK
    <2> QED
      BY <2>1, <2>2
  <1>11. ASSUME NEW p \in Procs, NEW c \in Procs, Fork(p, c) PROVE PageTracked(q, y)'
    <2>1. CASE q = c
      <3>1. localHeap[p][y] = NotCopied
        BY <1>11 DEF Fork, TrackInv, PageTracked, Open
      <3> QED
        BY <1>11, <2>1, <3>1 DEF Fork, PageTracked, Open, TypeOK
    <2>2. CASE q # c
      BY <1>11, <1>s, <2>2 DEF Fork, Open, TypeOK
    <2> QED
      BY <2>1, <2>2
  <1>12. ASSUME NEW p \in Procs, Resume(p) PROVE PageTracked(q, y)'
    BY <1>12, <1>s DEF Resume, Goto, Open, trackVars, TypeOK
  <1>13. CASE UNCHANGED vars
    BY <1>13, <1>s DEF vars, trackVars
  <1> QED
    BY <1>1, <1>2, <1>3, <1>4, <1>5, <1>6, <1>7, <1>8, <1>9, <1>10, <1>11,
       <1>12, <1>13
       DEF Next, Library, Program, Terminated

-----------------------------------------------------------------------------
(* The history of an open section *)

LEMMA InitSnapshotInv == Init => SnapshotInv
  BY GstmAssumption DEF Init, SnapshotInv, Open

\* What a load or store of a page comes across is recorded, and with it the
\* torn contents the page may have.
LEMMA WitnessRecords ==
  ASSUME TypeOK, NEW p \in Procs, NEW x \in Pages,
         PageWitnessed(p, x), seen' = Witness(p, x)
  PROVE  /\ seen[p][x] \subseteq seen'[p][x]
         /\ LocalPage(p, x) = Torn => Torn \in seen'[p][x]
         /\ x \notin dirty[p] /\ globalHeap[x] # Torn => seen'[p][x] \subseteq {globalHeap[x]}
         /\ \A q \in Procs, y \in Pages : q # p \/ y # x => seen'[q][y] = seen[q][y]
  BY DEF TypeOK, PageWitnessed, Witness, LocalPage

LEMMA NextSnapshotInv ==
  TypeOK /\ MutexInv /\ TrackInv /\ CommitInv /\ SnapshotInv /\ [Next]_vars => SnapshotInv'
  <1> DEFINE SnapshotAt(q) ==
        /\ phase[q] \in Open => \A y \in Pages : PageWitnessed(q, y)
        /\ phase[q] \notin Open => dirty[q] = {} /\ seen[q] = NothingSeen
  <1> SUFFICES ASSUME TypeOK, MutexInv, TrackInv, CommitInv, SnapshotInv, [Next]_vars,
                      NEW q \in Procs
               PROVE  SnapshotAt(q)'
    BY DEF SnapshotInv
  <1> USE GstmAssumption
  <1>q. SnapshotAt(q)
    BY DEF SnapshotInv
  \* A step that leaves alone the heap file, what q has recorded and whether
  \* its section is open.
  <1>s. ASSUME UNCHANGED <<globalHeap, globalPageVersion>>,
               localPageVersion'[q] = localPageVersion[q],
               track'[q] = track[q], localHeap'[q] = localHeap[q],
               seen'[q] = seen[q], dirty'[q] = dirty[q],
               phase'[q] \in Open <=> phase[q] \in Open
        PROVE  SnapshotAt(q)'
    BY <1>q, <1>s DEF PageWitnessed
  \* A step that leaves q without an open section.
  <1>n. ASSUME phase'[q] \notin Open, dirty'[q] = {}, seen'[q] = NothingSeen
        PROVE  SnapshotAt(q)'
    BY <1>n
  \* A step between two phases of q without an open section.
  <1>c. ASSUME phase[q] \notin Open, phase'[q] \notin Open, UNCHANGED history
        PROVE  SnapshotAt(q)'
    BY <1>q, <1>c DEF history
  <1> HIDE DEF SnapshotAt
  <1>1. ASSUME NEW p \in Procs, SaveContext(p) PROVE SnapshotAt(q)'
    BY <1>1, <1>s DEF SaveContext, Goto, Open, sharedVars, trackVars, history, TypeOK
  <1>2. ASSUME NEW p \in Procs, Snapshot(p) PROVE SnapshotAt(q)'
    <2>1. CASE q # p
      BY <1>2, <1>s, <2>1 DEF Snapshot, Goto, sharedVars, history, TypeOK
    <2>2. CASE q = p
      <3>1. dirty[q] = {} /\ seen[q] = NothingSeen
        BY <1>2, <1>q, <2>2 DEF Snapshot, SnapshotAt, Open
      <3>2. \A y \in Pages : localHeap[q][y] = NotCopied
        BY <1>2, <2>2 DEF Snapshot, TrackInv, PageTracked, Open
      <3>3. /\ localPageVersion'[q] = globalPageVersion'
            /\ UNCHANGED <<globalHeap, localHeap, seen, dirty>>
            /\ phase'[q] \in Open
        BY <1>2, <2>2 DEF Snapshot, Goto, Open, sharedVars, history, TypeOK
      <3>4. \A y \in Pages : Base(globalPageVersion'[y]) \in Nat
        BY <1>2 DEF Snapshot, sharedVars, TypeOK, Version, Base
      <3>5. \A y \in Pages : PageWitnessed(q, y)'
        BY <3>1, <3>2, <3>3, <3>4 DEF PageWitnessed, NothingSeen
      <3> QED
        BY <3>3, <3>5 DEF SnapshotAt
    <2> QED
      BY <2>1, <2>2
  <1>3. ASSUME NEW p \in Procs, NEW x \in Pages, Load(p, x) PROVE SnapshotAt(q)'
    <2>1. CASE q # p
      <3>1. seen'[q] = seen[q]
        BY <1>3, <2>1 DEF Load, Witness, TypeOK
      <3> QED
        BY <1>3, <1>s, <2>1, <3>1 DEF Load, sharedVars, TypeOK
    <2>2. CASE q = p
      <3>1. /\ phase[q] \in Open /\ phase' = phase
            /\ UNCHANGED <<globalHeap, globalPageVersion, localPageVersion, localHeap, dirty>>
            /\ seen' = Witness(q, x)
        BY <1>3, <2>2 DEF Load, Open, sharedVars
      <3>2. \A y \in Pages : PageWitnessed(q, y) /\ PageTracked(q, y)
        BY <1>q, <3>1 DEF SnapshotAt, TrackInv
      <3>3. /\ track'[q][x] = FaultsOfLoad(track[q][x], localPageVersion[q][x])
            /\ \A y \in Pages : y # x => track'[q][y] = track[q][y]
        BY <1>3, <2>2 DEF Load, TypeOK
      <3>4. track'[q][x].read # Absent
        BY <3>1, <3>2, <3>3, LoadFaults DEF PageTracked, TypeOK
      <3>5. PageWitnessed(q, x)'
        BY <3>1, <3>2, <3>4, WitnessRecords DEF PageWitnessed
      <3>6. \A y \in Pages : y # x => PageWitnessed(q, y)'
        BY <3>1, <3>2, <3>3, WitnessRecords DEF PageWitnessed
      <3> QED
        BY <3>1, <3>5, <3>6 DEF SnapshotAt
    <2> QED
      BY <2>1, <2>2
  <1>4. ASSUME NEW p \in Procs, NEW x \in Pages, Store(p, x) PROVE SnapshotAt(q)'
    <2>1. CASE q # p
      <3>1. seen'[q] = seen[q]
        BY <1>4, <2>1 DEF Store, Witness, TypeOK
      <3> QED
        BY <1>4, <1>s, <2>1, <3>1 DEF Store, sharedVars, TypeOK
    <2>2. CASE q = p
      <3>1. /\ phase[q] \in Open /\ phase' = phase
            /\ UNCHANGED <<globalHeap, globalPageVersion, localPageVersion, dirty>>
            /\ seen' = Witness(q, x)
        BY <1>4, <2>2 DEF Store, Open, sharedVars
      <3>2. \A y \in Pages : PageWitnessed(q, y) /\ PageTracked(q, y)
        BY <1>q, <3>1 DEF SnapshotAt, TrackInv
      <3>3. /\ track'[q][x] = FaultsOfStore(track[q][x], localPageVersion[q][x])
            /\ \A y \in Pages : y # x => /\ track'[q][y] = track[q][y]
                                         /\ localHeap'[q][y] = localHeap[q][y]
            /\ localHeap'[q][x] = Torn => LocalPage(q, x) = Torn
        BY <1>4, <2>2 DEF Store, TypeOK
      <3>4. track'[q][x].read # Absent
        BY <3>1, <3>2, <3>3, StoreFaults DEF PageTracked, TypeOK
      <3>5. PageWitnessed(q, x)'
        BY <3>1, <3>2, <3>3, <3>4, WitnessRecords DEF PageWitnessed
      <3>6. \A y \in Pages : y # x => PageWitnessed(q, y)'
        BY <3>1, <3>2, <3>3, WitnessRecords DEF PageWitnessed
      <3> QED
        BY <3>1, <3>5, <3>6 DEF SnapshotAt
    <2> QED
      BY <2>1, <2>2
  <1>5. ASSUME NEW p \in Procs, RealSegfault(p) \/ CommitEmpty(p) PROVE SnapshotAt(q)'
    <2>1. CASE q # p
      BY <1>5, <1>s, <2>1
         DEF RealSegfault, CommitEmpty, Unmap, UpdateHeap, Decided, Goto, sharedVars, TypeOK
    <2>2. CASE q = p
      BY <1>5, <1>n, <2>2
         DEF RealSegfault, CommitEmpty, Decided, Goto, Open, TypeOK
    <2> QED
      BY <2>1, <2>2
  <1>6. ASSUME NEW p \in Procs, ValidateSuccess(p) \/ ValidateFailure(p)
        PROVE  SnapshotAt(q)'
    <2>1. CASE q # p
      BY <1>6, <1>s, <2>1
         DEF ValidateSuccess, ValidateFailure, Decided, Goto, trackVars, TypeOK
    <2>2. CASE q = p
      BY <1>6, <1>n, <2>2
         DEF ValidateSuccess, ValidateFailure, Decided, Goto, Open, TypeOK
    <2> QED
      BY <2>1, <2>2
  <1>7. ASSUME NEW p \in Procs, StartCommit(p) \/ PredecessorExited(p)
        PROVE  SnapshotAt(q)'
    BY <1>7, <1>s
       DEF StartCommit, PredecessorExited, Goto, Open, sharedVars, trackVars, history, TypeOK
  <1>8. ASSUME NEW p \in Procs, NEW x \in Pages, CopyStart(p, x) PROVE SnapshotAt(q)'
    <2>1. /\ globalHeap'[x] = Torn
          /\ \A y \in Pages : y # x => globalHeap'[y] = globalHeap[y]
          /\ UNCHANGED <<phase, globalPageVersion, localPageVersion, track, localHeap, seen, dirty>>
      BY <1>8 DEF CopyStart, trackVars, history, TypeOK
    <2> QED
      BY <1>q, <2>1 DEF SnapshotAt, PageWitnessed
  <1>9. ASSUME NEW p \in Procs, NEW x \in Pages, CopyFinish(p, x) PROVE SnapshotAt(q)'
    <2>1. /\ \A y \in Pages : y # x => globalHeap'[y] = globalHeap[y]
          /\ \A y \in Pages : y # x => globalPageVersion'[y] = globalPageVersion[y]
          /\ globalPageVersion'[x] = track[p][x].write
          /\ UNCHANGED <<phase, localPageVersion, track, localHeap, seen>>
          /\ dirty'[q] = IF phase[q] \in Open THEN dirty[q] \cup {x} ELSE dirty[q]
      BY <1>9 DEF CopyFinish, TypeOK
    <2>2. track[p][x].write = Base(globalPageVersion[x]) + 1
      BY <1>9 DEF CopyFinish, CommitInv
    <2>3. Base(globalPageVersion[x]) \in Nat
      BY DEF TypeOK, Version, Base
    <2>4. Base(globalPageVersion'[x]) = Base(globalPageVersion[x]) + 1
      BY <2>1, <2>2, <2>3 DEF Base
    <2>5. CASE phase[q] \in Open
      <3>1. \A y \in Pages : PageWitnessed(q, y)
        BY <1>q, <2>5 DEF SnapshotAt
      <3>2. Base(localPageVersion[q][x]) \in Nat
        BY DEF TypeOK, Version, Base
      <3>3. PageWitnessed(q, x)'
        BY <2>1, <2>3, <2>4, <2>5, <3>1, <3>2 DEF PageWitnessed
      <3>4. \A y \in Pages : y # x => PageWitnessed(q, y)'
        BY <2>1, <2>5, <3>1 DEF PageWitnessed
      <3> QED
        BY <2>1, <2>5, <3>3, <3>4 DEF SnapshotAt
    <2>6. CASE phase[q] \notin Open
      BY <1>q, <2>1, <2>6 DEF SnapshotAt
    <2> QED
      BY <2>5, <2>6
  <1>10. ASSUME NEW p \in Procs, FinishCommit(p) \/ AtomicAbort(p) \/ Resume(p) \/ Exit(p)
         PROVE  SnapshotAt(q)'
    <2>1. CASE q # p
      BY <1>10, <1>s, <2>1
         DEF FinishCommit, AtomicAbort, Resume, Exit, UpdateHeap, Unmap, Goto,
             sharedVars, trackVars, history, TypeOK
    <2>2. CASE q = p
      BY <1>10, <1>c, <2>2 DEF FinishCommit, AtomicAbort, Resume, Exit, Goto, Open, TypeOK
    <2> QED
      BY <2>1, <2>2
  <1>11. ASSUME NEW p \in Procs, NEW c \in Procs, Fork(p, c) PROVE SnapshotAt(q)'
    <2>1. CASE q # p /\ q # c
      BY <1>11, <1>s, <2>1 DEF Fork, sharedVars, history, TypeOK
    <2>2. CASE q = p \/ q = c
      BY <1>11, <1>c, <2>2 DEF Fork, Open, TypeOK
    <2> QED
      BY <2>1, <2>2
  <1>12. CASE UNCHANGED vars
    BY <1>12, <1>s DEF vars, sharedVars, trackVars, history
  <1> QED
    BY <1>1, <1>2, <1>3, <1>4, <1>5, <1>6, <1>7, <1>8, <1>9, <1>10, <1>11, <1>12
       DEF Next, Library, Program, Terminated

-----------------------------------------------------------------------------
(* Validation *)

\* A section that is found consistent has read only pages whose version has
\* not moved, and all it came across in the heap file is what is there.
LEMMA ConsistentSection ==
  ASSUME TypeOK, MutexInv, TrackInv, SnapshotInv, NEW p \in Procs,
         phase[p] = "commit", mutex = NoProc, IsHeapConsistent(p)
  PROVE  /\ \A x \in ReadSet(p) : track[p][x].read = Base(globalPageVersion[x])
         /\ \A x \in Pages : seen[p][x] \subseteq {globalHeap[x]} /\ globalHeap[x] # Torn
  <1>1. \A x \in Pages : PageWitnessed(p, x) /\ Tracked(track[p][x], localPageVersion[p][x])
    BY DEF SnapshotInv, TrackInv, PageTracked, Open
  <1>2. ASSUME NEW x \in ReadSet(p)
        PROVE  /\ track[p][x].read = Base(globalPageVersion[x])
               /\ x \notin dirty[p]
    <2>1. track[p][x].read = Base(localPageVersion[p][x])
      BY <1>1 DEF Tracked, ReadSet
    <2>2. Base(localPageVersion[p][x]) \in Nat /\ Base(globalPageVersion[x]) \in Nat
      BY DEF ReadSet, TypeOK, Version, Base
    <2>3. CASE globalPageVersion[x] = Absent
      BY <1>1, <2>1, <2>2, <2>3 DEF PageWitnessed, Base, ReadSet
    <2>4. CASE globalPageVersion[x] # Absent
      BY <1>1, <2>1, <2>4 DEF PageWitnessed, Base, ReadSet, IsHeapConsistent
    <2> QED
      BY <2>3, <2>4
  <1>3. \A x \in Pages : globalHeap[x] # Torn
    BY DEF MutexInv
  <1>4. \A x \in Pages : x \notin ReadSet(p) => seen[p][x] = {}
    BY <1>1 DEF PageWitnessed, ReadSet
  <1> QED
    BY <1>1, <1>2, <1>3, <1>4 DEF PageWitnessed, ReadSet

-----------------------------------------------------------------------------
(* The pages on their way to the heap file *)

LEMMA InitCommitInv == Init => CommitInv
  BY DEF Init, CommitInv

LEMMA NextCommitInv ==
  TypeOK /\ MutexInv /\ TrackInv /\ SnapshotInv /\ CommitInv /\ [Next]_vars => CommitInv'
  <1> SUFFICES ASSUME TypeOK, MutexInv, TrackInv, SnapshotInv, CommitInv, [Next]_vars
               PROVE  CommitInv'
    OBVIOUS
  <1>t. TypeOK'
    BY NextType
  <1> SUFFICES ASSUME NEW q \in Procs, NEW y \in Pages, y \in toCommit'[q]
               PROVE  /\ localHeap'[q][y] \in Contents
                      /\ track'[q][y].write = Base(globalPageVersion'[y]) + 1
    BY <1>t DEF CommitInv, TypeOK
  <1> USE GstmAssumption
  <1> DEFINE CommitAt ==
        /\ localHeap'[q][y] \in Contents
        /\ track'[q][y].write = Base(globalPageVersion'[y]) + 1
  \* A process that commits no page has nothing to show; one that does is
  \* disturbed only by its own steps.
  <1>s. ASSUME UNCHANGED <<globalPageVersion, toCommit>>,
               y \in toCommit[q] => UNCHANGED <<localHeap[q], track[q]>>
        PROVE  CommitAt
    BY <1>s DEF CommitInv
  <1>i. y \in toCommit[q] => phase[q] = "copying"
    BY DEF MutexInv
  <1> HIDE DEF CommitAt
  <1>1. ASSUME NEW p \in Procs,
               \/ SaveContext(p) \/ StartCommit(p) \/ PredecessorExited(p)
               \/ ValidateFailure(p) \/ Resume(p)
        PROVE  CommitAt
    BY <1>1, <1>s
       DEF SaveContext, StartCommit, PredecessorExited, ValidateFailure, Resume,
           sharedVars, trackVars
  <1>2. ASSUME NEW p \in Procs, phase[p] # "copying",
               UNCHANGED <<globalPageVersion, toCommit>>,
               \A r \in Procs : r # p => UNCHANGED <<localHeap[r], track[r]>>
        PROVE  CommitAt
    BY <1>2, <1>i, <1>s
  <1>3. ASSUME NEW p \in Procs,
               \/ Snapshot(p) \/ CommitEmpty(p) \/ RealSegfault(p) \/ AtomicAbort(p) \/ Exit(p)
               \/ \E x \in Pages : Load(p, x) \/ Store(p, x)
        PROVE  CommitAt
    <2>1. /\ phase[p] # "copying"
          /\ UNCHANGED <<globalPageVersion, toCommit>>
      BY <1>3 DEF Snapshot, CommitEmpty, RealSegfault, AtomicAbort, Exit, Load, Store,
                  Unmap, sharedVars
    <2>2. \A r \in Procs : r # p => UNCHANGED <<localHeap[r], track[r]>>
      BY <1>3 DEF Snapshot, CommitEmpty, RealSegfault, AtomicAbort, Exit, Load, Store,
                  Unmap, UpdateHeap, TypeOK
    <2> QED
      BY <1>2, <2>1, <2>2
  <1>4. ASSUME NEW p \in Procs, ValidateSuccess(p) PROVE CommitAt
    <2>1. UNCHANGED <<globalPageVersion, localHeap, track>>
      BY <1>4 DEF ValidateSuccess
    <2>2. CASE q # p
      <3>1. y \in toCommit[q]
        BY <1>4, <2>2 DEF ValidateSuccess, TypeOK
      <3> QED
        BY <2>1, <3>1 DEF CommitInv, CommitAt
    <2>3. CASE q = p
      <3>1. y \in WriteSet(q)
        BY <1>4, <2>3 DEF ValidateSuccess, TypeOK
      <3>2. PageTracked(q, y) /\ PageWitnessed(q, y) /\ phase[q] \in Open
        BY <1>4, <2>3 DEF ValidateSuccess, TrackInv, SnapshotInv, Open
      <3>3. y \in ReadSet(q) /\ track[q][y].write = track[q][y].read + 1
        BY <3>1, <3>2 DEF PageTracked, Tracked, ReadSet, WriteSet
      <3>4. /\ track[q][y].read = Base(globalPageVersion[y])
            /\ Torn \notin seen[q][y]
        BY <1>4, <2>3, <3>3, ConsistentSection DEF ValidateSuccess
      <3>5. localHeap[q][y] \in Contents
        BY <3>1, <3>2, <3>4 DEF PageTracked, PageWitnessed, WriteSet, TypeOK
      <3> QED
        BY <2>1, <3>3, <3>4, <3>5 DEF CommitAt
    <2> QED
      BY <2>2, <2>3
  <1>5. ASSUME NEW p \in Procs, NEW x \in Pages, CopyStart(p, x) PROVE CommitAt
    BY <1>5, <1>s DEF CopyStart, trackVars
  <1>6. ASSUME NEW p \in Procs, NEW x \in Pages, CopyFinish(p, x) PROVE CommitAt
    <2>1. q = p /\ y # x
      BY <1>6, <1>i DEF CopyFinish, MutexInv, TypeOK
    <2>2. /\ y \in toCommit[q]
          /\ globalPageVersion'[y] = globalPageVersion[y]
          /\ UNCHANGED <<localHeap, track>>
      BY <1>6, <2>1 DEF CopyFinish, TypeOK
    <2> QED
      BY <2>2 DEF CommitInv, CommitAt
  <1>7. ASSUME NEW p \in Procs, FinishCommit(p) PROVE CommitAt
    <2>1. q # p
      BY <1>7 DEF FinishCommit
    <2>2. UNCHANGED <<localHeap[q], track[q], globalPageVersion, toCommit>>
      BY <1>7, <2>1 DEF FinishCommit, UpdateHeap, TypeOK
    <2> QED
      BY <1>s, <2>2
  <1>8. ASSUME NEW p \in Procs, NEW c \in Procs, Fork(p, c) PROVE CommitAt
    <2>1. y \in toCommit[q] => q # c
      BY <1>8, <1>i DEF Fork
    <2> QED
      BY <1>8, <1>s, <2>1 DEF Fork, sharedVars, TypeOK
  <1>9. ASSUME UNCHANGED vars PROVE CommitAt
    BY <1>9, <1>s DEF vars, sharedVars, trackVars
  <1>10. CommitAt
    BY <1>1, <1>3, <1>4, <1>5, <1>6, <1>7, <1>8, <1>9
       DEF Next, Library, Program, Terminated
  <1> QED
    BY <1>10 DEF CommitAt

-----------------------------------------------------------------------------
(* The stacks *)

LEMMA InitStackInv == Init => StackInv
  BY GstmAssumption DEF Init, StackInv, Open

LEMMA NextStackInv ==
  TypeOK /\ MutexInv /\ TrackInv /\ SnapshotInv /\ StackInv /\ [Next]_vars => StackInv'
  <1> DEFINE StackAt(q) ==
        /\ savedStack[q] # Torn
        /\ phase[q] = "snapshot" => stack[q] = savedStack[q]
        /\ phase[q] \notin Open \cup {"aborting"} => stack[q] # Torn
        /\ phase[q] \in Open /\ stack[q] = Torn => \E x \in Pages : Torn \in seen[q][x]
  <1> SUFFICES ASSUME TypeOK, MutexInv, TrackInv, SnapshotInv, StackInv, [Next]_vars,
                      NEW q \in Procs
               PROVE  StackAt(q)'
    BY DEF StackInv
  <1> USE GstmAssumption
  <1>q. StackAt(q)
    BY DEF StackInv
  <1>s. ASSUME stack'[q] = stack[q], savedStack'[q] = savedStack[q], seen'[q] = seen[q],
               phase'[q] \in Open <=> phase[q] \in Open,
               phase'[q] = "aborting" <=> phase[q] = "aborting",
               phase'[q] = "snapshot" => phase[q] = "snapshot"
        PROVE  StackAt(q)'
    BY <1>q, <1>s
  \* A step after which nothing torn is left in the process.
  <1>w. ASSUME stack'[q] # Torn, savedStack'[q] # Torn,
               phase'[q] = "snapshot" => stack'[q] = savedStack'[q]
        PROVE  StackAt(q)'
    BY <1>w
  <1> HIDE DEF StackAt
  <1>1. ASSUME NEW p \in Procs, SaveContext(p) \/ Snapshot(p) \/ AtomicAbort(p) PROVE StackAt(q)'
    <2>1. CASE q # p
      BY <1>1, <1>s, <2>1
         DEF SaveContext, Snapshot, AtomicAbort, Goto, stackVars, history, TypeOK
    <2>2. CASE q = p
      BY <1>1, <1>q, <1>w, <2>2
         DEF SaveContext, Snapshot, AtomicAbort, StackAt, Goto, Open, stackVars, TypeOK
    <2> QED
      BY <2>1, <2>2
  <1>2. ASSUME NEW p \in Procs, NEW x \in Pages, Load(p, x) \/ Store(p, x) PROVE StackAt(q)'
    <2>1. CASE q # p
      <3>1. seen'[q] = seen[q]
        BY <1>2, <2>1 DEF Load, Store, Witness, TypeOK
      <3> QED
        BY <1>2, <1>s, <2>1, <3>1 DEF Load, Store, stackVars, TypeOK
    <2>2. CASE q = p
      <3>1. /\ phase[q] \in Open /\ phase' = phase /\ seen' = Witness(q, x)
            /\ savedStack' = savedStack
            /\ stack'[q] = stack[q] \/ stack'[q] = LocalPage(q, x)
        BY <1>2, <2>2 DEF Load, Store, Open, stackVars, TypeOK
      <3>2. PageWitnessed(q, x)
        BY <3>1 DEF SnapshotInv
      <3>3. \A y \in Pages : seen[q][y] \subseteq seen'[q][y]
        BY <3>1, <3>2, WitnessRecords
      <3>4. LocalPage(q, x) = Torn => Torn \in seen'[q][x]
        BY <3>1, <3>2, WitnessRecords
      <3>5. savedStack[q] # Torn
            /\ (stack[q] = Torn => \E y \in Pages : Torn \in seen[q][y])
        BY <1>q, <3>1 DEF StackAt
      <3>6. stack'[q] = Torn => \E y \in Pages : Torn \in seen'[q][y]
        BY <3>1, <3>3, <3>4, <3>5
      <3> QED
        BY <3>1, <3>5, <3>6 DEF StackAt, Open
    <2> QED
      BY <2>1, <2>2
  <1>3. ASSUME NEW p \in Procs, RealSegfault(p) \/ Exit(p) PROVE StackAt(q)'
    <2>1. CASE q # p
      BY <1>3, <1>s, <2>1
         DEF RealSegfault, Exit, Unmap, Decided, Goto, history, TypeOK
    <2>2. CASE q = p
      BY <1>3, <1>w, <2>2 DEF RealSegfault, Exit, Unmap, Goto, TypeOK
    <2> QED
      BY <2>1, <2>2
  <1>4. ASSUME NEW p \in Procs, CommitEmpty(p) \/ ValidateSuccess(p) PROVE StackAt(q)'
    <2>1. CASE q # p
      BY <1>4, <1>s, <2>1
         DEF CommitEmpty, ValidateSuccess, Decided, Goto, stackVars, TypeOK
    <2>2. CASE q = p
      <3>1. phase[q] \in Open
        BY <1>4, <2>2 DEF CommitEmpty, ValidateSuccess, Open
      <3>3. \A y \in Pages : Torn \notin seen[q][y]
        <4>1. CASE CommitEmpty(p)
          BY <2>2, <3>1, <4>1 DEF CommitEmpty, SnapshotInv, PageWitnessed, ReadSet
        <4>2. CASE ValidateSuccess(p)
          BY <2>2, <4>2, ConsistentSection DEF ValidateSuccess
        <4> QED
          BY <1>4, <4>1, <4>2
      <3>4. stack[q] # Torn /\ savedStack[q] # Torn
        BY <1>q, <3>1, <3>3 DEF StackAt
      <3> QED
        BY <1>4, <1>w, <2>2, <3>4 DEF CommitEmpty, ValidateSuccess, Goto, stackVars, TypeOK
    <2> QED
      BY <2>1, <2>2
  <1>5. ASSUME NEW p \in Procs, ValidateFailure(p) PROVE StackAt(q)'
    <2>1. CASE q # p
      BY <1>5, <1>s, <2>1 DEF ValidateFailure, Decided, Goto, stackVars, TypeOK
    <2>2. CASE q = p
      BY <1>5, <1>q, <2>2 DEF ValidateFailure, StackAt, Goto, Open, stackVars, TypeOK
    <2> QED
      BY <2>1, <2>2
  <1>6. ASSUME NEW p \in Procs, StartCommit(p) \/ PredecessorExited(p) PROVE StackAt(q)'
    BY <1>6, <1>s
       DEF StartCommit, PredecessorExited, Goto, Open, stackVars, history, TypeOK
  <1>7. ASSUME NEW p \in Procs, NEW x \in Pages, CopyStart(p, x) \/ CopyFinish(p, x)
        PROVE  StackAt(q)'
    BY <1>7, <1>s DEF CopyStart, CopyFinish, stackVars, history
  <1>8. ASSUME NEW p \in Procs, FinishCommit(p) \/ Resume(p) PROVE StackAt(q)'
    BY <1>8, <1>s DEF FinishCommit, Resume, Goto, Open, stackVars, history, TypeOK
  <1>9. ASSUME NEW p \in Procs, NEW c \in Procs, Fork(p, c) PROVE StackAt(q)'
    <2>1. stack[p] # Torn /\ savedStack[p] # Torn
      BY <1>9 DEF Fork, StackInv, Open
    <2>2. CASE q = c
      BY <1>9, <1>w, <2>1, <2>2 DEF Fork, TypeOK
    <2>3. CASE q # c
      BY <1>9, <1>s, <2>3 DEF Fork, Open, history, TypeOK
    <2> QED
      BY <2>2, <2>3
  <1>10. CASE UNCHANGED vars
    BY <1>10, <1>s DEF vars, stackVars, history
  <1> QED
    BY <1>1, <1>2, <1>3, <1>4, <1>5, <1>6, <1>7, <1>8, <1>9, <1>10
       DEF Next, Library, Program, Terminated

-----------------------------------------------------------------------------
(* The safety theorems *)

\* The inductive invariant holds throughout.
THEOREM InductiveInvariant == Spec => [](TypeOK /\ IInv)
  <1>1. Init => TypeOK /\ IInv
    BY InitType, InitMutexInv, InitTrackInv, InitSnapshotInv, InitCommitInv, InitStackInv
       DEF IInv
  <1>2. TypeOK /\ IInv /\ [Next]_vars => (TypeOK /\ IInv)'
    BY NextType, NextMutexInv, NextTrackInv, NextSnapshotInv, NextCommitInv, NextStackInv
       DEF IInv
  <1> QED
    BY <1>1, <1>2, PTL DEF Spec

\* A half-copied page never outlives the mutex of its writer or the section of
\* its readers, although readers take no lock.
THEOREM TornPagesConfined == Spec => []NothingTornSurvives
  <1>1. TypeOK /\ IInv => NothingTornSurvives
    BY DEF IInv, MutexInv, CommitInv, StackInv, NothingTornSurvives
  <1> QED
    BY <1>1, InductiveInvariant, PTL

\* The faults of a section cover its private pages: no store escapes
\* CommitHeap, UpdateHeap or AtomicAbort.
THEOREM FaultsCoverPrivatePages == Spec => []PrivatePagesTracked
  <1>1. TypeOK /\ IInv => PrivatePagesTracked
    BY DEF IInv, TrackInv, PageTracked, PrivatePagesTracked, ReadSet, WriteSet
  <1> QED
    BY <1>1, InductiveInvariant, PTL

\* Only the two validations leave phase "commit".
LEMMA LeavingCommit ==
  ASSUME TypeOK, Next, NEW p \in Procs, phase[p] = "commit"
  PROVE  /\ phase'[p] = "copying" => ValidateSuccess(p)
         /\ phase'[p] = "aborting" => ValidateFailure(p)
  <1>1. ASSUME NEW q \in Procs, q # p, NEW s \in Phases, Goto(q, s)
        PROVE  phase'[p] = "commit"
    BY <1>1 DEF Goto, TypeOK
  <1>2. ASSUME NEW q \in Procs, Library(q)
        PROVE  phase'[p] = "commit" \/ ValidateSuccess(p) \/ ValidateFailure(p)
    <2>1. CASE q = p
      BY <1>2, <2>1
         DEF Library, SaveContext, Snapshot, CommitEmpty, StartCommit, PredecessorExited,
             CopyStart, CopyFinish, FinishCommit, AtomicAbort
    <2>2. CASE q # p
      BY <1>1, <1>2, <2>2
         DEF Library, SaveContext, Snapshot, CommitEmpty, StartCommit, PredecessorExited,
             ValidateSuccess, ValidateFailure, CopyStart, CopyFinish, FinishCommit,
             AtomicAbort, Phases
    <2> QED
      BY <2>1, <2>2
  <1>3. ASSUME NEW q \in Procs, Program(q)
        PROVE  phase'[p] = "commit"
    BY <1>1, <1>3
       DEF Program, Load, Store, RealSegfault, Fork, Resume, Exit, Phases, TypeOK
  <1>4. ASSUME Terminated PROVE phase'[p] = "commit"
    BY <1>4 DEF Terminated, vars
  <1>5. phase'[p] = "commit" \/ ValidateSuccess(p) \/ ValidateFailure(p)
    BY <1>2, <1>3, <1>4 DEF Next
  <1>6. ValidateSuccess(p) => phase'[p] = "copying"
    BY DEF ValidateSuccess, Goto, TypeOK
  <1>7. ValidateFailure(p) => phase'[p] = "aborting"
    BY DEF ValidateFailure, Goto, TypeOK
  <1> QED
    BY <1>5, <1>6, <1>7

\* Version numbers are enough: a section that passes IsHeapConsistent has come
\* across nothing in the heap file that is not there now.
THEOREM VersionsSuffice == Spec => CommitsCurrent
  <1> DEFINE Current ==
        \A p \in Procs :
          phase[p] = "commit" /\ phase'[p] = "copying" =>
            \A x \in Pages : seen[p][x] \subseteq {globalHeap[x]}
  <1>1. TypeOK /\ IInv /\ [Next]_vars => [Current]_vars
    <2> SUFFICES ASSUME TypeOK, IInv, Next,
                        NEW p \in Procs, phase[p] = "commit", phase'[p] = "copying"
                 PROVE  \A x \in Pages : seen[p][x] \subseteq {globalHeap[x]}
      OBVIOUS
    <2>1. ValidateSuccess(p)
      BY LeavingCommit
    <2> QED
      BY <2>1, ConsistentSection DEF IInv, ValidateSuccess
  <1> HIDE DEF Current
  <1>2. Spec => [][Current]_vars
    BY <1>1, InductiveInvariant, PTL DEF Spec
  <1> QED
    BY <1>2 DEF CommitsCurrent, Current

\* What fails to validate is a page that a commit has made dirty.
LEMMA RollbackCause ==
  ASSUME TypeOK, IInv, NEW p \in Procs, ValidateFailure(p)
  PROVE  \E x \in ReadSet(p) : x \in dirty[p]
  <1>1. PICK x \in ReadSet(p) : /\ globalPageVersion[x] # Absent
                                /\ globalPageVersion[x] # track[p][x].read
    BY DEF ValidateFailure, IsHeapConsistent
  <1>2. PageWitnessed(p, x) /\ PageTracked(p, x)
    BY DEF ValidateFailure, IInv, SnapshotInv, TrackInv, Open, ReadSet
  <1> QED
    BY <1>1, <1>2 DEF ValidateFailure, PageWitnessed, PageTracked, Tracked, Open, ReadSet, Base

\* And they are not too coarse: a rollback has a commit of another process, to
\* a page the section read, to blame.
THEOREM RollbacksHaveCause == Spec => AbortsOnlyOnConflict
  <1> DEFINE Justified ==
        \A p \in Procs :
          phase[p] = "commit" /\ phase'[p] = "aborting" => dirty[p] \cap ReadSet(p) # {}
  <1>1. TypeOK /\ IInv /\ [Next]_vars => [Justified]_vars
    <2> SUFFICES ASSUME TypeOK, IInv, Next,
                        NEW p \in Procs, phase[p] = "commit", phase'[p] = "aborting"
                 PROVE  dirty[p] \cap ReadSet(p) # {}
      OBVIOUS
    <2>1. ValidateFailure(p)
      BY LeavingCommit
    <2> QED
      BY <2>1, RollbackCause
  <1> HIDE DEF Justified
  <1>2. Spec => [][Justified]_vars
    BY <1>1, InductiveInvariant, PTL DEF Spec
  <1> QED
    BY <1>2 DEF AbortsOnlyOnConflict, Justified

-----------------------------------------------------------------------------
(* The price of a commit *)

\* Processes whose section has been overtaken by a commit, and can still be
\* rolled back for it.
Overtaken == {p \in Procs : dirty[p] # {}}

\* The rollbacks that have been and those that are due are paid for by the
\* commits, a rollback for every process but the one that commits.
CostInv ==
  /\ IsFiniteSet(Commits)
  /\ rollbackCount + Cardinality(Overtaken) <= (Cardinality(Procs) - 1) * Cardinality(Commits)

LEMMA CommitsOf ==
  Commits = UNION {{x} \X (1..Base(globalPageVersion[x])) : x \in Pages}
  BY DEF Commits, Base

LEMMA CommitsMember ==
  ASSUME NEW c
  PROVE  c \in Commits <=> \E x \in Pages : \E n \in 1..Base(globalPageVersion[x]) : c = <<x, n>>
  BY CommitsOf

LEMMA ProcsCounted ==
  /\ Cardinality(Procs) \in Nat \ {0}
  /\ \A S \in SUBSET Procs : IsFiniteSet(S) /\ Cardinality(S) \in Nat
  <1>1. Cardinality(Procs) \in Nat /\ Cardinality(Procs) # 0
    BY ProcsFinite, GstmAssumption, FS_CardinalityType, FS_EmptySet
  <1>2. \A S \in SUBSET Procs : IsFiniteSet(S)
    BY ProcsFinite, FS_Subset
  <1> QED
    BY <1>1, <1>2, FS_CardinalityType

LEMMA InitCostInv == Init => CostInv
  <1> SUFFICES ASSUME Init PROVE CostInv
    OBVIOUS
  <1>1. Commits = {}
    <2>1. \A x \in Pages : Base(globalPageVersion[x]) = 0
      BY DEF Init, NoVersions, Base
    <2>2. \A c : c \notin Commits
      BY <2>1, CommitsMember
    <2> QED
      BY <2>2
  <1>2. Overtaken = {} /\ rollbackCount = 0
    BY DEF Init, Overtaken
  <1>3. /\ IsFiniteSet(Commits)
        /\ Cardinality(Commits) = 0
        /\ Cardinality(Overtaken) = 0
    BY <1>1, <1>2, FS_EmptySet
  <1> QED
    BY <1>2, <1>3, ProcsCounted DEF CostInv

\* A page that has been copied counts one commit more.
LEMMA CommitCounted ==
  ASSUME TypeOK, MutexInv, CommitInv, IsFiniteSet(Commits),
         NEW p \in Procs, NEW x \in Pages, CopyFinish(p, x)
  PROVE  /\ IsFiniteSet(Commits')
         /\ Cardinality(Commits') = Cardinality(Commits) + 1
  <1> DEFINE v == Base(globalPageVersion[x])
  <1>1. v \in Nat
    BY DEF TypeOK, Version, Base
  <1>2. /\ globalPageVersion'[x] = v + 1
        /\ \A y \in Pages : y # x => globalPageVersion'[y] = globalPageVersion[y]
    BY DEF CopyFinish, CommitInv, TypeOK
  <1>3. v + 1 # Absent
    BY <1>1, GstmAssumption
  <1>4. /\ Base(globalPageVersion'[x]) = v + 1
        /\ \A y \in Pages : y # x => Base(globalPageVersion'[y]) = Base(globalPageVersion[y])
    BY <1>2, <1>3 DEF Base
  <1>5. \A c : c \in Commits' <=> \E y \in Pages : \E n \in 1..Base(globalPageVersion'[y]) : c = <<y, n>>
    BY DEF Commits, Base
  <1>6. 1..(v + 1) = (1..v) \cup {v + 1}
    BY <1>1
  <1>7. v + 1 \notin 1..v
    BY <1>1
  <1> HIDE DEF v
  <1>v. v = Base(globalPageVersion[x])
    BY DEF v
  <1>8. Commits' = Commits \cup {<<x, v + 1>>}
    <2>1. ASSUME NEW c PROVE c \in Commits' <=> c \in Commits \cup {<<x, v + 1>>}
      <3>1. ASSUME c \in Commits' PROVE c \in Commits \cup {<<x, v + 1>>}
        <4>0. PICK y \in Pages : \E n \in 1..Base(globalPageVersion'[y]) : c = <<y, n>>
          BY <1>5, <3>1
        <4>1. PICK n \in 1..Base(globalPageVersion'[y]) : c = <<y, n>>
          BY <4>0
        <4>2. CASE y # x
          BY <1>4, <4>1, <4>2, CommitsMember
        <4>3. CASE y = x
          BY <1>4, <1>6, <1>v, <4>1, <4>3, CommitsMember
        <4> QED
          BY <4>2, <4>3
      <3>2. ASSUME c \in Commits PROVE c \in Commits'
        <4>0. PICK y \in Pages : \E n \in 1..Base(globalPageVersion[y]) : c = <<y, n>>
          BY <3>2, CommitsMember
        <4>1. PICK n \in 1..Base(globalPageVersion[y]) : c = <<y, n>>
          BY <4>0
        <4>2. n \in 1..Base(globalPageVersion'[y])
          BY <1>4, <1>6, <1>v, <4>1
        <4> QED
          BY <1>5, <4>1, <4>2
      <3>3. v + 1 \in 1..Base(globalPageVersion'[x])
        BY <1>4, <1>6
      <3> QED
        BY <1>5, <3>1, <3>2, <3>3
    <2> QED
      BY <2>1
  <1>9. <<x, v + 1>> \notin Commits
    BY <1>7, <1>v, CommitsMember
  <1> QED
    BY <1>8, <1>9, FS_AddElement

\* Any other step that rolls nothing back overtakes nobody.
LEMMA NobodyOvertaken ==
  ASSUME TypeOK, UNCHANGED <<globalPageVersion, rollbackCount>>,
         \A q \in Procs : dirty'[q] \in {{}, dirty[q]},
         CostInv
  PROVE  CostInv'
  <1>1. Commits' = Commits
    BY DEF Commits
  <1>2. Overtaken' \subseteq Overtaken
    BY DEF Overtaken
  <1>3. Cardinality(Overtaken') <= Cardinality(Overtaken)
    BY <1>2, FS_Subset, ProcsCounted DEF Overtaken
  <1>4. /\ Cardinality(Overtaken) \in Nat
        /\ Cardinality(Overtaken') \in Nat
        /\ rollbackCount \in Nat
    BY ProcsCounted DEF Overtaken, TypeOK
  <1> DEFINE budget == (Cardinality(Procs) - 1) * Cardinality(Commits)
  <1>5. budget \in Int
    BY ProcsCounted, FS_CardinalityType DEF CostInv
  <1>6. rollbackCount + Cardinality(Overtaken) <= budget
    BY DEF CostInv
  <1> HIDE DEF budget
  <1>7. rollbackCount' + Cardinality(Overtaken') <= budget
    BY <1>3, <1>4, <1>5, <1>6
  <1> QED
    BY <1>1, <1>7 DEF CostInv, budget

LEMMA NextCostInv ==
  TypeOK /\ IInv /\ CostInv /\ [Next]_vars => CostInv'
  <1> SUFFICES ASSUME TypeOK, IInv, CostInv, [Next]_vars PROVE CostInv'
    OBVIOUS
  <1> DEFINE N == Cardinality(Procs)
             C == Cardinality(Commits)
             O == Cardinality(Overtaken)
  <1>n. /\ N \in Nat \ {0} /\ C \in Nat /\ O \in Nat /\ rollbackCount \in Nat
        /\ rollbackCount + O <= (N - 1) * C
    BY ProcsCounted, FS_CardinalityType DEF CostInv, Overtaken, TypeOK
  <1>1. ASSUME NEW p \in Procs, NEW x \in Pages, CopyFinish(p, x) PROVE CostInv'
    <2>1. IsFiniteSet(Commits') /\ Cardinality(Commits') = C + 1
      BY <1>1, CommitCounted DEF IInv, CostInv
    <2>2. dirty'[p] = {}
      BY <1>1 DEF CopyFinish, IInv, SnapshotInv, Open
    <2>3. Overtaken' \subseteq Procs \ {p}
      BY <2>2 DEF Overtaken
    <2>4. IsFiniteSet(Procs \ {p}) /\ Cardinality(Procs \ {p}) = N - 1
      BY ProcsFinite, FS_RemoveElement
    <2>5. Cardinality(Overtaken') \in Nat /\ Cardinality(Overtaken') <= N - 1
      BY <2>3, <2>4, FS_Subset, FS_CardinalityType
    <2>6. rollbackCount' = rollbackCount
      BY <1>1 DEF CopyFinish
    <2> HIDE DEF N, C, O
    <2>7. (N - 1) * (C + 1) = (N - 1) * C + (N - 1)
      BY <1>n
    <2>8. PICK b \in Int : b = (N - 1) * C
      BY <1>n
    <2>9. rollbackCount' + Cardinality(Overtaken') <= (N - 1) * (C + 1)
      BY <1>n, <2>5, <2>6, <2>7, <2>8
    <2> QED
      BY <2>1, <2>9 DEF CostInv, N
  <1>2. ASSUME NEW p \in Procs, ValidateFailure(p) PROVE CostInv'
    <2>1. PICK x \in ReadSet(p) : x \in dirty[p]
      BY <1>2, RollbackCause
    <2>2. Overtaken' = Overtaken \ {p} /\ p \in Overtaken
      BY <1>2, <2>1 DEF ValidateFailure, Decided, Overtaken, TypeOK
    <2>3. IsFiniteSet(Overtaken)
      BY ProcsCounted DEF Overtaken
    <2>4. Cardinality(Overtaken') = O - 1
      BY <2>2, <2>3, FS_RemoveElement
    <2>5. rollbackCount' = rollbackCount + 1 /\ Commits' = Commits
      BY <1>2 DEF ValidateFailure, Commits
    <2> HIDE DEF N, C, O
    <2>6. PICK b \in Int : b = (N - 1) * C
      BY <1>n
    <2>7. rollbackCount' + Cardinality(Overtaken') <= (N - 1) * C
      BY <1>n, <2>4, <2>5, <2>6
    <2> QED
      BY <2>5, <2>7 DEF CostInv, N, C
  <1> HIDE DEF N, C, O
  <1>3. ASSUME NEW p \in Procs,
               \/ SaveContext(p) \/ Snapshot(p) \/ CommitEmpty(p) \/ StartCommit(p)
               \/ PredecessorExited(p) \/ ValidateSuccess(p) \/ FinishCommit(p) \/ AtomicAbort(p)
        PROVE  CostInv'
    <2>1. UNCHANGED <<globalPageVersion, rollbackCount>>
      BY <1>3 DEF SaveContext, Snapshot, CommitEmpty, StartCommit, PredecessorExited,
                  ValidateSuccess, FinishCommit, AtomicAbort, sharedVars
    <2>2. \A q \in Procs : dirty'[q] \in {{}, dirty[q]}
      BY <1>3 DEF SaveContext, Snapshot, CommitEmpty, StartCommit, PredecessorExited,
                  ValidateSuccess, FinishCommit, AtomicAbort, history, Decided, TypeOK
    <2> QED
      BY <2>1, <2>2, NobodyOvertaken
  <1>4. ASSUME NEW p \in Procs, NEW x \in Pages, CopyStart(p, x) \/ Load(p, x) \/ Store(p, x)
        PROVE  CostInv'
    BY <1>4, NobodyOvertaken DEF CopyStart, Load, Store, history, sharedVars
  <1>5. ASSUME NEW p \in Procs, RealSegfault(p) \/ Resume(p) \/ Exit(p) PROVE CostInv'
    <2>1. /\ UNCHANGED <<globalPageVersion, rollbackCount>>
          /\ \A q \in Procs : dirty'[q] \in {{}, dirty[q]}
      BY <1>5 DEF RealSegfault, Resume, Exit, history, sharedVars, Decided, TypeOK
    <2> QED
      BY <2>1, NobodyOvertaken
  <1>6. ASSUME NEW p \in Procs, NEW c \in Procs, Fork(p, c) PROVE CostInv'
    BY <1>6, NobodyOvertaken DEF Fork, history, sharedVars
  <1>7. ASSUME UNCHANGED vars PROVE CostInv'
    BY <1>7, NobodyOvertaken DEF vars, history, sharedVars
  <1> QED
    BY <1>1, <1>2, <1>3, <1>4, <1>5, <1>6, <1>7 DEF Next, Library, Program, Terminated

\* Every rollback is paid for by a commit of another process: commits cost
\* every other process at most one attempt each.
THEOREM RollbacksArePaidFor == Spec => []RollbackBound
  <1>1. CostInv /\ TypeOK => RollbackBound
    <2> SUFFICES ASSUME CostInv, TypeOK PROVE RollbackBound
      OBVIOUS
    <2>1. PICK b \in Int : b = (Cardinality(Procs) - 1) * Cardinality(Commits)
      BY ProcsCounted, FS_CardinalityType DEF CostInv
    <2>2. Cardinality(Overtaken) \in Nat /\ rollbackCount \in Nat
      BY ProcsCounted DEF Overtaken, TypeOK
    <2> QED
      BY <2>1, <2>2 DEF CostInv, RollbackBound
  <1>2. Spec => []CostInv
    BY InitCostInv, NextCostInv, InductiveInvariant, PTL DEF Spec
  <1> QED
    BY <1>1, <1>2, InductiveInvariant, PTL

-----------------------------------------------------------------------------
(* Gstm implements AtomicHeap: every step of the versioned, page-by-page     *)
(* commit is a step of the abstract heap or leaves it as it is.              *)


Inv == TypeOK /\ IInv

-----------------------------------------------------------------------------
(* What the steps leave alone *)

\* The decided heap changes only with the heap file or with what is to be
\* copied to it.
LEMMA SameHeap ==
  ASSUME Inv, UNCHANGED <<globalHeap, mutex, toCommit>>,
         \A p \in Procs : phase[p] = "copying" => localHeap'[p] = localHeap[p]
  PROVE  DecidedHeap' = DecidedHeap
  BY DEF Inv, IInv, MutexInv, TypeOK, DecidedHeap

\* A process without private pages is about to change nothing.
LEMMA NothingPending ==
  ASSUME Inv, NEW p \in Procs, phase[p] \notin Open \cup {"copying", "aborting"}
  PROVE  localHeap[p] = NoPrivatePages
  BY DEF Inv, IInv, TrackInv, PageTracked, TypeOK, NoPrivatePages

\* Neither is a section that faulted on no page.
LEMMA EmptySection ==
  ASSUME Inv, NEW p \in Procs, phase[p] \in Open, ReadSet(p) = {}, WriteSet(p) = {}
  PROVE  /\ localHeap[p] = NoPrivatePages
         /\ seen[p] = NothingSeen
  <1>1. \A x \in Pages : PageTracked(p, x) /\ PageWitnessed(p, x)
    BY DEF Inv, IInv, TrackInv, SnapshotInv
  <1>2. localHeap[p] = NoPrivatePages
    BY <1>1 DEF PageTracked, ReadSet, NoPrivatePages, Inv, TypeOK
  <1>3. \A x \in Pages : seen[p][x] = {}
    BY <1>1 DEF PageWitnessed, ReadSet
  <1>4. seen[p] = NothingSeen
    BY <1>3 DEF NothingSeen, Inv, TypeOK
  <1> QED
    BY <1>2, <1>4

-----------------------------------------------------------------------------
(* The initial state *)

LEMMA InitRefines == Init => Abstract!Init
  <1> SUFFICES ASSUME Init PROVE Abstract!Init
    OBVIOUS
  <1>1. DecidedHeap = [x \in Pages |-> Blank]
    BY DEF Init, DecidedHeap
  <1>2. SettledStack = [p \in Procs |-> Blank]
    BY DEF Init, SettledStack, Open
  <1>3. PendingWrites = [p \in Procs |-> NoPrivatePages]
    BY DEF Init, PendingWrites
  <1> QED
    BY <1>1, <1>2, <1>3
       DEF Init, Abstract!Init, Abstract!NoReads, Abstract!NoWrites, NothingSeen, NoPrivatePages

-----------------------------------------------------------------------------
(* The steps inside a section *)

LEMMA LoadRefines ==
  ASSUME Inv, NEW p \in Procs, NEW x \in Pages, Load(p, x)
  PROVE  Abstract!Read(p, x) \/ UNCHANGED Abstract!vars
  <1>1. DecidedHeap' = DecidedHeap
    BY SameHeap DEF Load, sharedVars
  <1>2. SettledStack' = SettledStack
    BY DEF Load, SettledStack, Open, Inv, TypeOK
  <1>3. PendingWrites' = PendingWrites
    BY DEF Load, PendingWrites
  <1>4. CASE localHeap[p][x] = NotCopied
    <2>1. globalHeap[x] \in Contents \cup {Torn}
      BY DEF Inv, TypeOK
    <2>2. seen' = [seen EXCEPT ![p][x] = @ \cup {globalHeap[x]}]
      BY <1>4 DEF Load, Witness
    <2> QED
      BY <1>1, <1>2, <1>3, <2>1, <2>2 DEF Abstract!Read
  <1>5. CASE localHeap[p][x] # NotCopied
    BY <1>1, <1>2, <1>3, <1>5 DEF Load, Witness, Abstract!vars
  <1> QED
    BY <1>4, <1>5

LEMMA StoreRefines ==
  ASSUME Inv, NEW p \in Procs, NEW x \in Pages, Store(p, x)
  PROVE  Abstract!Write(p, x)
  <1>1. DecidedHeap' = DecidedHeap
    BY SameHeap DEF Store, sharedVars, Inv, TypeOK
  <1>2. SettledStack' = SettledStack
    BY DEF Store, SettledStack, stackVars
  <1>3. PICK c \in Contents \cup {Torn} : localHeap' = [localHeap EXCEPT ![p][x] = c]
    BY DEF Store
  <1>4. PendingWrites' = [PendingWrites EXCEPT ![p][x] = c]
    BY <1>3 DEF Store, PendingWrites, Open, Inv, TypeOK
  <1>5. \/ seen' = seen
        \/ \E d \in Contents \cup {Torn} : seen' = [seen EXCEPT ![p][x] = @ \cup {d}]
    BY DEF Store, Witness, Inv, TypeOK
  <1> QED
    BY <1>1, <1>2, <1>3, <1>4, <1>5 DEF Abstract!Write

-----------------------------------------------------------------------------
(* The end of a section *)

\* What the history and the private pages of p become when its section is
\* decided is what Forget says.
LEMMA Forgets ==
  ASSUME Inv, NEW p \in Procs, seen' = [seen EXCEPT ![p] = NothingSeen],
         phase' = [phase EXCEPT ![p] = phase'[p]], phase'[p] \notin Open,
         \A q \in Procs : q # p => localHeap'[q] = localHeap[q]
  PROVE  Abstract!Forget(p)
  <1>1. PendingWrites' = [PendingWrites EXCEPT ![p] = NoPrivatePages]
    BY DEF PendingWrites, NoPrivatePages, Inv, TypeOK
  <1> QED
    BY <1>1 DEF Abstract!Forget, Abstract!NoReads, Abstract!NoWrites, NothingSeen, NoPrivatePages

\* Leaving the section in the same step: the stack of p is settled, the others
\* have what they had.
LEMMA SettlesOne ==
  ASSUME Inv, NEW p \in Procs, phase' = [phase EXCEPT ![p] = phase'[p]],
         \A q \in Procs : q # p => stack'[q] = stack[q] /\ savedStack'[q] = savedStack[q]
  PROVE  SettledStack' = [SettledStack EXCEPT ![p] = SettledStack'[p]]
  BY DEF SettledStack, Inv, TypeOK

LEMMA RealSegfaultRefines ==
  ASSUME Inv, NEW p \in Procs, RealSegfault(p)
  PROVE  Abstract!Leave(p)
  <1>1. DecidedHeap' = DecidedHeap
    BY SameHeap DEF RealSegfault, Unmap, sharedVars, Inv, TypeOK
  <1>2. phase' = [phase EXCEPT ![p] = phase'[p]] /\ phase'[p] = "exited"
    BY DEF RealSegfault, Goto, Inv, TypeOK
  <1>3. Abstract!Forget(p)
    BY <1>2, Forgets DEF RealSegfault, Decided, Unmap, Open, Inv, TypeOK
  <1>4. SettledStack' = [SettledStack EXCEPT ![p] = SettledStack'[p]]
    BY <1>2, SettlesOne DEF RealSegfault, Unmap, Inv, TypeOK
  <1>5. SettledStack'[p] = Blank
    BY <1>2 DEF RealSegfault, Unmap, SettledStack, Open, Inv, TypeOK
  <1> QED
    BY <1>1, <1>3, <1>4, <1>5 DEF Abstract!Leave

LEMMA ExitRefines ==
  ASSUME Inv, NEW p \in Procs, Exit(p)
  PROVE  Abstract!Leave(p)
  <1>1. DecidedHeap' = DecidedHeap
    BY SameHeap DEF Exit, Unmap, sharedVars, Inv, TypeOK
  <1>2. phase' = [phase EXCEPT ![p] = phase'[p]] /\ phase'[p] = "exited"
    BY DEF Exit, Goto, Inv, TypeOK
  <1>3. seen' = [seen EXCEPT ![p] = NothingSeen]
    BY DEF Exit, history, Open, Inv, IInv, SnapshotInv, TypeOK
  <1>4. Abstract!Forget(p)
    BY <1>2, <1>3, Forgets DEF Exit, Unmap, Open, Inv, TypeOK
  <1>5. SettledStack' = [SettledStack EXCEPT ![p] = SettledStack'[p]]
    BY <1>2, SettlesOne DEF Exit, Unmap, Inv, TypeOK
  <1>6. SettledStack'[p] = Blank
    BY <1>2 DEF Exit, Unmap, SettledStack, Open, Inv, TypeOK
  <1> QED
    BY <1>1, <1>4, <1>5, <1>6 DEF Abstract!Leave

LEMMA CommitEmptyRefines ==
  ASSUME Inv, NEW p \in Procs, CommitEmpty(p)
  PROVE  Abstract!Commit(p)
  <1>1. DecidedHeap' = DecidedHeap
    BY SameHeap DEF CommitEmpty, UpdateHeap, sharedVars, stackVars, Inv, TypeOK
  <1>2. phase' = [phase EXCEPT ![p] = phase'[p]] /\ phase'[p] = "ended"
    BY DEF CommitEmpty, Goto, Inv, TypeOK
  <1>3. Abstract!Forget(p)
    BY <1>2, Forgets DEF CommitEmpty, Decided, UpdateHeap, Open, Inv, TypeOK
  <1>4. SettledStack' = [SettledStack EXCEPT ![p] = SettledStack'[p]]
    BY <1>2, SettlesOne DEF CommitEmpty, stackVars
  <1>5. phase[p] \in Open /\ localHeap[p] = NoPrivatePages /\ seen[p] = NothingSeen
    BY EmptySection DEF CommitEmpty, Open
  <1>6. PendingWrites[p] = NoPrivatePages
    BY <1>5 DEF PendingWrites
  <1>7. stack[p] \in Contents
    BY <1>5 DEF Inv, IInv, StackInv, NothingSeen, TypeOK
  <1>8. SettledStack'[p] \in Contents
    BY <1>2, <1>7 DEF CommitEmpty, SettledStack, Open, stackVars
  <1>9. DecidedHeap' = [x \in Pages |-> IF PendingWrites[p][x] = NotCopied
                                        THEN DecidedHeap[x] ELSE PendingWrites[p][x]]
    BY <1>1, <1>6 DEF NoPrivatePages, DecidedHeap
  <1>10. \A x \in Pages : seen[p][x] \subseteq {DecidedHeap[x]} /\ PendingWrites[p][x] # Torn
    BY <1>5, <1>6, GstmAssumption DEF NothingSeen, NoPrivatePages
  <1> QED
    BY <1>3, <1>4, <1>8, <1>9, <1>10 DEF Abstract!Commit

LEMMA ValidateSuccessRefines ==
  ASSUME Inv, NEW p \in Procs, ValidateSuccess(p)
  PROVE  Abstract!Commit(p)
  <1>1. phase[p] = "commit" /\ mutex = NoProc /\ mutex' = p /\ p # NoProc
    BY GstmAssumption DEF ValidateSuccess
  <1>2. phase' = [phase EXCEPT ![p] = phase'[p]] /\ phase'[p] = "copying"
    BY DEF ValidateSuccess, Goto, Inv, TypeOK
  <1>3. Abstract!Forget(p)
    BY <1>2, Forgets DEF ValidateSuccess, Decided, Open
  <1>4. SettledStack' = [SettledStack EXCEPT ![p] = SettledStack'[p]]
    BY <1>2, SettlesOne DEF ValidateSuccess, stackVars
  <1>5. \A x \in Pages : seen[p][x] \subseteq {globalHeap[x]} /\ globalHeap[x] # Torn
    BY ConsistentSection DEF ValidateSuccess, Inv, IInv
  <1>6. DecidedHeap = globalHeap
    BY <1>1 DEF DecidedHeap, Inv, TypeOK
  <1>7. PendingWrites[p] = localHeap[p]
    BY <1>1 DEF PendingWrites, Open
  <1>8. \A x \in Pages : PageTracked(p, x) /\ PageWitnessed(p, x)
    BY <1>1 DEF Inv, IInv, TrackInv, SnapshotInv, Open
  <1>9. \A x \in Pages : localHeap[p][x] # Torn
    BY <1>5, <1>8 DEF PageWitnessed
  <1>10. \A x \in Pages : x \in WriteSet(p) <=> localHeap[p][x] # NotCopied
    BY <1>1, <1>8 DEF PageTracked, WriteSet, Open
  <1>11. toCommit'[p] = WriteSet(p) /\ localHeap' = localHeap /\ globalHeap' = globalHeap
    BY DEF ValidateSuccess, Inv, TypeOK
  <1>12. DecidedHeap' = [x \in Pages |-> IF PendingWrites[p][x] = NotCopied
                                         THEN DecidedHeap[x] ELSE PendingWrites[p][x]]
    BY <1>1, <1>6, <1>7, <1>10, <1>11 DEF DecidedHeap
  <1>13. stack[p] \in Contents
    BY <1>1, <1>5 DEF Inv, IInv, StackInv, Open, TypeOK
  <1>14. SettledStack'[p] \in Contents
    BY <1>2, <1>13 DEF ValidateSuccess, SettledStack, Open, stackVars
  <1> QED
    BY <1>3, <1>4, <1>5, <1>6, <1>7, <1>9, <1>12, <1>14 DEF Abstract!Commit

LEMMA ValidateFailureRefines ==
  ASSUME Inv, NEW p \in Procs, ValidateFailure(p)
  PROVE  Abstract!Discard(p)
  <1>1. DecidedHeap' = DecidedHeap
    BY SameHeap DEF ValidateFailure, trackVars
  <1>2. phase' = [phase EXCEPT ![p] = phase'[p]] /\ phase'[p] = "aborting" /\ phase[p] = "commit"
    BY DEF ValidateFailure, Goto, Inv, TypeOK
  <1>3. Abstract!Forget(p)
    BY <1>2, Forgets DEF ValidateFailure, Decided, Open, trackVars
  <1>4. SettledStack' = SettledStack
    BY <1>2 DEF ValidateFailure, SettledStack, Open, stackVars, Inv, TypeOK
  <1> QED
    BY <1>1, <1>3, <1>4 DEF Abstract!Discard

-----------------------------------------------------------------------------
(* The steps the abstract heap does not see *)

LEMMA SaveContextRefines ==
  ASSUME Inv, NEW p \in Procs, SaveContext(p)
  PROVE  UNCHANGED Abstract!vars
  <1>1. DecidedHeap' = DecidedHeap
    BY SameHeap DEF SaveContext, sharedVars, trackVars
  <1>2. SettledStack' = SettledStack
    BY DEF SaveContext, Goto, SettledStack, Open, Inv, TypeOK
  <1>3. PendingWrites' = PendingWrites
    BY DEF SaveContext, Goto, PendingWrites, Open, trackVars, Inv, TypeOK
  <1> QED
    BY <1>1, <1>2, <1>3 DEF SaveContext, history, Abstract!vars

\* The attempt starts with the stack that was saved and with no private page.
LEMMA SnapshotRefines ==
  ASSUME Inv, NEW p \in Procs, Snapshot(p)
  PROVE  UNCHANGED Abstract!vars
  <1>1. DecidedHeap' = DecidedHeap
    BY SameHeap DEF Snapshot, sharedVars
  <1>2. stack[p] = savedStack[p]
    BY DEF Snapshot, Inv, IInv, StackInv
  <1>3. SettledStack' = SettledStack
    BY <1>2 DEF Snapshot, Goto, SettledStack, Open, stackVars, Inv, TypeOK
  <1>4. localHeap[p] = NoPrivatePages
    BY NothingPending DEF Snapshot, Open
  <1>5. PendingWrites' = PendingWrites
    BY <1>4 DEF Snapshot, Goto, PendingWrites, NoPrivatePages, Open, Inv, TypeOK
  <1> QED
    BY <1>1, <1>3, <1>5 DEF Snapshot, history, Abstract!vars

LEMMA WaitRefines ==
  ASSUME Inv, NEW p \in Procs, StartCommit(p) \/ PredecessorExited(p)
  PROVE  UNCHANGED Abstract!vars
  <1>1. DecidedHeap' = DecidedHeap
    BY SameHeap DEF StartCommit, PredecessorExited, sharedVars, trackVars
  <1>2. SettledStack' = SettledStack
    BY DEF StartCommit, PredecessorExited, Goto, SettledStack, Open, stackVars, Inv, TypeOK
  <1>3. PendingWrites' = PendingWrites
    BY DEF StartCommit, PredecessorExited, Goto, PendingWrites, Open, trackVars, Inv, TypeOK
  <1> QED
    BY <1>1, <1>2, <1>3 DEF StartCommit, PredecessorExited, history, Abstract!vars

\* The page being copied was decided when its section was validated.
LEMMA CopyStartRefines ==
  ASSUME Inv, NEW p \in Procs, NEW x \in Pages, CopyStart(p, x)
  PROVE  UNCHANGED Abstract!vars
  <1>1. mutex = p /\ p # NoProc
    BY GstmAssumption DEF CopyStart, Inv, IInv, MutexInv
  <1>2. DecidedHeap' = DecidedHeap
    BY <1>1 DEF CopyStart, DecidedHeap, trackVars, Inv, TypeOK
  <1> QED
    BY <1>2 DEF CopyStart, SettledStack, PendingWrites, trackVars, stackVars, history,
                Abstract!vars

LEMMA CopyFinishRefines ==
  ASSUME Inv, NEW p \in Procs, NEW x \in Pages, CopyFinish(p, x)
  PROVE  UNCHANGED Abstract!vars
  <1>1. mutex = p /\ mutex' = p /\ p # NoProc
    BY GstmAssumption DEF CopyFinish, Inv, IInv, MutexInv
  <1>2. LocalPage(p, x) = localHeap[p][x]
    BY GstmAssumption DEF CopyFinish, LocalPage, Inv, IInv, CommitInv
  <1>3. /\ toCommit'[p] = toCommit[p] \ {x}
        /\ x \in toCommit[p]
        /\ globalHeap'[x] = localHeap[p][x]
        /\ \A y \in Pages : y # x => globalHeap'[y] = globalHeap[y]
        /\ localHeap' = localHeap
    BY <1>2 DEF CopyFinish, Inv, TypeOK
  <1>4. DecidedHeap' = DecidedHeap
    BY <1>1, <1>3 DEF DecidedHeap
  <1> QED
    BY <1>4 DEF CopyFinish, SettledStack, PendingWrites, stackVars, Abstract!vars

LEMMA FinishCommitRefines ==
  ASSUME Inv, NEW p \in Procs, FinishCommit(p)
  PROVE  UNCHANGED Abstract!vars
  <1>1. mutex = p
    BY DEF FinishCommit, Inv, IInv, MutexInv
  <1>2. DecidedHeap' = DecidedHeap
    BY <1>1 DEF FinishCommit, DecidedHeap
  <1>3. SettledStack' = SettledStack
    BY DEF FinishCommit, Goto, SettledStack, Open, stackVars, Inv, TypeOK
  <1>4. PendingWrites' = PendingWrites
    BY DEF FinishCommit, UpdateHeap, Goto, PendingWrites, Open, Inv, TypeOK
  <1> QED
    BY <1>2, <1>3, <1>4 DEF FinishCommit, history, Abstract!vars

LEMMA AtomicAbortRefines ==
  ASSUME Inv, NEW p \in Procs, AtomicAbort(p)
  PROVE  UNCHANGED Abstract!vars
  <1>1. DecidedHeap' = DecidedHeap
    BY SameHeap DEF AtomicAbort, sharedVars, Inv, TypeOK
  <1>2. SettledStack' = SettledStack
    BY DEF AtomicAbort, Goto, SettledStack, Open, Inv, TypeOK
  <1>3. PendingWrites' = PendingWrites
    BY DEF AtomicAbort, Goto, PendingWrites, Open, Inv, TypeOK
  <1> QED
    BY <1>1, <1>2, <1>3 DEF AtomicAbort, history, Abstract!vars

-----------------------------------------------------------------------------
(* The steps between two sections *)

LEMMA ForkRefines ==
  ASSUME Inv, NEW p \in Procs, NEW c \in Procs, Fork(p, c)
  PROVE  Abstract!Inherit(p, c)
  <1>1. DecidedHeap' = DecidedHeap
    BY SameHeap DEF Fork, sharedVars, Inv, TypeOK
  <1>2. SettledStack' = [SettledStack EXCEPT ![c] = SettledStack[p]]
    BY DEF Fork, SettledStack, Open, Inv, TypeOK
  <1>3. PendingWrites' = PendingWrites
    BY DEF Fork, PendingWrites, Open, Inv, TypeOK
  <1> QED
    BY <1>1, <1>2, <1>3 DEF Fork, history, Abstract!Inherit

LEMMA ResumeRefines ==
  ASSUME Inv, NEW p \in Procs, Resume(p)
  PROVE  UNCHANGED Abstract!vars
  <1>1. DecidedHeap' = DecidedHeap
    BY SameHeap DEF Resume, sharedVars, trackVars
  <1>2. SettledStack' = SettledStack
    BY DEF Resume, Goto, SettledStack, Open, Inv, TypeOK
  <1>3. PendingWrites' = PendingWrites
    BY DEF Resume, Goto, PendingWrites, Open, trackVars, Inv, TypeOK
  <1> QED
    BY <1>1, <1>2, <1>3 DEF Resume, history, Abstract!vars

-----------------------------------------------------------------------------
(* The theorem *)

LEMMA NextRefines == Inv /\ [Next]_vars => [Abstract!Next]_(Abstract!vars)
  <1> SUFFICES ASSUME Inv, [Next]_vars PROVE Abstract!Next \/ UNCHANGED Abstract!vars
    OBVIOUS
  <1> DEFINE Step == Abstract!Next \/ UNCHANGED Abstract!vars
  <1>1. ASSUME NEW p \in Procs, NEW x \in Pages, Load(p, x) \/ Store(p, x) PROVE Step
    BY <1>1, LoadRefines, StoreRefines DEF Abstract!Next
  <1>2. ASSUME NEW p \in Procs, RealSegfault(p) \/ Exit(p) PROVE Step
    BY <1>2, RealSegfaultRefines, ExitRefines DEF Abstract!Next
  <1>3. ASSUME NEW p \in Procs, CommitEmpty(p) \/ ValidateSuccess(p) PROVE Step
    BY <1>3, CommitEmptyRefines, ValidateSuccessRefines DEF Abstract!Next
  <1>4. ASSUME NEW p \in Procs, ValidateFailure(p) PROVE Step
    BY <1>4, ValidateFailureRefines DEF Abstract!Next
  <1>5. ASSUME NEW p \in Procs, NEW c \in Procs, Fork(p, c) PROVE Step
    BY <1>5, ForkRefines DEF Abstract!Next
  <1>6. ASSUME NEW p \in Procs,
               \/ SaveContext(p) \/ Snapshot(p) \/ StartCommit(p) \/ PredecessorExited(p)
               \/ FinishCommit(p) \/ AtomicAbort(p) \/ Resume(p)
        PROVE  Step
    BY <1>6, SaveContextRefines, SnapshotRefines, WaitRefines, FinishCommitRefines,
       AtomicAbortRefines, ResumeRefines
  <1>7. ASSUME NEW p \in Procs, NEW x \in Pages, CopyStart(p, x) \/ CopyFinish(p, x) PROVE Step
    BY <1>7, CopyStartRefines, CopyFinishRefines
  <1>8. ASSUME UNCHANGED vars PROVE Step
    BY <1>8 DEF vars, sharedVars, trackVars, stackVars, history, Abstract!vars,
                DecidedHeap, SettledStack, PendingWrites
  <1> HIDE DEF Step
  <1>9. Step
    BY <1>1, <1>2, <1>3, <1>4, <1>5, <1>6, <1>7, <1>8
       DEF Next, Library, Program, Terminated
  <1> QED
    BY <1>9 DEF Step

\* Validation by version numbers and a commit copied page by page, under the
\* eyes of readers that take no lock, are together one atomic commit.
THEOREM Refinement == Spec => ImplementsAtomicHeap
  <1>1. Init => Abstract!Init
    BY InitRefines
  <1>2. Inv /\ [Next]_vars => [Abstract!Next]_(Abstract!vars)
    BY NextRefines
  <1>3. Spec => []Inv
    BY InductiveInvariant DEF Inv
  <1> QED
    BY <1>1, <1>2, <1>3, PTL DEF Spec, ImplementsAtomicHeap, Abstract!Spec

=============================================================================
