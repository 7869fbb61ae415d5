--------------------------- MODULE GThreadProofs ---------------------------
(***************************************************************************)
(* Theorems about GThread, for any number of processes and whatever the    *)
(* build and the program are like.                                         *)
(***************************************************************************)
EXTENDS GThread, FiniteSetTheorems, WellFoundedInduction, TLAPS

-----------------------------------------------------------------------------
(* The inductive invariant *)

\* A call waits to be carried out only in a process that is there, with the
\* arguments it was made with: nothing has come between the call of
\* pthread_create and its fork, and the thread to be joined is known.
CallsFit ==
  \A p \in Procs :
    /\ phase[p] \in {"unborn", "exited"} => call[p] = NoCall
    /\ p # Root /\ call[p].op = "create" => call[p].slot = Len(gthreads[p])
    /\ p # Root /\ call[p].op = "join" => handle[p][call[p].thread] # NoHandle

\* Only the dead are collected.
ReapedExited == \A t \in reaped : phase[t] = "exited"

IInv ==
  /\ TypeOK
  /\ CallsFit
  /\ ReapedExited
  /\ HandlesDenoteThreads
  /\ JoinedThreadsExited

LEMMA InitInv == Init => IInv
  <1> SUFFICES ASSUME Init PROVE IInv
    OBVIOUS
  <1>1. TypeOK
    BY GThreadAssumption DEF Init, TypeOK, Phases, Calls, NoCall
  <1>2. CallsFit
    BY DEF Init, CallsFit, NoCall
  <1>3. ReapedExited /\ HandlesDenoteThreads /\ JoinedThreadsExited
    BY DEF Init, ReapedExited, HandlesDenoteThreads, JoinedThreadsExited
  <1> QED
    BY <1>1, <1>2, <1>3 DEF IInv

\* Join looks up, in whichever process, the thread that the program means.
LEMMA JoineeIsThread ==
  ASSUME IInv, NEW p \in Procs, call[p].op = "join"
  PROVE  /\ call[p].thread \in Procs
         /\ Joinee(p, call[p].thread) = call[p].thread
  <1>1. call[p].thread \in Procs
    BY DEF IInv, TypeOK, Calls
  <1>2. ASSUME p # Root PROVE Joinee(p, call[p].thread) = call[p].thread
    <2>1. handle[p][call[p].thread] # NoHandle
      BY <1>2 DEF IInv, CallsFit
    <2> QED
      BY <1>1, <1>2, <2>1 DEF IInv, HandlesDenoteThreads, Joinee
  <1> QED
    BY <1>1, <1>2 DEF Joinee

-----------------------------------------------------------------------------
(* Type correctness *)

LEMMA NextType == IInv /\ [Next]_vars => TypeOK'
  <1> SUFFICES ASSUME IInv, [Next]_vars PROVE TypeOK'
    OBVIOUS
  <1>0. TypeOK
    BY DEF IInv
  <1> USE GThreadAssumption, <1>0
  <1>g. ASSUME NEW p \in Procs, NEW s \in Phases, Goto(p, s)
        PROVE  phase' \in [Procs -> Phases]
    BY <1>g DEF Goto, TypeOK
  <1>w. ASSUME NEW p \in Procs, NEW t \in Procs \cup {NoPid}, WaitExited(p, t)
        PROVE  reaped' \in SUBSET Procs
    BY <1>w DEF WaitExited, TypeOK
  <1>b. ASSUME NEW p \in Procs, NEW t \in Procs \cup {NoPid}, Begin(p, t)
        PROVE  /\ touched' \in [Procs -> BOOLEAN]
               /\ conflict' \in [Procs -> BOOLEAN]
               /\ origin' \in [Procs -> Procs \cup {NoPid}]
    BY <1>b DEF Begin, TypeOK
  <1>n. NoCall \in Calls
    BY DEF NoCall, Calls
  <1>p. ASSUME NEW p \in Procs, NEW t \in Procs \cup {NoPid}
        PROVE  PushBack(p, t) \in Seq(Procs)
    BY <1>p DEF PushBack, TypeOK
  <1>l. ASSUME NEW p \in Procs, Leave(p) PROVE TypeOK'
    <2>1. phase' \in [Procs -> Phases] /\ call' \in [Procs -> Calls]
      BY <1>g, <1>l, <1>n DEF Leave, Phases, TypeOK
    <2> QED
      BY <1>l, <2>1 DEF Leave, sectionVars, familyVars, threadVars, TypeOK
  <1>e. ASSUME NEW p \in Procs, NEW what \in Calls, EndSection(p, what) PROVE TypeOK'
    <2>1. phase' \in [Procs -> Phases] /\ call' \in [Procs -> Calls]
      BY <1>e DEF EndSection, Goto, Phases, TypeOK
    <2> QED
      BY <1>e, <2>1 DEF EndSection, sectionVars, familyVars, threadVars, TypeOK
  <1>1. ASSUME NEW p \in Procs, Touch(p) PROVE TypeOK'
    BY <1>1 DEF Touch, familyVars, threadVars, TypeOK
  <1>2. ASSUME NEW p \in Procs, Calling(p) PROVE TypeOK'
    <2>1. [op |-> "exit"] \in Calls
      BY DEF Calls
    <2>2. \A t \in Procs : [op |-> "join", thread |-> t] \in Calls
      BY DEF Calls
    <2>3. \A n \in Nat : [op |-> "create", slot |-> n] \in Calls
      BY DEF Calls
    <2>4. Len(gthreads[p]) \in Nat
      BY DEF TypeOK
    <2>5. CASE CallCreate(p)
      BY <1>e, <2>3, <2>4, <2>5 DEF CallCreate
    <2>6. CASE CallExit(p)
      BY <1>e, <2>1, <2>6 DEF CallExit
    <2>7. ASSUME NEW t \in Procs, CallJoin(p, t) PROVE TypeOK'
      BY <1>e, <2>2, <2>7 DEF CallJoin
    <2>8. CASE WrappedMain
      BY <1>e, <2>1, <2>2, <2>3, <2>8 DEF WrappedMain, Children
    <2> QED
      BY <1>2, <2>5, <2>6, <2>7, <2>8 DEF Calling
  <1>3. ASSUME NEW p \in Procs, PredecessorExited(p) PROVE TypeOK'
    <2>1. phase' \in [Procs -> Phases] /\ reaped' \in SUBSET Procs
      BY <1>3, <1>g, <1>w DEF PredecessorExited, Phases, TypeOK
    <2> QED
      BY <1>3, <2>1 DEF PredecessorExited, sectionVars, threadVars, TypeOK
  <1>4. ASSUME NEW p \in Procs, Commit(p) PROVE TypeOK'
    <2>1. phase' \in [Procs -> Phases] /\ conflict' \in [Procs -> BOOLEAN]
      BY <1>4, <1>g DEF Commit, Phases, TypeOK
    <2> QED
      BY <1>4, <2>1 DEF Commit, familyVars, threadVars, TypeOK
  <1>5. ASSUME NEW p \in Procs, Rollback(p) PROVE TypeOK'
    <2>1. phase' \in [Procs -> Phases] /\ call' \in [Procs -> Calls]
      BY <1>5, <1>g, <1>n DEF Rollback, Phases, TypeOK
    <2>2. gthreads' \in [Procs -> Seq(Procs)]
      BY <1>5, <1>p DEF Rollback, TypeOK
    <2>3. /\ touched' \in [Procs -> BOOLEAN]
          /\ conflict' \in [Procs -> BOOLEAN]
          /\ origin' \in [Procs -> Procs \cup {NoPid}]
      BY <1>5, <1>b DEF Rollback, TypeOK
    <2> QED
      BY <1>5, <2>1, <2>2, <2>3 DEF Rollback, familyVars, TypeOK
  <1>6. ASSUME NEW p \in Procs, NEW c \in Procs, Fork(p, c) PROVE TypeOK'
    <2>1. phase' \in [Procs -> Phases] /\ call' \in [Procs -> Calls]
      BY <1>6, <1>n DEF Fork, Phases, TypeOK
    <2>2. /\ parent' \in [Procs -> Procs \cup {NoPid}]
          /\ predecessor' \in [Procs -> Procs \cup {NoPid}]
      BY <1>6 DEF Fork, ChildPredecessor, TypeOK
    <2>3. /\ touched' \in [Procs -> BOOLEAN]
          /\ conflict' \in [Procs -> BOOLEAN]
          /\ origin' \in [Procs -> Procs \cup {NoPid}]
      BY <1>6, <1>b DEF Fork
    <2>4. gthreads' \in [Procs -> Seq(Procs)]
      <3>1. PushBack(p, IF p = Root THEN NoPid ELSE c) \in Seq(Procs)
        BY <1>p
      <3> QED
        BY <1>6, <3>1 DEF Fork, TypeOK
    <2>5. handle' \in [Procs -> [Procs -> Nat \cup {NoHandle}]]
      <3>1. call[p].slot \in Nat
        BY <1>6 DEF Fork, Calls, TypeOK
      <3> QED
        BY <1>6, <3>1 DEF Fork, TypeOK
    <2>6. before' \in [Procs -> SUBSET Procs]
      BY <1>6 DEF Fork, TypeOK
    <2> QED
      BY <1>6, <2>1, <2>2, <2>3, <2>4, <2>5, <2>6 DEF Fork, TypeOK
  <1>7. ASSUME NEW p \in Procs, ForkFails(p) \/ Exit(p) \/ RealSegfault(p) PROVE TypeOK'
    BY <1>7, <1>l DEF ForkFails, Exit, RealSegfault
  <1>8. ASSUME NEW p \in Procs, JoinReturns(p) PROVE TypeOK'
    <2>1. phase' \in [Procs -> Phases] /\ call' \in [Procs -> Calls]
      BY <1>8, <1>g, <1>n DEF JoinReturns, Phases, TypeOK
    <2>2. Joinee(p, call[p].thread) \in Procs /\ call[p].thread \in Procs
      BY <1>8, JoineeIsThread DEF JoinReturns
    <2>3. reaped' \in SUBSET Procs
      BY <1>8, <1>w, <2>2 DEF JoinReturns
    <2>4. /\ touched' \in [Procs -> BOOLEAN]
          /\ conflict' \in [Procs -> BOOLEAN]
          /\ origin' \in [Procs -> Procs \cup {NoPid}]
      BY <1>8, <1>b DEF JoinReturns
    <2> QED
      BY <1>8, <2>1, <2>2, <2>3, <2>4 DEF JoinReturns, TypeOK
  <1>9. ASSUME NEW c \in Procs, InitReaps(c) PROVE TypeOK'
    BY <1>9 DEF InitReaps, sectionVars, threadVars, TypeOK
  <1>10. CASE UNCHANGED vars
    BY <1>10 DEF vars, sectionVars, familyVars, threadVars, TypeOK
  <1> QED
    BY <1>1, <1>2, <1>3, <1>4, <1>5, <1>6, <1>7, <1>8, <1>9, <1>10
       DEF Next, Library, Terminated

-----------------------------------------------------------------------------
(* The dead *)

\* An exited process stays exited.
LEMMA ExitedStays ==
  IInv /\ [Next]_vars => \A t \in Procs : phase[t] = "exited" => phase'[t] = "exited"
  <1> SUFFICES ASSUME IInv, [Next]_vars, NEW t \in Procs, phase[t] = "exited"
               PROVE  phase'[t] = "exited"
    OBVIOUS
  <1>0. TypeOK
    BY DEF IInv
  <1>1. ASSUME NEW p \in Procs, phase[p] # "exited", NEW s, Goto(p, s)
        PROVE  phase'[t] = "exited"
    BY <1>0, <1>1 DEF Goto, TypeOK
  <1>2. ASSUME NEW p \in Procs, Calling(p) PROVE phase'[t] = "exited"
    <2>1. PICK what : EndSection(p, what)
      BY <1>2 DEF Calling, CallCreate, CallExit, CallJoin, WrappedMain
    <2> QED
      BY <1>1, <2>1 DEF EndSection
  <1>3. ASSUME NEW p \in Procs, Library(p) PROVE phase'[t] = "exited"
    <2>1. CASE \E c \in Procs : Fork(p, c)
      BY <1>0, <2>1 DEF Fork, TypeOK
    <2>2. CASE PredecessorExited(p)
      BY <1>1, <2>2 DEF PredecessorExited
    <2>3. CASE Commit(p)
      BY <1>1, <2>3 DEF Commit
    <2>4. CASE Rollback(p)
      BY <1>1, <2>4 DEF Rollback
    <2>5. CASE ForkFails(p) \/ Exit(p)
      BY <1>1, <2>5 DEF ForkFails, Exit, Leave
    <2>6. CASE JoinReturns(p)
      BY <1>1, <2>6 DEF JoinReturns
    <2> QED
      BY <1>3, <2>1, <2>2, <2>3, <2>4, <2>5, <2>6 DEF Library
  <1>4. ASSUME NEW p \in Procs, Touch(p) \/ InitReaps(p) PROVE phase'[t] = "exited"
    BY <1>4 DEF Touch, InitReaps
  <1>5. ASSUME NEW p \in Procs, RealSegfault(p) PROVE phase'[t] = "exited"
    BY <1>1, <1>5 DEF RealSegfault, Leave
  <1>6. CASE UNCHANGED vars
    BY <1>6 DEF vars
  <1> QED
    BY <1>2, <1>3, <1>4, <1>5, <1>6 DEF Next, Terminated

LEMMA NextReaped == IInv /\ [Next]_vars => ReapedExited'
  <1> SUFFICES ASSUME IInv, [Next]_vars PROVE \A t \in reaped' : phase'[t] = "exited"
    BY DEF ReapedExited
  <1>0. reaped \subseteq Procs
    BY DEF IInv, TypeOK
  <1>1. \A t \in reaped : phase'[t] = "exited"
    BY <1>0, ExitedStays DEF IInv, ReapedExited
  <1>2. CASE reaped' = reaped
    BY <1>1, <1>2
  <1>3. ASSUME NEW t \in Procs, phase[t] = "exited", reaped' = reaped \cup {t}
        PROVE  \A u \in reaped' : phase'[u] = "exited"
    BY <1>1, <1>3, ExitedStays
  <1>4. ASSUME NEW p \in Procs, NEW t \in Procs \cup {NoPid}, WaitExited(p, t)
        PROVE  \A u \in reaped' : phase'[u] = "exited"
    BY <1>2, <1>3, <1>4 DEF WaitExited
  <1>5. ASSUME NEW p \in Procs, PredecessorExited(p)
        PROVE  \A u \in reaped' : phase'[u] = "exited"
    BY <1>4, <1>5 DEF PredecessorExited, IInv, TypeOK
  <1>6. ASSUME NEW p \in Procs, JoinReturns(p)
        PROVE  \A u \in reaped' : phase'[u] = "exited"
    BY <1>4, <1>6, JoineeIsThread DEF JoinReturns
  <1>7. ASSUME NEW c \in Procs, InitReaps(c)
        PROVE  \A u \in reaped' : phase'[u] = "exited"
    BY <1>3, <1>7 DEF InitReaps
  <1>8. ASSUME NEW p \in Procs, Calling(p) PROVE reaped' = reaped
    BY <1>8 DEF Calling, CallCreate, CallExit, CallJoin, WrappedMain, EndSection, familyVars
  <1>9. ASSUME NEW p \in Procs,
               Touch(p) \/ Commit(p) \/ Rollback(p) \/ (\E c \in Procs : Fork(p, c))
                 \/ ForkFails(p) \/ Exit(p) \/ RealSegfault(p)
        PROVE  reaped' = reaped
    BY <1>9 DEF Touch, Commit, Rollback, Fork, ForkFails, Exit, RealSegfault, Leave, familyVars
  <1>10. CASE UNCHANGED vars
    BY <1>2, <1>10 DEF vars, familyVars
  <1> QED
    BY <1>2, <1>5, <1>6, <1>7, <1>8, <1>9, <1>10 DEF Next, Library, Terminated

LEMMA NextJoined == IInv /\ [Next]_vars => JoinedThreadsExited'
  <1> SUFFICES ASSUME IInv, [Next]_vars PROVE \A t \in joined' : phase'[t] = "exited"
    BY DEF JoinedThreadsExited
  <1>0. joined \subseteq Procs
    BY DEF IInv, TypeOK
  <1>1. \A t \in joined : phase'[t] = "exited"
    BY <1>0, ExitedStays DEF IInv, JoinedThreadsExited
  <1>2. ASSUME NEW p \in Procs, JoinReturns(p)
        PROVE  \A t \in joined' : phase'[t] = "exited"
    <2> DEFINE t == call[p].thread
    <2>1. t \in Procs /\ Joinee(p, t) = t
      BY <1>2, JoineeIsThread DEF JoinReturns
    <2>2. WaitExited(p, t) /\ joined' = joined \cup {t}
      BY <1>2, <2>1 DEF JoinReturns
    <2>3. phase[t] = "exited"
      BY <2>1, <2>2, GThreadAssumption DEF WaitExited, IInv, ReapedExited
    <2> HIDE DEF t
    <2> QED
      BY <1>1, <2>1, <2>2, <2>3, ExitedStays
  <1>3. ASSUME NEW p \in Procs, Calling(p) PROVE joined' = joined
    BY <1>3 DEF Calling, CallCreate, CallExit, CallJoin, WrappedMain, EndSection, threadVars
  <1>4. ASSUME NEW p \in Procs,
               Touch(p) \/ PredecessorExited(p) \/ Commit(p) \/ Rollback(p)
                 \/ (\E c \in Procs : Fork(p, c))
                 \/ ForkFails(p) \/ Exit(p) \/ RealSegfault(p) \/ InitReaps(p)
        PROVE  joined' = joined
    BY <1>4 DEF Touch, PredecessorExited, Commit, Rollback, Fork, ForkFails, Exit,
                RealSegfault, Leave, InitReaps, threadVars
  <1>5. CASE joined' = joined
    BY <1>1, <1>5
  <1>6. CASE UNCHANGED vars
    BY <1>5, <1>6 DEF vars, threadVars
  <1> QED
    BY <1>2, <1>3, <1>4, <1>5, <1>6 DEF Next, Library, Terminated

-----------------------------------------------------------------------------
(* Calls and handles *)

\* What a step that makes no entry does to the invariant's view of q.
LEMMA CallsKept ==
  ASSUME IInv, NEW q \in Procs,
         phase'[q] = phase[q] \/ phase'[q] \notin {"unborn", "exited"} \/ call'[q] = NoCall,
         call'[q] = call[q] \/ call'[q] = NoCall,
         gthreads'[q] = gthreads[q], handle'[q] = handle[q]
  PROVE  /\ phase'[q] \in {"unborn", "exited"} => call'[q] = NoCall
         /\ q # Root /\ call'[q].op = "create" => call'[q].slot = Len(gthreads'[q])
         /\ q # Root /\ call'[q].op = "join" => handle'[q][call'[q].thread] # NoHandle
  BY DEF IInv, CallsFit, NoCall

LEMMA NextCalls == IInv /\ [Next]_vars => CallsFit'
  <1> DEFINE Fits(q) ==
        /\ phase'[q] \in {"unborn", "exited"} => call'[q] = NoCall
        /\ q # Root /\ call'[q].op = "create" => call'[q].slot = Len(gthreads'[q])
        /\ q # Root /\ call'[q].op = "join" => handle'[q][call'[q].thread] # NoHandle
  <1> SUFFICES ASSUME IInv, [Next]_vars, NEW q \in Procs PROVE Fits(q)
    BY DEF CallsFit
  <1>0. TypeOK
    BY DEF IInv
  <1>1. ASSUME NEW p \in Procs, NEW what, EndSection(p, what),
               what.op = "create" /\ p # Root => what.slot = Len(gthreads[p]),
               what.op = "join" /\ p # Root => handle[p][what.thread] # NoHandle
        PROVE  Fits(q)
    <2>1. gthreads' = gthreads /\ handle' = handle
      BY <1>1 DEF EndSection, threadVars
    <2>2. CASE q = p
      <3>1. call'[q] = what /\ phase'[q] \in {"waiting", "ended"}
        BY <1>0, <1>1, <2>2 DEF EndSection, Goto, TypeOK
      <3> QED
        BY <1>1, <2>1, <2>2, <3>1
    <2>3. CASE q # p
      <3>1. call'[q] = call[q] /\ phase'[q] = phase[q]
        BY <1>0, <1>1, <2>3 DEF EndSection, Goto, TypeOK
      <3> QED
        BY <2>1, <3>1, CallsKept
    <2> QED
      BY <2>2, <2>3
  <1>2. ASSUME NEW p \in Procs, Calling(p) PROVE Fits(q)
    <2>1. CASE CallCreate(p)
      BY <1>1, <2>1 DEF CallCreate
    <2>2. CASE CallExit(p)
      BY <1>1, <2>2 DEF CallExit
    <2>3. ASSUME NEW t \in Procs, CallJoin(p, t) PROVE Fits(q)
      BY <1>1, <2>3 DEF CallJoin
    <2>4. CASE p = Root /\ WrappedMain
      BY <1>1, <2>4 DEF WrappedMain
    <2> QED
      BY <1>2, <2>1, <2>2, <2>3, <2>4 DEF Calling
  <1>3. ASSUME NEW p \in Procs, Leave(p) PROVE Fits(q)
    <2>1. phase'[q] = phase[q] \/ call'[q] = NoCall
      BY <1>0, <1>3 DEF Leave, Goto, TypeOK
    <2>2. call'[q] = call[q] \/ call'[q] = NoCall
      BY <1>0, <1>3 DEF Leave, TypeOK
    <2>3. gthreads' = gthreads /\ handle' = handle
      BY <1>3 DEF Leave, threadVars
    <2> QED
      BY <2>1, <2>2, <2>3, CallsKept
  <1>4. ASSUME NEW p \in Procs, NEW s, s \notin {"unborn", "exited"}, Goto(p, s),
               call'[q] = call[q] \/ call'[q] = NoCall,
               gthreads' = gthreads, handle' = handle
        PROVE  Fits(q)
    <2>1. phase'[q] = phase[q] \/ phase'[q] \notin {"unborn", "exited"}
      BY <1>0, <1>4 DEF Goto, TypeOK
    <2> QED
      BY <1>4, <2>1, CallsKept
  <1>5. ASSUME NEW p \in Procs, PredecessorExited(p) \/ Commit(p) PROVE Fits(q)
    BY <1>4, <1>5 DEF PredecessorExited, Commit, threadVars
  <1>6. ASSUME NEW p \in Procs, JoinReturns(p) PROVE Fits(q)
    <2>1. call'[q] = call[q] \/ call'[q] = NoCall
      BY <1>0, <1>6 DEF JoinReturns, TypeOK
    <2> QED
      BY <1>4, <1>6, <2>1 DEF JoinReturns
  <1>7. ASSUME NEW p \in Procs, Rollback(p) PROVE Fits(q)
    <2>1. CASE q = p
      BY <1>0, <1>7, <2>1 DEF Rollback, Goto, NoCall, TypeOK
    <2>2. CASE q # p
      <3>1. /\ phase'[q] = phase[q] /\ call'[q] = call[q]
            /\ gthreads'[q] = gthreads[q] /\ handle'[q] = handle[q]
        BY <1>0, <1>7, <2>2 DEF Rollback, Goto, TypeOK
      <3> QED
        BY <3>1, CallsKept
    <2> QED
      BY <2>1, <2>2
  <1>8. ASSUME NEW p \in Procs, NEW c \in Procs, Fork(p, c) PROVE Fits(q)
    <2>1. CASE q = p
      BY <1>0, <1>8, <2>1 DEF Fork, NoCall, TypeOK
    <2>2. CASE q = c
      <3>1. call'[q] = NoCall /\ phase'[q] = "running"
        BY <1>0, <1>8, <2>2 DEF Fork, IInv, CallsFit, TypeOK
      <3> QED
        BY <3>1 DEF NoCall
    <2>3. CASE q # p /\ q # c
      <3>1. /\ phase'[q] = phase[q] /\ call'[q] = call[q]
            /\ gthreads'[q] = gthreads[q] /\ handle'[q] = handle[q]
        BY <1>0, <1>8, <2>3 DEF Fork, TypeOK
      <3> QED
        BY <3>1, CallsKept
    <2> QED
      BY <2>1, <2>2, <2>3
  <1>9. ASSUME NEW p \in Procs, Touch(p) \/ InitReaps(p) PROVE Fits(q)
    BY <1>9, CallsKept DEF Touch, InitReaps, threadVars
  <1>10. CASE UNCHANGED vars
    BY <1>10, CallsKept DEF vars, threadVars
  <1> QED
    BY <1>2, <1>3, <1>5, <1>6, <1>7, <1>8, <1>9, <1>10
       DEF Next, Library, Terminated, ForkFails, Exit, RealSegfault

LEMMA NextHandles == IInv /\ [Next]_vars => HandlesDenoteThreads'
  <1> DEFINE Good(g, h) ==
        \A t \in Procs : h[t] # NoHandle => h[t] < Len(g) /\ g[h[t] + 1] = t
  <1> SUFFICES ASSUME IInv, [Next]_vars, NEW q \in Procs PROVE Good(gthreads'[q], handle'[q])
    BY DEF HandlesDenoteThreads
  <1>0. TypeOK
    BY DEF IInv
  <1>1. \A p \in Procs : Good(gthreads[p], handle[p])
    BY DEF IInv, HandlesDenoteThreads
  <1>2. CASE gthreads'[q] = gthreads[q] /\ handle'[q] = handle[q]
    BY <1>1, <1>2
  <1>3. ASSUME NEW p \in Procs, NEW t \in Procs PROVE Good(Append(gthreads[p], t), handle[p])
    <2> SUFFICES ASSUME NEW u \in Procs, handle[p][u] # NoHandle
                 PROVE  /\ handle[p][u] < Len(Append(gthreads[p], t))
                        /\ Append(gthreads[p], t)[handle[p][u] + 1] = u
      OBVIOUS
    <2>1. handle[p][u] \in Nat /\ gthreads[p] \in Seq(Procs)
      BY <1>0 DEF TypeOK
    <2>2. handle[p][u] < Len(gthreads[p]) /\ gthreads[p][handle[p][u] + 1] = u
      BY <1>1
    <2> QED
      BY <2>1, <2>2
  <1>4. ASSUME NEW p \in Procs, Rollback(p) PROVE Good(gthreads'[q], handle'[q])
    <2>1. CASE q # p
      BY <1>0, <1>2, <1>4, <2>1 DEF Rollback, TypeOK
    <2>2. CASE q = p
      <3>1. gthreads'[q] = PushBack(p, origin[p]) /\ handle'[q] = handle[p]
        BY <1>0, <1>4, <2>2 DEF Rollback, TypeOK
      <3>2. CASE origin[p] = NoPid
        BY <1>1, <3>1, <3>2 DEF PushBack
      <3>3. CASE origin[p] \in Procs
        <4>1. PushBack(p, origin[p]) = Append(gthreads[p], origin[p])
          BY <3>3, GThreadAssumption DEF PushBack
        <4>2. Good(Append(gthreads[p], origin[p]), handle[p])
          BY <1>3, <3>3
        <4> QED
          BY <3>1, <4>1, <4>2
      <3> QED
        BY <1>0, <3>2, <3>3 DEF TypeOK
    <2> QED
      BY <2>1, <2>2
  <1>5. ASSUME NEW p \in Procs, NEW c \in Procs, Fork(p, c)
        PROVE  Good(gthreads'[q], handle'[q])
    <2>0. p # c
      BY <1>5 DEF Fork
    <2>1. CASE q # p /\ q # c
      BY <1>0, <1>2, <1>5, <2>1 DEF Fork, TypeOK
    <2>2. CASE q = c
      <3>1. gthreads'[q] = gthreads[p] /\ handle'[q] = handle[p]
        BY <1>0, <1>5, <2>0, <2>2 DEF Fork, TypeOK
      <3> QED
        BY <1>1, <3>1
    <2>3. CASE q = p /\ p = Root
      <3>1. gthreads'[q] = gthreads[p] /\ handle'[q] = [handle[p] EXCEPT ![c] = NoHandle]
        BY <1>0, <1>5, <2>0, <2>3 DEF Fork, PushBack, TypeOK
      <3>2. handle[p] \in [Procs -> Nat \cup {NoHandle}]
        BY <1>0 DEF TypeOK
      <3> QED
        BY <1>1, <3>1, <3>2
    <2>4. CASE q = p /\ p # Root
      <3>1. gthreads'[q] = Append(gthreads[p], c)
        BY <1>0, <1>5, <2>0, <2>4, GThreadAssumption DEF Fork, PushBack, TypeOK
      <3>2. handle'[q] = [handle[p] EXCEPT ![c] = Len(gthreads[p])]
        <4>1. call[p].slot = Len(gthreads[p])
          BY <1>5, <2>4 DEF Fork, IInv, CallsFit
        <4> QED
          BY <1>0, <1>5, <2>0, <2>4, <4>1 DEF Fork, TypeOK
      <3>3. handle[p] \in [Procs -> Nat \cup {NoHandle}] /\ gthreads[p] \in Seq(Procs)
        BY <1>0 DEF TypeOK
      <3>4. Good(Append(gthreads[p], c), handle[p])
        BY <1>3
      <3>5. /\ Len(gthreads[p]) < Len(Append(gthreads[p], c))
            /\ Append(gthreads[p], c)[Len(gthreads[p]) + 1] = c
        BY <3>3
      <3> QED
        BY <3>1, <3>2, <3>3, <3>4, <3>5
    <2> QED
      BY <2>1, <2>2, <2>3, <2>4
  <1>6. ASSUME NEW p \in Procs, Calling(p) PROVE Good(gthreads'[q], handle'[q])
    BY <1>2, <1>6 DEF Calling, CallCreate, CallExit, CallJoin, WrappedMain, EndSection, threadVars
  <1>7. ASSUME NEW p \in Procs,
               Touch(p) \/ PredecessorExited(p) \/ Commit(p) \/ ForkFails(p) \/ Exit(p)
                 \/ RealSegfault(p) \/ JoinReturns(p) \/ InitReaps(p)
        PROVE  Good(gthreads'[q], handle'[q])
    BY <1>2, <1>7 DEF Touch, PredecessorExited, Commit, ForkFails, Exit, RealSegfault,
                      JoinReturns, InitReaps, Leave, threadVars
  <1>8. CASE UNCHANGED vars
    BY <1>2, <1>8 DEF vars, threadVars
  <1> QED
    BY <1>4, <1>5, <1>6, <1>7, <1>8 DEF Next, Library, Terminated

LEMMA InductiveInvariant == Spec => []IInv
  <1>1. IInv /\ [Next]_vars => IInv'
    BY NextType, NextCalls, NextReaped, NextHandles, NextJoined DEF IInv
  <1> QED
    BY <1>1, InitInv, PTL DEF Spec

\* Every variable keeps its type; in particular Join never looks for a thread
\* beyond the end of gthreads.
THEOREM TypeCorrect == Spec => []TypeOK
  BY InductiveInvariant, PTL DEF IInv

\* pthread_create returns gthreads.size() before the entry is made, and a
\* rollback makes the entry once more: the handle is right all the same, in
\* every process that has inherited it.
THEOREM HandlesCorrect == Spec => []HandlesDenoteThreads
  BY InductiveInvariant, PTL DEF IInv

\* WaitExited, called by Join, returns only for a thread that has exited,
\* through waitpid or through the loop on kill.
THEOREM JoinsCorrect == Spec => []JoinedThreadsExited
  BY InductiveInvariant, PTL DEF IInv

-----------------------------------------------------------------------------
(* Who comes before whom in the serial program *)

\* The threads before a process are a set of processes that have been forked,
\* ordered by inclusion: what comes before one of them is before the process,
\* too. Children come before their parent.
UnbornUnrelated ==
  \A c \in Procs :
    phase[c] = "unborn" =>
      parent[c] = NoPid /\ before[c] = {} /\ \A p \in Procs : c \notin before[p]
ChildrenBefore == \A p, c \in Procs : parent[c] = p => c \in before[p]
NotBeforeItself == \A p \in Procs : p \notin before[p]
BeforeOrdered == \A p, c \in Procs : c \in before[p] => before[c] \subseteq before[p]
BeforeFinite == \A p \in Procs : IsFiniteSet(before[p])

FamilyInv ==
  UnbornUnrelated /\ ChildrenBefore /\ NotBeforeItself /\ BeforeOrdered /\ BeforeFinite

\* No step but a fork makes a process or relates one to another.
LEMMA OnlyForkRelates ==
  ASSUME IInv, [Next]_vars
  PROVE  \/ \E p, c \in Procs : Fork(p, c)
         \/ /\ UNCHANGED <<parent, predecessor, before>>
            /\ \A q \in Procs : phase'[q] = "unborn" <=> phase[q] = "unborn"
  <1> DEFINE Unrelated ==
        /\ UNCHANGED <<parent, predecessor, before>>
        /\ \A q \in Procs : phase'[q] = "unborn" <=> phase[q] = "unborn"
  <1>0. TypeOK
    BY DEF IInv
  <1>1. ASSUME NEW p \in Procs, NEW s, Goto(p, s), phase[p] # "unborn", s # "unborn",
               UNCHANGED <<parent, predecessor, before>>
        PROVE  Unrelated
    BY <1>0, <1>1 DEF Goto, TypeOK
  <1>2. ASSUME NEW p \in Procs, Calling(p) PROVE Unrelated
    <2>1. PICK what : EndSection(p, what)
      BY <1>2 DEF Calling, CallCreate, CallExit, CallJoin, WrappedMain
    <2> QED
      BY <1>1, <2>1 DEF EndSection, familyVars
  <1>3. ASSUME NEW p \in Procs, PredecessorExited(p) \/ JoinReturns(p) PROVE Unrelated
    BY <1>1, <1>3 DEF PredecessorExited, JoinReturns
  <1>4. ASSUME NEW p \in Procs, Commit(p) \/ Rollback(p) PROVE Unrelated
    BY <1>1, <1>4 DEF Commit, Rollback, familyVars
  <1>5. ASSUME NEW p \in Procs, ForkFails(p) \/ Exit(p) \/ RealSegfault(p) PROVE Unrelated
    BY <1>1, <1>5 DEF ForkFails, Exit, RealSegfault, Leave, familyVars
  <1>6. ASSUME NEW p \in Procs, Touch(p) \/ InitReaps(p) PROVE Unrelated
    BY <1>6 DEF Touch, InitReaps, familyVars
  <1>7. CASE UNCHANGED vars
    BY <1>7 DEF vars, familyVars
  <1> QED
    BY <1>2, <1>3, <1>4, <1>5, <1>6, <1>7 DEF Next, Library, Terminated

\* What a fork does to the family.
Forked(p, c) ==
  /\ p # c /\ phase[p] = "ended" /\ phase[c] = "unborn"
  /\ phase' = [phase EXCEPT ![p] = "running", ![c] = "running"]
  /\ parent' = [parent EXCEPT ![c] = p]
  /\ predecessor' = [predecessor EXCEPT ![p] = c, ![c] = ChildPredecessor(p)]
  /\ before'[c] = before[p]
  /\ \A q \in Procs \ {c} :
       before'[q] = IF q = p \/ p \in before[q] THEN before[q] \cup {c} ELSE before[q]

LEMMA ForkRelates ==
  ASSUME NEW p \in Procs, NEW c \in Procs, Fork(p, c)
  PROVE  Forked(p, c)
  BY DEF Fork, Forked

LEMMA NextFamily == IInv /\ FamilyInv /\ [Next]_vars => FamilyInv'
  <1> SUFFICES ASSUME IInv, FamilyInv, [Next]_vars PROVE FamilyInv'
    OBVIOUS
  <1>0. /\ before \in [Procs -> SUBSET Procs] /\ before' \in [Procs -> SUBSET Procs]
        /\ phase \in [Procs -> Phases]
        /\ parent \in [Procs -> Procs \cup {NoPid}] /\ NoPid \notin Procs
    BY GThreadAssumption, NextType DEF IInv, TypeOK
  <1>1. CASE /\ UNCHANGED <<parent, predecessor, before>>
             /\ \A q \in Procs : phase'[q] = "unborn" <=> phase[q] = "unborn"
    BY <1>1 DEF FamilyInv, UnbornUnrelated, ChildrenBefore, NotBeforeItself,
                BeforeOrdered, BeforeFinite
  <1>2. ASSUME NEW p \in Procs, NEW c \in Procs, Forked(p, c) PROVE FamilyInv'
    <2>1. p # c /\ \A q \in Procs : c \notin before[q]
      BY <1>2 DEF Forked, FamilyInv, UnbornUnrelated
    <2>2. \A q \in Procs \ {c} : before'[q] = IF q = p \/ p \in before[q] THEN before[q] \cup {c}
                                              ELSE before[q]
      BY <1>2 DEF Forked
    <2>3. before'[c] = before[p]
      BY <1>2 DEF Forked
    <2>4. UnbornUnrelated'
      <3> SUFFICES ASSUME NEW d \in Procs, phase'[d] = "unborn"
                   PROVE  /\ parent'[d] = NoPid /\ before'[d] = {}
                          /\ \A q \in Procs : d \notin before'[q]
        BY DEF UnbornUnrelated
      <3>1. d # p /\ d # c /\ phase[d] = "unborn" /\ parent'[d] = parent[d]
        BY <1>0, <1>2 DEF Forked
      <3>2. parent[d] = NoPid /\ before[d] = {} /\ \A q \in Procs : d \notin before[q]
        BY <3>1 DEF FamilyInv, UnbornUnrelated
      <3> QED
        BY <2>2, <2>3, <3>1, <3>2
    <2>5. ChildrenBefore'
      <3> SUFFICES ASSUME NEW q \in Procs, NEW d \in Procs, parent'[d] = q
                   PROVE  d \in before'[q]
        BY DEF ChildrenBefore
      <3>1. CASE d = c
        BY <1>0, <1>2, <2>1, <2>2, <3>1 DEF Forked
      <3>2. CASE d # c
        <4>1. d \in before[q]
          BY <1>0, <1>2, <3>2 DEF Forked, FamilyInv, ChildrenBefore
        <4>2. q # c
          BY <1>2, <4>1 DEF Forked, FamilyInv, UnbornUnrelated
        <4> QED
          BY <2>2, <4>1, <4>2
      <3> QED
        BY <3>1, <3>2
    <2>6. NotBeforeItself'
      BY <2>1, <2>2, <2>3 DEF FamilyInv, NotBeforeItself
    <2>7. BeforeOrdered'
      <3> SUFFICES ASSUME NEW q \in Procs, NEW d \in Procs, d \in before'[q]
                   PROVE  before'[d] \subseteq before'[q]
        BY DEF BeforeOrdered
      <3>0. \A r \in before[p] : before'[r] = before[r] /\ before[r] \subseteq before[p]
        BY <1>0, <2>1, <2>2 DEF FamilyInv, NotBeforeItself, BeforeOrdered
      <3>1. CASE q = c
        BY <2>3, <3>0, <3>1
      <3>2. CASE q = p
        BY <2>1, <2>2, <2>3, <3>0, <3>2
      <3>3. CASE q \notin {p, c}
        <4>1. CASE d = c
          BY <2>1, <2>2, <2>3, <3>3, <4>1 DEF FamilyInv, BeforeOrdered
        <4>2. CASE d # c
          <5>1. d \in before[q]
            BY <2>2, <3>3, <4>2
          <5>2. before[d] \subseteq before[q]
            BY <5>1 DEF FamilyInv, BeforeOrdered
          <5>3. d = p \/ p \in before[d] => p \in before[q]
            BY <5>1, <5>2
          <5>4. /\ before'[d] = IF d = p \/ p \in before[d] THEN before[d] \cup {c} ELSE before[d]
                /\ before'[q] = IF p \in before[q] THEN before[q] \cup {c} ELSE before[q]
            BY <2>2, <3>3, <4>2
          <5> QED
            BY <5>2, <5>3, <5>4
        <4> QED
          BY <4>1, <4>2
      <3> QED
        BY <3>1, <3>2, <3>3
    <2>8. BeforeFinite'
      <3>1. \A q \in Procs : IsFiniteSet(before[q]) /\ IsFiniteSet(before[q] \cup {c})
        BY FS_AddElement DEF FamilyInv, BeforeFinite
      <3> QED
        BY <2>2, <2>3, <3>1 DEF BeforeFinite
    <2> QED
      BY <2>4, <2>5, <2>6, <2>7, <2>8 DEF FamilyInv
  <1> QED
    BY <1>1, <1>2, OnlyForkRelates, ForkRelates

LEMMA InitFamily == Init => FamilyInv
  BY FS_EmptySet, GThreadAssumption
     DEF Init, FamilyInv, UnbornUnrelated, ChildrenBefore, NotBeforeItself,
         BeforeOrdered, BeforeFinite

LEMMA FamilyInvariant == Spec => []FamilyInv
  BY InductiveInvariant, InitFamily, NextFamily, PTL DEF Spec

-----------------------------------------------------------------------------
(* Waiting *)

\* With NO_ORDER, nobody waits for a predecessor that is not its own child; and
\* if threads are joined by their creator, joins are for children, too.
WaitsForChildren ==
  /\ NoOrder => \A p \in Procs : predecessor[p] # NoPid => parent[predecessor[p]] = p
  /\ ~ForeignJoin =>
       \A p \in Procs : call[p].op = "join" => parent[call[p].thread] = p

\* A call of pthread_join is made for a thread that the rules allow to be joined.
LEMMA CallOfJoin ==
  ASSUME IInv, [Next]_vars, NEW p \in Procs, call'[p].op = "join"
  PROVE  \/ call'[p] = call[p]
         \/ ForeignJoin
         \/ parent[call'[p].thread] = p
  <1> DEFINE Allowed == call'[p] = call[p] \/ ForeignJoin \/ parent[call'[p].thread] = p
  <1>0. TypeOK
    BY DEF IInv
  <1>1. ASSUME NEW q \in Procs, NEW what, EndSection(q, what),
               what.op = "join" => ForeignJoin \/ parent[what.thread] = q
        PROVE  Allowed
    BY <1>0, <1>1 DEF EndSection, TypeOK
  <1>2. ASSUME NEW q \in Procs, Calling(q) PROVE Allowed
    <2>1. CASE CallCreate(q)
      BY <1>1, <2>1 DEF CallCreate
    <2>2. CASE CallExit(q)
      BY <1>1, <2>2 DEF CallExit
    <2>3. ASSUME NEW t \in Procs, CallJoin(q, t) PROVE Allowed
      BY <1>1, <2>3 DEF CallJoin
    <2>4. CASE q = Root /\ WrappedMain
      BY <1>1, <2>4 DEF WrappedMain, Children
    <2> QED
      BY <1>2, <2>1, <2>2, <2>3, <2>4 DEF Calling
  <1>3. ASSUME NEW q \in Procs, call' = [call EXCEPT ![q] = NoCall] PROVE Allowed
    BY <1>0, <1>3 DEF TypeOK, NoCall
  <1>4. ASSUME NEW q \in Procs, Library(q) \/ RealSegfault(q) PROVE Allowed
    BY <1>3, <1>4 DEF Library, PredecessorExited, Commit, Rollback, Fork, ForkFails,
                      JoinReturns, Exit, RealSegfault, Leave
  <1>5. ASSUME NEW q \in Procs, Touch(q) \/ InitReaps(q) PROVE Allowed
    BY <1>5 DEF Touch, InitReaps
  <1>6. CASE UNCHANGED vars
    BY <1>6 DEF vars
  <1> QED
    BY <1>2, <1>4, <1>5, <1>6 DEF Next, Terminated

LEMMA NextWaits == IInv /\ FamilyInv /\ WaitsForChildren /\ [Next]_vars => WaitsForChildren'
  <1> SUFFICES ASSUME IInv, FamilyInv, WaitsForChildren, [Next]_vars PROVE WaitsForChildren'
    OBVIOUS
  <1>0. /\ parent \in [Procs -> Procs \cup {NoPid}] /\ predecessor \in [Procs -> Procs \cup {NoPid}]
        /\ call \in [Procs -> Calls] /\ call' \in [Procs -> Calls] /\ NoPid \notin Procs
    BY GThreadAssumption, NextType DEF IInv, TypeOK
  <1>1. ASSUME NEW q \in Procs, NEW t \in Procs, parent[t] = q PROVE parent'[t] = q
    <2>1. ASSUME NEW p \in Procs, NEW c \in Procs, Forked(p, c) PROVE parent'[t] = q
      <3>1. t # c
        BY <1>0, <1>1, <2>1 DEF Forked, FamilyInv, UnbornUnrelated
      <3> QED
        BY <1>0, <1>1, <2>1, <3>1 DEF Forked
    <2> QED
      BY <1>1, <2>1, OnlyForkRelates, ForkRelates
  <1>2. ASSUME NoOrder, NEW q \in Procs, predecessor'[q] # NoPid
        PROVE  parent'[predecessor'[q]] = q
    <2>1. CASE predecessor'[q] = predecessor[q]
      BY <1>0, <1>1, <1>2, <2>1 DEF WaitsForChildren
    <2>2. ASSUME NEW p \in Procs, NEW c \in Procs, Forked(p, c)
          PROVE  parent'[predecessor'[q]] = q
      <3>1. CASE q = p
        BY <1>0, <2>2, <3>1 DEF Forked
      <3>2. CASE q = c
        BY <1>0, <1>2, <2>2, <3>2 DEF Forked, ChildPredecessor
      <3>3. CASE q # p /\ q # c
        BY <1>0, <2>1, <2>2, <3>3 DEF Forked
      <3> QED
        BY <3>1, <3>2, <3>3
    <2> QED
      BY <2>1, <2>2, OnlyForkRelates, ForkRelates
  <1>3. ASSUME ~ForeignJoin, NEW q \in Procs, call'[q].op = "join"
        PROVE  parent'[call'[q].thread] = q
    <2>1. call'[q].thread \in Procs
      BY <1>0, <1>3 DEF Calls
    <2>2. parent[call'[q].thread] = q
      BY <1>3, CallOfJoin DEF WaitsForChildren
    <2> QED
      BY <1>1, <2>1, <2>2
  <1> QED
    BY <1>2, <1>3 DEF WaitsForChildren

LEMMA InitWaits == Init => WaitsForChildren
  BY DEF Init, WaitsForChildren, NoCall

\* A process that waits does so for a child that is still there.
LEMMA StuckOnChild ==
  ASSUME IInv, FamilyInv, WaitsForChildren, NoOrder, ~ForeignJoin,
         NEW p \in Procs, Stuck(p)
  PROVE  \E t \in Procs : parent[t] = p /\ phase[t] \notin {"unborn", "exited"}
  <1> DEFINE t == Awaited(p)
  <1>1. t # NoPid /\ t \notin reaped /\ ~(parent[t] = p /\ phase[t] = "exited")
    BY DEF Stuck
  <1>2. t \in Procs /\ parent[t] = p
    <2>1. CASE phase[p] = "waiting"
      BY <1>1, <2>1 DEF Awaited, WaitsForChildren, IInv, TypeOK
    <2>2. CASE phase[p] = "ended" /\ call[p].op = "join"
      <3>1. t = call[p].thread /\ t \in Procs
        BY <2>2, JoineeIsThread DEF Awaited
      <3> QED
        BY <2>2, <3>1 DEF WaitsForChildren
    <2> QED
      BY <1>1, <2>1, <2>2 DEF Awaited
  <1>3. phase[t] # "unborn"
    BY <1>2, GThreadAssumption DEF FamilyInv, UnbornUnrelated
  <1> QED
    BY <1>1, <1>2, <1>3

\* Of processes that wait for children, the one with the fewest before it in the
\* serial program waits for none of the others.
LEMMA NoCircle ==
  ASSUME IInv, FamilyInv, WaitsForChildren, NoOrder, ~ForeignJoin
  PROVE  SomeoneMoves
  <1> DEFINE A == {p \in Procs : phase[p] \notin {"unborn", "exited"}}
             R == StrictSubsetOrdering(Procs)
             F == FiniteSubsetsOf(Procs)
             T == {x \in F : \E p \in A : before[p] = x}
  <1> SUFFICES ASSUME A # {}, \A p \in A : Stuck(p) PROVE FALSE
    BY DEF SomeoneMoves
  <1>1. \A p \in A : before[p] \in T
    BY DEF FiniteSubsetsOf, FamilyInv, BeforeFinite, IInv, TypeOK
  <1>2. PICK x \in T : \A y \in T : <<y, x>> \notin R
    <2>1. IsWellFoundedOn(R, F)
      BY FS_StrictSubsetOrderingWellFounded
    <2>2. T \subseteq F /\ T # {}
      BY <1>1
    <2> HIDE DEF T, R, F
    <2> QED
      BY <2>1, <2>2, WFMin
  <1>3. PICK p \in A : before[p] = x
    OBVIOUS
  <1>4. PICK t \in A : parent[t] = p
    BY StuckOnChild
  <1>5. before[t] \subseteq before[p] /\ t \in before[p] /\ t \notin before[t]
    BY <1>4 DEF FamilyInv, ChildrenBefore, BeforeOrdered, NotBeforeItself
  <1>6. <<before[t], before[p]>> \in R
    BY <1>5 DEF StrictSubsetOrdering, IInv, TypeOK
  <1> QED
    BY <1>1, <1>2, <1>3, <1>6

\* In the default build no program in which threads are joined by their creator
\* comes to a circle of processes in WaitExited (gstm.cc:162), be it that some of
\* them fault or cannot fork.
THEOREM NoDeadlock ==
  ASSUME NoOrder, ~ForeignJoin
  PROVE  Spec => []SomeoneMoves
  <1>1. Spec => []WaitsForChildren
    BY InductiveInvariant, FamilyInvariant, InitWaits, NextWaits, PTL DEF Spec
  <1> QED
    BY <1>1, InductiveInvariant, FamilyInvariant, NoCircle, PTL

-----------------------------------------------------------------------------
(* The serial order *)

\* Without NO_ORDER the predecessor is the last of the threads before a process,
\* so that all others come before it.
PredecessorLast ==
  ~NoOrder =>
    \A p \in Procs :
      /\ predecessor[p] = NoPid => before[p] = {}
      /\ predecessor[p] # NoPid =>
           /\ predecessor[p] \in before[p]
           /\ before[p] \subseteq before[predecessor[p]] \cup {predecessor[p]}

\* A process whose last section has waited for the predecessor.
Waited(p) ==
  \/ phase[p] = "validating"
  \/ phase[p] = "ended" /\ touched[p]
  \/ phase[p] = "exited" /\ p \notin hasty

\* Whoever has waited comes after nobody but the dead, unless one of these was
\* in a haste.
WaitedForAll ==
  ~NoOrder =>
    \A p \in Procs :
      Waited(p) /\ before[p] \cap hasty = {} => \A q \in before[p] : phase[q] = "exited"

OrderInv == PredecessorLast /\ WaitedForAll

LEMMA NextPredecessorLast ==
  ASSUME IInv, FamilyInv, PredecessorLast, [Next]_vars
  PROVE  PredecessorLast'
  <1> SUFFICES ASSUME ~NoOrder PROVE PredecessorLast'
    BY DEF PredecessorLast
  <1>0. /\ before \in [Procs -> SUBSET Procs]
        /\ predecessor \in [Procs -> Procs \cup {NoPid}] /\ NoPid \notin Procs
    BY GThreadAssumption DEF IInv, TypeOK
  <1>1. CASE UNCHANGED <<predecessor, before>>
    BY <1>1 DEF PredecessorLast
  <1>2. ASSUME NEW p \in Procs, NEW c \in Procs, Forked(p, c) PROVE PredecessorLast'
    <2> DEFINE Last(q, t, b, bt) == t \in b /\ b \subseteq bt \cup {t}
    <2>1. p # c /\ \A q \in Procs : c \notin before[q]
      BY <1>2 DEF Forked, FamilyInv, UnbornUnrelated
    <2>2. \A q \in Procs \ {c} : before'[q] = IF q = p \/ p \in before[q] THEN before[q] \cup {c}
                                              ELSE before[q]
      BY <1>2 DEF Forked
    <2>3. before'[c] = before[p]
      BY <1>2 DEF Forked
    <2>4. predecessor'[p] = c /\ predecessor'[c] = predecessor[p]
      BY <1>0, <1>2 DEF Forked, ChildPredecessor
    <2>5. \A q \in Procs \ {p, c} : predecessor'[q] = predecessor[q]
      BY <1>0, <1>2 DEF Forked
    <2>6. \A r \in before[p] : before'[r] = before[r]
      BY <1>0, <2>1, <2>2 DEF FamilyInv, NotBeforeItself, BeforeOrdered
    <2> SUFFICES ASSUME NEW q \in Procs
                 PROVE  /\ predecessor'[q] = NoPid => before'[q] = {}
                        /\ predecessor'[q] # NoPid =>
                             /\ predecessor'[q] \in before'[q]
                             /\ before'[q] \subseteq before'[predecessor'[q]] \cup {predecessor'[q]}
      BY DEF PredecessorLast
    <2>7. CASE q = p
      BY <1>0, <2>1, <2>2, <2>3, <2>4, <2>7
    <2>8. CASE q = c
      BY <1>0, <2>3, <2>4, <2>6, <2>8 DEF PredecessorLast
    <2>9. CASE q \notin {p, c}
      <3>1. CASE predecessor[q] = NoPid
        BY <2>2, <2>5, <2>9, <3>1 DEF PredecessorLast
      <3>2. CASE predecessor[q] # NoPid
        <4> DEFINE t == predecessor[q]
        <4>1. t \in before[q] /\ before[q] \subseteq before[t] \cup {t} /\ t \in Procs
          BY <1>0, <3>2 DEF PredecessorLast
        <4>2. t # c /\ predecessor'[q] = t
          BY <2>1, <2>5, <2>9, <4>1
        <4>3. /\ before'[t] = IF t = p \/ p \in before[t] THEN before[t] \cup {c} ELSE before[t]
              /\ before'[q] = IF p \in before[q] THEN before[q] \cup {c} ELSE before[q]
          BY <2>2, <2>9, <4>1, <4>2
        <4> HIDE DEF t
        <4> QED
          BY <1>0, <4>1, <4>2, <4>3
      <3> QED
        BY <3>1, <3>2
    <2> QED
      BY <2>7, <2>8, <2>9
  <1> QED
    BY <1>1, <1>2, OnlyForkRelates, ForkRelates

\* Nobody comes to have waited but by waiting for its predecessor, and the haste
\* of a process is never forgotten.
LEMMA WaitedBefore ==
  ASSUME IInv, [Next]_vars, NEW q \in Procs, Waited(q)'
  PROVE  /\ hasty \subseteq hasty'
         /\ Waited(q) \/ (phase[q] = "waiting" /\ WaitExited(q, predecessor[q]))
  <1>0. TypeOK
    BY DEF IInv
  <1> DEFINE Goal == /\ hasty \subseteq hasty'
                     /\ \/ Waited(q)
                        \/ phase[q] = "waiting" /\ WaitExited(q, predecessor[q])
  <1>1. ASSUME NEW p \in Procs, Calling(p) PROVE Goal
    <2>1. PICK what : EndSection(p, what)
      BY <1>1 DEF Calling, CallCreate, CallExit, CallJoin, WrappedMain
    <2> QED
      BY <1>0, <2>1 DEF EndSection, Goto, sectionVars, Waited, TypeOK
  <1>2. ASSUME NEW p \in Procs, PredecessorExited(p) PROVE Goal
    BY <1>0, <1>2 DEF PredecessorExited, Goto, sectionVars, Waited, TypeOK
  <1>3. ASSUME NEW p \in Procs, Commit(p) PROVE Goal
    BY <1>0, <1>3 DEF Commit, Goto, Waited, TypeOK
  <1>4. ASSUME NEW p \in Procs, Rollback(p) \/ JoinReturns(p) PROVE Goal
    <2>1. /\ phase' = [phase EXCEPT ![p] = "running"]
          /\ touched' = [touched EXCEPT ![p] = FALSE]
          /\ hasty' = hasty
      BY <1>4 DEF Rollback, JoinReturns, Begin, Goto
    <2>2. q # p
      BY <1>0, <2>1 DEF Waited, TypeOK
    <2> QED
      BY <1>0, <2>1, <2>2 DEF Waited, TypeOK
  <1>5. ASSUME NEW p \in Procs, NEW c \in Procs, Fork(p, c) PROVE Goal
    BY <1>0, <1>5 DEF Fork, Begin, Waited, TypeOK
  <1>6. ASSUME NEW p \in Procs, Leave(p) PROVE Goal
    BY <1>0, <1>6 DEF Leave, Goto, sectionVars, Waited, TypeOK
  <1>7. ASSUME NEW p \in Procs, Touch(p) PROVE Goal
    BY <1>0, <1>7 DEF Touch, Waited, TypeOK
  <1>8. ASSUME NEW p \in Procs, InitReaps(p) PROVE Goal
    BY <1>8 DEF InitReaps, sectionVars, Waited
  <1>9. CASE UNCHANGED vars
    BY <1>9 DEF vars, sectionVars, Waited
  <1> QED
    BY <1>1, <1>2, <1>3, <1>4, <1>5, <1>6, <1>7, <1>8, <1>9
       DEF Next, Library, ForkFails, Exit, RealSegfault, Terminated

LEMMA NextWaitedForAll ==
  ASSUME IInv, FamilyInv, OrderInv, [Next]_vars
  PROVE  WaitedForAll'
  <1> SUFFICES ASSUME ~NoOrder, NEW q \in Procs, Waited(q)', before'[q] \cap hasty' = {}
               PROVE  \A r \in before'[q] : phase'[r] = "exited"
    BY DEF WaitedForAll
  <1>0. /\ before \in [Procs -> SUBSET Procs] /\ phase \in [Procs -> Phases]
        /\ predecessor \in [Procs -> Procs \cup {NoPid}] /\ NoPid \notin Procs
    BY GThreadAssumption DEF IInv, TypeOK
  <1>1. hasty \subseteq hasty'
    BY WaitedBefore
  <1>2. before[q] \subseteq before'[q]
    <2>1. ASSUME NEW p \in Procs, NEW c \in Procs, Forked(p, c)
          PROVE  before[q] \subseteq before'[q]
      BY <2>1 DEF Forked, FamilyInv, UnbornUnrelated
    <2> QED
      BY <2>1, OnlyForkRelates, ForkRelates
  <1>3. before[q] \cap hasty = {}
    BY <1>1, <1>2
  <1>4. \A r \in before[q] : phase[r] = "exited"
    <2>1. CASE Waited(q)
      BY <1>3, <2>1 DEF OrderInv, WaitedForAll
    <2>2. CASE phase[q] = "waiting" /\ WaitExited(q, predecessor[q])
      <3>1. CASE predecessor[q] = NoPid
        BY <3>1 DEF OrderInv, PredecessorLast
      <3>2. CASE predecessor[q] # NoPid
        <4> DEFINE t == predecessor[q]
        <4>1. /\ t \in Procs /\ t \in before[q] /\ before[q] \subseteq before[t] \cup {t}
              /\ before[t] \subseteq before[q]
          BY <1>0, <3>2 DEF OrderInv, PredecessorLast, FamilyInv, BeforeOrdered
        <4>2. phase[t] = "exited"
          BY <2>2, <3>2 DEF WaitExited, IInv, ReapedExited
        <4>3. Waited(t) /\ before[t] \cap hasty = {}
          BY <1>3, <4>1, <4>2 DEF Waited
        <4>4. \A r \in before[t] : phase[r] = "exited"
          BY <4>1, <4>3 DEF OrderInv, WaitedForAll
        <4> QED
          BY <4>1, <4>2, <4>4
      <3> QED
        BY <3>1, <3>2
    <2> QED
      BY <2>1, <2>2, WaitedBefore
  <1>5. before'[q] = before[q]
    <2>1. ASSUME NEW p \in Procs, NEW c \in Procs, Forked(p, c)
          PROVE  before'[q] = before[q]
      <3>1. p \notin before[q]
        BY <1>4, <2>1 DEF Forked
      <3>2. q # p /\ q # c
        <4>1. phase'[p] = "running" /\ phase'[c] = "running"
          BY <1>0, <2>1 DEF Forked
        <4> QED
          BY <4>1 DEF Waited
      <3> QED
        BY <2>1, <3>1, <3>2 DEF Forked
    <2> QED
      BY <2>1, OnlyForkRelates, ForkRelates
  <1> QED
    BY <1>0, <1>4, <1>5, ExitedStays

LEMMA InitOrder == Init => OrderInv
  BY DEF Init, OrderInv, PredecessorLast, WaitedForAll

LEMMA OrderInvariant == Spec => []OrderInv
  <1>1. IInv /\ FamilyInv /\ OrderInv /\ [Next]_vars => OrderInv'
    BY NextPredecessorLast, NextWaitedForAll DEF OrderInv
  <1> QED
    BY <1>1, InductiveInvariant, FamilyInvariant, InitOrder, PTL DEF Spec

\* Without NO_ORDER a section is committed in the order of the serial program
\* (proposal.md:28), but for the processes behind one that has exited without
\* waiting: because its last section had touched nothing (gthread.cc:93), or by
\* a fault.
THEOREM SerialOrder ==
  ASSUME ~NoOrder
  PROVE  Spec => SequentialUnlessHasty
  <1>1. IInv /\ OrderInv =>
          \A p \in Procs :
            phase[p] = "validating" /\ phase'[p] = "ended" =>
              \A q \in before[p] : phase[q] = "exited" \/ before[p] \cap hasty # {}
    BY DEF OrderInv, WaitedForAll, Waited
  <1> QED
    BY <1>1, InductiveInvariant, OrderInvariant, PTL DEF SequentialUnlessHasty

=============================================================================
