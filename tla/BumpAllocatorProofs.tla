------------------------ MODULE BumpAllocatorProofs ------------------------
(***************************************************************************)
(* Theorems about the heap of bump_allocator.cc.  BumpAllocator, for any   *)
(* number of processes, subheaps and objects of any size: processes of     *)
(* different subheaps are given different memory.  Startup, for any pages  *)
(* and values: once the program runs its processes have one heap, and what *)
(* was written to it is kept unless a constructor has written it.          *)
(***************************************************************************)
EXTENDS BumpAllocator, Startup, TLAPS

-----------------------------------------------------------------------------
(* Arithmetic *)

LEMMA IndexType == \A p \in Pids : Index(p) \in Subheap
  BY BumpAssumption DEF Index, Subheap

\* ROUND_UP does not round down.
LEMMA RoundUpGrows == \A x \in Nat : RoundUp(x) \in Nat /\ x <= RoundUp(x)
  <1> TAKE x \in Nat
  <1>1. x % MinAligned \in 0..(MinAligned - 1)
    BY BumpAssumption
  <1> QED
    BY <1>1, BumpAssumption DEF RoundUp

LEMMA BottomType == \A i \in Subheap : Bottom(i) \in Nat
  BY BumpAssumption DEF Bottom, Subheap

\* A subheap ends before the next begins.
LEMMA SubheapsApart ==
  \A i, j \in Subheap : i < j => Bottom(i) + SubheapSize <= Bottom(j)
  <1> TAKE i, j \in Subheap
  <1> HAVE i < j
  <1> DEFINE k == j - (i + 1)
  <1>1. i \in Nat /\ k \in Nat /\ SubheapSize \in Nat /\ j = i + 1 + k
    BY BumpAssumption DEF Subheap
  <1>2. (i + 1 + k) * SubheapSize = i * SubheapSize + SubheapSize + k * SubheapSize
    BY <1>1
  <1>3. k * SubheapSize \in Nat /\ i * SubheapSize \in Nat
    BY <1>1
  <1> QED
    BY <1>1, <1>2, <1>3 DEF Bottom

-----------------------------------------------------------------------------
(* The inductive invariant *)

\* No two process ids select the same subheap.
DistinctIndices == \A p, q \in Pids : Index(p) = Index(q) => p = q

\* The part of its subheap that a process has handed out.
HandedOut(o) ==
  /\ o.owner \in started
  /\ Bottom(Index(o.owner)) <= o.start
  /\ o.start + o.size <= subheaps[o.owner][Index(o.owner)]

\* Every object lies in that part.
ObjectsHandedOut == \A o \in Allocated : HandedOut(o)

\* Every table a process may inherit has its own subheap's pointer where
\* GlobalHeapInit has put it.
SubheapsUntouched ==
  \A p \in started : \A q \in Pids \ started : subheaps[p][Index(q)] = Bottom(Index(q))

\* A pointer is never below its subheap.
PointersUp == \A p \in started : Bottom(Index(p)) <= subheaps[p][Index(p)]

\* The objects of one process are disjoint, committed or not.
OwnDisjoint ==
  \A o, u \in Allocated : o # u /\ o.owner = u.owner => Disjoint(o, u)

IInv == TypeOK /\ ObjectsHandedOut /\ SubheapsUntouched /\ PointersUp /\ OwnDisjoint

LEMMA InitInv == Init => IInv
  <1> SUFFICES ASSUME Init PROVE IInv
    OBVIOUS
  <1>1. TypeOK
    BY BumpAssumption, BottomType DEF Init, NewProcess, TypeOK
  <1>2. Allocated = {}
    BY DEF Init, NewProcess, Allocated
  <1>3. \A p \in started : \A q \in Pids : subheaps[p][Index(q)] = Bottom(Index(q))
    BY BumpAssumption, IndexType DEF Init, NewProcess
  <1>4. PointersUp
    BY <1>3, BumpAssumption, BottomType, IndexType DEF PointersUp, Init, NewProcess
  <1> QED
    BY <1>1, <1>2, <1>3, <1>4 DEF IInv, ObjectsHandedOut, SubheapsUntouched, OwnDisjoint

\* A step that allocates nothing and at most starts a process with another's
\* table keeps all but the types.
LEMMA NoAllocation ==
  ASSUME IInv, TypeOK', Allocated' \subseteq Allocated,
         \/ started' = started /\ subheaps' = subheaps
         \/ \E p \in started, c \in Pids \ started :
              /\ started' = started \cup {c}
              /\ subheaps' = [subheaps EXCEPT ![c] = subheaps[p]]
  PROVE  IInv'
  <1>0. TypeOK
    BY DEF IInv
  <1>1. started \subseteq started' /\ \A q \in started : subheaps'[q] = subheaps[q]
    BY <1>0 DEF TypeOK
  <1>2. ObjectsHandedOut'
    BY <1>1 DEF IInv, ObjectsHandedOut, HandedOut
  <1>3. OwnDisjoint'
    BY DEF IInv, OwnDisjoint, Disjoint
  <1>4. CASE started' = started /\ subheaps' = subheaps
    <2>1. SubheapsUntouched' /\ PointersUp'
      BY <1>4 DEF IInv, SubheapsUntouched, PointersUp
    <2> QED
      BY <1>2, <1>3, <2>1 DEF IInv
  <1>5. ASSUME NEW p \in started, NEW c \in Pids \ started,
               started' = started \cup {c},
               subheaps' = [subheaps EXCEPT ![c] = subheaps[p]]
        PROVE  IInv'
    <2>1. \A q \in Pids \ started : subheaps[p][Index(q)] = Bottom(Index(q))
      BY DEF IInv, SubheapsUntouched
    <2>2. subheaps'[c] = subheaps[p]
      BY <1>0, <1>5 DEF TypeOK
    <2>3. SubheapsUntouched'
      BY <1>0, <1>1, <1>5, <2>1, <2>2 DEF IInv, SubheapsUntouched
    <2>4. PointersUp'
      <3>1. Bottom(Index(c)) <= subheaps'[c][Index(c)]
        BY <2>1, <2>2, BottomType, IndexType
      <3> QED
        BY <1>1, <1>5, <3>1 DEF IInv, PointersUp
    <2> QED
      BY <1>2, <1>3, <2>3, <2>4 DEF IInv
  <1> QED
    BY <1>4, <1>5

LEMMA XxmallocInv ==
  ASSUME IInv, DistinctIndices, NEW p \in Pids, NEW size \in Sizes, Xxmalloc(p, size)
  PROVE  IInv'
  <1> DEFINE i == Index(p)
             from == subheaps[p][i]
             upto == from + RoundUp(size)
  <1>0. /\ TypeOK /\ p \in started /\ i \in Subheap
        /\ from \in Nat /\ count \in Nat /\ size \in Nat
    BY IndexType, BumpAssumption DEF Xxmalloc, IInv, TypeOK
  <1>1. upto \in Nat /\ from + size <= upto
    BY <1>0, RoundUpGrows
  <1>2. PICK obj \in Object :
           obj = [id |-> count, owner |-> p, start |-> from, size |-> size]
    BY <1>0 DEF Object
  <1>3. /\ subheaps'[p][i] = upto
        /\ \A q \in Pids, j \in Subheap : q # p \/ j # i => subheaps'[q][j] = subheaps[q][j]
    BY <1>0 DEF Xxmalloc, TypeOK
  <1>4. pending' = [pending EXCEPT ![p] = @ \cup {obj}] /\ objects' = objects
    BY <1>2 DEF Xxmalloc
  <1>5. started' = started /\ running' = running /\ p \in running
    BY DEF Xxmalloc
  <1>6. subheaps' \in [Pids -> [Subheap -> Nat]]
    <2>1. subheaps' = [subheaps EXCEPT ![p] = [subheaps[p] EXCEPT ![i] = upto]]
      BY <1>0 DEF Xxmalloc, TypeOK
    <2> HIDE DEF upto, from, i
    <2>2. [subheaps[p] EXCEPT ![i] = upto] \in [Subheap -> Nat]
      BY <1>0, <1>1 DEF TypeOK
    <2> QED
      BY <1>0, <2>1, <2>2 DEF TypeOK
  <1> HIDE DEF upto, from
  <1>7. TypeOK'
    <2>1. pending' \in [Pids -> SUBSET Object] /\ \A q \in Pids \ running' : pending'[q] = {}
      BY <1>0, <1>2, <1>4, <1>5 DEF TypeOK
    <2>2. count' \in 0..MaxObjects
      BY <1>0, BumpAssumption DEF Xxmalloc, TypeOK
    <2> QED
      BY <1>0, <1>6, <2>1, <2>2 DEF Xxmalloc, TypeOK
  <1>8. Allocated' \subseteq Allocated \cup {obj}
    BY <1>0, <1>4 DEF Allocated, TypeOK
  <1>9. obj.owner = p /\ obj.start = from /\ obj.size = size
    BY <1>2
  <1>10. \A o \in Allocated : o \in Object /\ HandedOut(o)
    BY <1>0 DEF IInv, ObjectsHandedOut, Allocated, TypeOK
  <1>11. Bottom(i) <= from
    BY <1>0 DEF IInv, PointersUp, from
  <1>12. ObjectsHandedOut'
    <2>1. ASSUME NEW o \in Allocated PROVE HandedOut(o)'
      <3>1. /\ o.owner \in started /\ o.start \in Nat /\ o.size \in Nat /\ o.owner \in Pids
            /\ Bottom(Index(o.owner)) <= o.start
            /\ o.start + o.size <= subheaps[o.owner][Index(o.owner)]
        BY <1>10 DEF HandedOut, Object
      <3>2. CASE o.owner = p
        BY <1>0, <1>1, <1>3, <1>5, <3>1, <3>2 DEF HandedOut, from
      <3>3. CASE o.owner # p
        BY <1>3, <1>5, <3>1, <3>3, IndexType DEF HandedOut
      <3> QED
        BY <3>2, <3>3
    <2>2. HandedOut(obj)'
      BY <1>0, <1>1, <1>3, <1>5, <1>9, <1>11 DEF HandedOut
    <2> QED
      BY <1>8, <2>1, <2>2 DEF ObjectsHandedOut
  <1>13. SubheapsUntouched'
    <2> SUFFICES ASSUME NEW q \in started, NEW c \in Pids \ started
                 PROVE  subheaps'[q][Index(c)] = Bottom(Index(c))
      BY <1>5 DEF SubheapsUntouched
    <2>1. Index(c) # i /\ Index(c) \in Subheap /\ q \in Pids
      BY <1>0, IndexType DEF DistinctIndices, TypeOK
    <2> QED
      BY <1>3, <2>1 DEF IInv, SubheapsUntouched
  <1>14. PointersUp'
    <2> SUFFICES ASSUME NEW q \in started PROVE Bottom(Index(q)) <= subheaps'[q][Index(q)]
      BY <1>5 DEF PointersUp
    <2>1. CASE q = p
      BY <1>0, <1>1, <1>3, <1>11, <2>1, BottomType
    <2>2. CASE q # p
      BY <1>0, <1>3, <2>2, IndexType DEF IInv, PointersUp, TypeOK
    <2> QED
      BY <2>1, <2>2
  <1>15. OwnDisjoint'
    <2>1. ASSUME NEW o \in Allocated, o.owner = p PROVE Disjoint(o, obj) /\ Disjoint(obj, o)
      BY <1>9, <1>10, <2>1 DEF HandedOut, Disjoint, from
    <2>2. \A o, u \in Allocated : o # u /\ o.owner = u.owner => Disjoint(o, u)
      BY DEF IInv, OwnDisjoint
    <2> SUFFICES ASSUME NEW o \in Allocated', NEW u \in Allocated', o # u, o.owner = u.owner
                 PROVE  Disjoint(o, u)
      BY DEF OwnDisjoint, Disjoint
    <2> QED
      BY <1>8, <1>9, <2>1, <2>2
  <1> QED
    BY <1>7, <1>12, <1>13, <1>14, <1>15 DEF IInv

LEMMA NextInv == ASSUME DistinctIndices PROVE IInv /\ [Next]_vars => IInv'
  <1> SUFFICES ASSUME IInv, [Next]_vars PROVE IInv'
    OBVIOUS
  <1>0. TypeOK
    BY DEF IInv
  <1>1. ASSUME NEW p \in Pids, NEW size \in Sizes, Xxmalloc(p, size) PROVE IInv'
    BY <1>1, XxmallocInv
  <1>2. ASSUME NEW p \in Pids, Commit(p) PROVE IInv'
    <2>1. TypeOK'
      BY <1>0, <1>2 DEF Commit, TypeOK
    <2>2. Allocated' \subseteq Allocated
      BY <1>0, <1>2 DEF Commit, Allocated, TypeOK
    <2> QED
      BY <1>2, <2>1, <2>2, NoAllocation DEF Commit
  <1>3. ASSUME NEW p \in Pids, Rollback(p) \/ Exit(p) PROVE IInv'
    <2>1. TypeOK'
      BY <1>0, <1>3 DEF Rollback, Exit, TypeOK
    <2>2. Allocated' \subseteq Allocated
      BY <1>0, <1>3 DEF Rollback, Exit, Allocated, TypeOK
    <2> QED
      BY <1>3, <2>1, <2>2, NoAllocation DEF Rollback, Exit
  <1>4. ASSUME NEW p \in Pids, NEW c \in Pids, Fork(p, c) PROVE IInv'
    <2>1. TypeOK'
      BY <1>0, <1>4 DEF Fork, TypeOK
    <2>2. Allocated' \subseteq Allocated
      BY <1>4 DEF Fork, Allocated
    <2>3. p \in started
      BY <1>0, <1>4 DEF Fork, TypeOK
    <2> QED
      BY <1>4, <2>1, <2>2, <2>3, NoAllocation DEF Fork
  <1>5. CASE UNCHANGED vars
    <2>1. TypeOK' /\ Allocated' \subseteq Allocated
      BY <1>0, <1>5 DEF vars, TypeOK, Allocated
    <2> QED
      BY <1>5, <2>1, NoAllocation DEF vars
  <1> QED
    BY <1>1, <1>2, <1>3, <1>4, <1>5 DEF Next, Terminated

LEMMA InductiveInvariant == ASSUME DistinctIndices PROVE Spec => []IInv
  <1>1. IInv /\ [Next]_vars => IInv'
    BY NextInv
  <1> QED
    BY <1>1, InitInv, PTL DEF Spec

-----------------------------------------------------------------------------
(* The theorems *)

\* The pointers of GlobalHeapInit, copied by every fork and left alone by every
\* rollback, give the objects of all processes room of their own: if no two
\* process ids select the same subheap and no subheap has run out, no two
\* objects on the committed heap have a byte in common.
THEOREM SubheapsSuffice ==
  ASSUME DistinctIndices PROVE Spec => [](ObjectsInSubheap => ObjectsDisjoint)
  <1>1. IInv /\ ObjectsInSubheap => ObjectsDisjoint
    <2> SUFFICES ASSUME IInv, ObjectsInSubheap, NEW o \in objects, NEW u \in objects, o # u
                 PROVE  Disjoint(o, u)
      BY DEF ObjectsDisjoint
    <2>1. o \in Allocated /\ u \in Allocated /\ o \in Object /\ u \in Object
      BY DEF Allocated, IInv, TypeOK
    <2>2. CASE o.owner = u.owner
      BY <2>1, <2>2 DEF IInv, OwnDisjoint
    <2>3. ASSUME NEW a \in Allocated, NEW b \in Allocated, a \in Object, b \in Object,
                 Index(a.owner) < Index(b.owner)
          PROVE  a.start + a.size <= b.start
      <3>1. /\ a.start + a.size <= Bottom(Index(a.owner)) + SubheapSize
            /\ Bottom(Index(b.owner)) <= b.start
        BY DEF ObjectsInSubheap
      <3>2. Index(a.owner) \in Subheap /\ Index(b.owner) \in Subheap
        BY <2>3, IndexType DEF Object
      <3>3. Bottom(Index(a.owner)) + SubheapSize <= Bottom(Index(b.owner))
        BY <2>3, <3>2, SubheapsApart
      <3> QED
        BY <2>3, <3>1, <3>2, <3>3, BottomType, BumpAssumption DEF Object
    <2>4. CASE o.owner # u.owner
      <3>1. /\ Index(o.owner) # Index(u.owner)
            /\ Index(o.owner) \in Nat /\ Index(u.owner) \in Nat
        BY <2>1, <2>4, IndexType DEF DistinctIndices, Object, Subheap
      <3>2. Index(o.owner) < Index(u.owner) \/ Index(u.owner) < Index(o.owner)
        BY <3>1
      <3> QED
        BY <2>1, <2>3, <3>2 DEF Disjoint
    <2> QED
      BY <2>2, <2>4
  <1> QED
    BY <1>1, InductiveInvariant, PTL

-----------------------------------------------------------------------------
(* Types *)

LEMMA XxmallocType ==
  ASSUME TypeOK, NEW p \in Pids, NEW size \in Sizes, Xxmalloc(p, size)
  PROVE  TypeOK'
  <1> DEFINE i == Index(p)
             from == subheaps[p][i]
             upto == from + RoundUp(size)
  <1>1. /\ p \in started /\ p \in running /\ i \in Subheap
        /\ from \in Nat /\ count \in Nat /\ size \in Nat /\ upto \in Nat
    BY IndexType, RoundUpGrows, BumpAssumption DEF Xxmalloc, TypeOK
  <1>2. subheaps' \in [Pids -> [Subheap -> Nat]]
    <2>1. subheaps' = [subheaps EXCEPT ![p] = [subheaps[p] EXCEPT ![i] = upto]]
      BY <1>1 DEF Xxmalloc, TypeOK
    <2> HIDE DEF upto, from, i
    <2>2. [subheaps[p] EXCEPT ![i] = upto] \in [Subheap -> Nat]
      BY <1>1 DEF TypeOK
    <2> QED
      BY <1>1, <2>1, <2>2 DEF TypeOK
  <1>3. pending' \in [Pids -> SUBSET Object] /\ \A q \in Pids \ running' : pending'[q] = {}
    <2>1. [id |-> count, owner |-> p, start |-> from, size |-> size] \in Object
      BY <1>1 DEF Object
    <2>2. pending' = [pending EXCEPT ![p] = @ \cup
            {[id |-> count, owner |-> p, start |-> from, size |-> size]}]
      BY DEF Xxmalloc
    <2> HIDE DEF from
    <2> QED
      BY <1>1, <2>1, <2>2 DEF Xxmalloc, TypeOK
  <1>4. count' \in 0..MaxObjects
    BY <1>1, BumpAssumption DEF Xxmalloc, TypeOK
  <1> QED
    BY <1>2, <1>3, <1>4 DEF Xxmalloc, TypeOK

LEMMA NextType == TypeOK /\ [Next]_vars => TypeOK'
  <1> SUFFICES ASSUME TypeOK, [Next]_vars PROVE TypeOK'
    OBVIOUS
  <1>1. ASSUME NEW p \in Pids, Commit(p) \/ Rollback(p) \/ Exit(p) PROVE TypeOK'
    BY <1>1 DEF Commit, Rollback, Exit, TypeOK
  <1>2. ASSUME NEW p \in Pids, NEW c \in Pids, Fork(p, c) PROVE TypeOK'
    BY <1>2 DEF Fork, TypeOK
  <1>3. CASE UNCHANGED vars
    BY <1>3 DEF vars, TypeOK
  <1> QED
    BY <1>1, <1>2, <1>3, XxmallocType DEF Next, Terminated

\* The tables of all processes keep their types, and a process that is not
\* running has no section, whatever their ids.
THEOREM TypeCorrect == Spec => []TypeOK
  <1>1. Init => TypeOK
    BY InitInv DEF IInv
  <1> QED
    BY <1>1, NextType, PTL DEF Spec

-----------------------------------------------------------------------------
(* Programs that ask for no more than a subheap holds *)

\* No request is larger than most, and no subheap smaller than all of them.
Modest(most) ==
  /\ \A size \in Sizes : RoundUp(size) <= most
  /\ MaxObjects * most <= SubheapSize

\* A pointer has moved at most by what all processes have asked for.
PointersBounded(most) ==
  \A p \in started, i \in Subheap : subheaps[p][i] <= Bottom(i) + count * most

LEMMA PointersBoundedStep ==
  ASSUME NEW most \in Nat, Modest(most), TypeOK, PointersBounded(most), [Next]_vars
  PROVE  PointersBounded(most)'
  <1>1. ASSUME NEW p \in Pids, NEW size \in Sizes, Xxmalloc(p, size)
        PROVE  PointersBounded(most)'
    <2> SUFFICES ASSUME NEW q \in started, NEW i \in Subheap
                 PROVE  subheaps'[q][i] <= Bottom(i) + count' * most
      BY <1>1 DEF PointersBounded, Xxmalloc
    <2>1. /\ q \in Pids /\ subheaps[q][i] \in Nat /\ count \in Nat /\ Bottom(i) \in Nat
          /\ RoundUp(size) \in Nat /\ RoundUp(size) <= most /\ count * most \in Nat
      BY BottomType, RoundUpGrows, BumpAssumption DEF TypeOK, Modest
    <2>2. count' * most = count * most + most
      <3>1. count' = count + 1
        BY <1>1 DEF Xxmalloc
      <3> QED
        BY <2>1, <3>1
    <2>3. subheaps[q][i] <= Bottom(i) + count * most
      BY DEF PointersBounded
    <2>4. \/ subheaps'[q][i] = subheaps[q][i]
          \/ subheaps'[q][i] = subheaps[q][i] + RoundUp(size)
      BY <1>1, <2>1 DEF Xxmalloc, TypeOK
    <2> QED
      BY <2>1, <2>2, <2>3, <2>4
  <1>2. ASSUME NEW p \in Pids, NEW c \in Pids, Fork(p, c) PROVE PointersBounded(most)'
    <2>1. \A q \in started' : \E r \in started : subheaps'[q] = subheaps[r]
      BY <1>2 DEF Fork, TypeOK
    <2> QED
      BY <1>2, <2>1 DEF Fork, PointersBounded
  <1>3. CASE UNCHANGED <<started, subheaps, count>>
    BY <1>3 DEF PointersBounded
  <1> QED
    BY <1>1, <1>2, <1>3 DEF Next, Terminated, Commit, Rollback, Exit, vars

\* A program all of whose allocations together fit one subheap never leaves it,
\* in whichever of its processes they are made and however often it is rolled
\* back: the test for the end of the subheap that xxmalloc lacks
\* (bump_allocator.cc:76) is then not missed.
THEOREM ModestPrograms ==
  ASSUME DistinctIndices, NEW most \in Nat, Modest(most)
  PROVE  Spec => []ObjectsInSubheap
  <1>1. Init => PointersBounded(most)
    <2> SUFFICES ASSUME Init, NEW p \in started, NEW i \in Subheap
                 PROVE  subheaps[p][i] <= Bottom(i) + count * most
      BY DEF PointersBounded
    <2>1. p \in Pids /\ count * most = 0 /\ Bottom(i) \in Nat
      BY BottomType, BumpAssumption DEF Init, NewProcess
    <2> QED
      BY <2>1 DEF Init, NewProcess
  <1>2. TypeOK /\ PointersBounded(most) /\ [Next]_vars => PointersBounded(most)'
    BY PointersBoundedStep
  <1>3. IInv /\ PointersBounded(most) => ObjectsInSubheap
    <2> SUFFICES ASSUME IInv, PointersBounded(most), NEW o \in Allocated
                 PROVE  /\ Bottom(Index(o.owner)) <= o.start
                        /\ o.start + o.size <= Bottom(Index(o.owner)) + SubheapSize
      BY DEF ObjectsInSubheap
    <2> DEFINE j == Index(o.owner)
    <2>1. o \in Object /\ HandedOut(o)
      BY DEF IInv, TypeOK, Allocated, ObjectsHandedOut
    <2>2. /\ o.owner \in started /\ j \in Subheap
          /\ Bottom(j) <= o.start /\ o.start + o.size <= subheaps[o.owner][j]
      BY <2>1, IndexType DEF HandedOut, Object
    <2>3. /\ o.start + o.size \in Nat /\ subheaps[o.owner][j] \in Nat /\ Bottom(j) \in Nat
          /\ count \in 0..MaxObjects /\ MaxObjects \in Nat /\ SubheapSize \in Nat
      <3>1. o.start + o.size \in Nat
        BY <2>1 DEF Object
      <3>2. subheaps \in [Pids -> [Subheap -> Nat]] /\ o.owner \in Pids
        BY <2>1 DEF IInv, TypeOK, Object
      <3>3. subheaps[o.owner][j] \in Nat
        BY <2>2, <3>2
      <3> QED
        BY <2>2, <3>1, <3>3, BottomType, BumpAssumption DEF IInv, TypeOK
    <2>4. count * most <= MaxObjects * most /\ count * most \in Nat /\ MaxObjects * most \in Nat
      <3>1. PICK k \in Nat : MaxObjects = count + k
        <4>1. MaxObjects - count \in Nat /\ MaxObjects = count + (MaxObjects - count)
          BY <2>3
        <4> QED
          BY <4>1
      <3>2. MaxObjects * most = count * most + k * most
        BY <2>3, <3>1
      <3>3. k * most \in Nat /\ count * most \in Nat
        BY <2>3
      <3> QED
        BY <3>2, <3>3
    <2>5. subheaps[o.owner][j] <= Bottom(j) + count * most
      BY <2>2 DEF PointersBounded
    <2>6. MaxObjects * most <= SubheapSize
      BY DEF Modest
    <2>7. \A a, b, c, d, e, f \in Nat :
            a <= b /\ b <= c + d /\ d <= e /\ e <= f => a <= c + f
      OBVIOUS
    <2>8. o.start + o.size <= Bottom(j) + SubheapSize
      <3> HIDE DEF j
      <3> QED
        BY <2>2, <2>3, <2>4, <2>5, <2>6, <2>7
    <2> QED
      BY <2>2, <2>8
  <1> QED
    BY <1>1, <1>2, <1>3, TypeCorrect, InductiveInvariant, PTL DEF Spec

\* And no two of its objects have a byte in common.
THEOREM ModestProgramsDisjoint ==
  ASSUME DistinctIndices, NEW most \in Nat, Modest(most)
  PROVE  Spec => []ObjectsDisjoint
  BY SubheapsSuffice, ModestPrograms, PTL

-----------------------------------------------------------------------------
(* The start of the program *)

StartTypeOK ==
  /\ stage \in Stages
  /\ file \in [Pages -> Contents]
  /\ private \in [Pages -> Contents \cup {NoValue}]
  /\ written \in SUBSET Pages
  /\ last \in [Pages -> Contents \cup {NoValue}]

\* Between two sections the process has no copies, and in one it has those of
\* the pages that it has written in it.
CopiesOfSection ==
  /\ stage = "between" => private = NoCopies
  /\ stage = "program" => \A g \in Pages : g \in written <=> private[g] # NoValue

StartIInv == StartTypeOK /\ CopiesOfSection

LEMMA StartInitInvariant == StartInit => StartIInv
BY DEF StartInit, StartIInv, StartTypeOK, CopiesOfSection, Stages, NoCopies

LEMMA WriteInvariant ==
  ASSUME StartIInv, NEW g \in Pages, NEW v \in Values, WriteEarly(g, v) \/ Write(g, v) \/ OtherCommits(g, v)
  PROVE  StartIInv'
<1>1. v \in Contents /\ v # NoValue
  BY StartupAssumption DEF Contents
<1>2. StartTypeOK'
  BY <1>1 DEF StartIInv, StartTypeOK, WriteEarly, Write, OtherCommits
<1>3. CopiesOfSection'
  <2>1. CASE WriteEarly(g, v)
    BY <2>1 DEF WriteEarly, CopiesOfSection
  <2>2. CASE Write(g, v)
    BY <1>1, <2>2 DEF StartIInv, StartTypeOK, CopiesOfSection, Write
  <2>3. CASE OtherCommits(g, v)
    BY <2>3 DEF StartIInv, CopiesOfSection, OtherCommits
  <2>. QED
    BY <2>1, <2>2, <2>3
<1>. QED
  BY <1>2, <1>3 DEF StartIInv

LEMMA SectionInvariant ==
  ASSUME StartIInv, AtomicBegin \/ AtomicEndOfRoot \/ AtomicEnd
  PROVE  StartIInv'
<1>1. CASE AtomicBegin
  BY <1>1 DEF StartIInv, StartTypeOK, CopiesOfSection, AtomicBegin, Stages, NoCopies
<1>2. CASE AtomicEndOfRoot
  BY <1>2 DEF StartIInv, StartTypeOK, CopiesOfSection, AtomicEndOfRoot, Stages, NoCopies
<1>3. CASE AtomicEnd
  <2>1. \A g \in written : private[g] \in Contents
    BY <1>3 DEF StartIInv, StartTypeOK, CopiesOfSection, AtomicEnd
  <2>2. file' \in [Pages -> Contents]
    BY <1>3, <2>1 DEF StartIInv, StartTypeOK, AtomicEnd
  <2>. QED
    BY <1>3, <2>2 DEF StartIInv, StartTypeOK, CopiesOfSection, AtomicEnd, Stages, NoCopies
<1>. QED
  BY <1>1, <1>2, <1>3

LEMMA StartNextInvariant == StartIInv /\ [StartNext]_startVars => StartIInv'
<1> SUFFICES ASSUME StartIInv, [StartNext]_startVars PROVE StartIInv'
  OBVIOUS
<1>1. CASE UNCHANGED <<file, private, written, last>> /\ stage' \in {"constructing", "wrapped_main"}
  BY <1>1 DEF StartIInv, StartTypeOK, CopiesOfSection, Stages
<1>2. CASE UNCHANGED <<stage, file, private, written, last>>
  BY <1>2 DEF StartIInv, StartTypeOK, CopiesOfSection
<1>. QED
  BY <1>1, <1>2, WriteInvariant, SectionInvariant
     DEF StartNext, startVars, Malloc, GlobalHeapInit, WrappedMain

LEMMA StartInductiveInvariant == StartSpec => []StartIInv
BY StartInitInvariant, StartNextInvariant, PTL DEF StartSpec

\* In a section of the program every page that it has not written is that of the
\* file: nothing is left of the private copies that the kernel has made before
\* InitGThread (UpdateHeap in AtomicCommit, gthread.cc:95).
THEOREM OneHeapForAll == StartSpec => []OneHeap
<1>1. StartIInv => OneHeap
  BY DEF StartIInv, CopiesOfSection, OneHeap, Sees
<1>. QED
  BY <1>1, StartInductiveInvariant, PTL

-----------------------------------------------------------------------------

\* What the file or the section's copies have of what was written.
LastFound ==
  /\ stage \notin {"between", "program"} => last = NoCopies
  /\ stage = "between" => \A g \in Pages : last[g] # NoValue => file[g] = last[g]
  /\ HeapKept

ConstructorsWriteNothing == stage = "constructing" => UNCHANGED last

LEMMA LastFoundStep == StartIInv /\ LastFound /\ [StartNext /\ ConstructorsWriteNothing]_startVars => LastFound'
<1> SUFFICES ASSUME StartIInv, LastFound, [StartNext /\ ConstructorsWriteNothing]_startVars
             PROVE  LastFound'
  OBVIOUS
<1> USE DEF LastFound, HeapKept, Sees
<1>1. CASE UNCHANGED startVars \/ Malloc
  BY <1>1 DEF startVars, Malloc
<1>2. CASE GlobalHeapInit \/ WrappedMain
  BY <1>2 DEF GlobalHeapInit, WrappedMain
<1>3. CASE AtomicBegin
  BY <1>3 DEF AtomicBegin, StartIInv, StartTypeOK, CopiesOfSection, NoCopies
<1>4. CASE AtomicEndOfRoot
  BY <1>4 DEF AtomicEndOfRoot, NoCopies
<1>5. CASE AtomicEnd
  BY <1>5 DEF AtomicEnd, StartIInv, StartTypeOK, CopiesOfSection
<1>6. ASSUME ConstructorsWriteNothing, NEW g \in Pages, NEW v \in Values,
             WriteEarly(g, v) \/ Write(g, v) \/ OtherCommits(g, v)
      PROVE  LastFound'
  <2>1. CASE WriteEarly(g, v)
    BY <1>6, <2>1 DEF WriteEarly, ConstructorsWriteNothing
  <2>2. CASE Write(g, v)
    BY <2>2, StartupAssumption DEF Write, StartIInv, StartTypeOK
  <2>3. CASE OtherCommits(g, v)
    BY <2>3, StartupAssumption DEF OtherCommits, StartIInv, StartTypeOK, CopiesOfSection
  <2>. QED
    BY <1>6, <2>1, <2>2, <2>3
<1>. QED
  BY <1>1, <1>2, <1>3, <1>4, <1>5, <1>6 DEF StartNext

\* The heap has what was last written to it if no constructor writes to it: what
\* is lost are the private copies of the time between GlobalHeapInit
\* (bump_allocator.cc) and the first section, and nothing else.
THEOREM OnlyConstructorsLose == StartSpec /\ [][ConstructorsWriteNothing]_startVars => []HeapKept
<1>1. StartInit => LastFound
  BY DEF StartInit, LastFound, HeapKept
<1>2. [StartNext]_startVars /\ [ConstructorsWriteNothing]_startVars => [StartNext /\ ConstructorsWriteNothing]_startVars
  OBVIOUS
<1>3. LastFound => HeapKept
  BY DEF LastFound
<1>. QED
  BY <1>1, <1>2, <1>3, StartInductiveInvariant, LastFoundStep, PTL DEF StartSpec


=============================================================================
