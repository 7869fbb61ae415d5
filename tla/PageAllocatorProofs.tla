------------------------ MODULE PageAllocatorProofs ------------------------
(***************************************************************************)
(* Theorems about PrivateAllocator and ShareAllocator, for pages, requests *)
(* and alignments of any size and any number of processes: how far a page  *)
(* can run over, and that only a block that does so reaches another one;   *)
(* that the view of the shared mapping is global as long as its first page *)
(* suffices, and that what AtomicBegin walks does not change.              *)
(***************************************************************************)
EXTENDS PrivateAllocator, ShareAllocator, FiniteSetTheorems, TLAPS

-----------------------------------------------------------------------------
(* PrivateAllocator                                                          *)

\* The first page and those opened by a constructor or a request: their bytes
\* are given out from the bottom to head_.
HeadCounts == head = page + opener[page] + used

BlocksOnPages ==
  \A b \in blocks :
    /\ b.page \in pages
    /\ b.page = page => b.start + b.size <= head

PagesApart ==
  \A a, b \in pages : a # b => a + PageSize <= b \/ b + PageSize <= a

DisjointOnPage ==
  \A b, c \in blocks : b # c /\ b.page = c.page => Disjoint(b, c)

IInv ==
  /\ TypeOK
  /\ IsFiniteSet(blocks)
  /\ HeadCounts
  /\ BlocksOnPages
  /\ OverrunBounded
  /\ PagesApart
  /\ DisjointOnPage

\* ROUND_UP does not make a number smaller.
LEMMA RoundUpType ==
  ASSUME NEW x \in Nat
  PROVE  RoundUp(x) \in Nat /\ RoundUp(x) >= x
BY PageAssumption, PrivateAssumption DEF RoundUp

LEMMA InitInvariant == Init => IInv
<1> SUFFICES ASSUME Init PROVE IInv
  OBVIOUS
<1> PICK a \in Places : /\ head = a
                        /\ used = 0
                        /\ pages = {a}
                        /\ blocks = {}
                        /\ page = a
                        /\ opener = [b \in Places |-> 0]
  BY DEF Init
<1> a \in Nat
  BY PageAssumption, PrivateAssumption
<1>1. TypeOK
  BY PageAssumption, PrivateAssumption DEF TypeOK
<1>2. IsFiniteSet(blocks)
  BY FS_EmptySet
<1>3. HeadCounts
  BY DEF HeadCounts
<1>. QED
  BY <1>1, <1>2, <1>3 DEF IInv, BlocksOnPages, OverrunBounded, PagesApart, DisjointOnPage

\* What a new block does to the invariant: it lies between the old and the new
\* head_ on the page opened last.
LEMMA NewBlockKeepsInvariant ==
  ASSUME IInv, HeadCounts', PagesApart', TypeOK',
         NEW size \in Nat, NEW start \in Nat,
         NewBlock(page', start, size),
         page' <= start,
         start + size <= head',
         \A b \in blocks : b.page \in pages' /\ opener'[b.page] = opener[b.page],
         \A b \in blocks : b.page = page' => b.start + b.size <= start
  PROVE  IInv'
<1> DEFINE new == [id |-> Cardinality(blocks), page |-> page', start |-> start, size |-> size]
<1> blocks' = blocks \cup {new}
  BY DEF NewBlock
<1> page' \in pages' /\ pages' \subseteq Places /\ Places \subseteq Nat /\ page' \in Nat
  BY PageAssumption, PrivateAssumption DEF TypeOK
<1> head' \in Nat /\ used' \in 0..PageSize /\ PageSize \in Nat /\ opener'[page'] \in Nat
  BY PageAssumption, PrivateAssumption DEF TypeOK
<1>1. IsFiniteSet(blocks')
  BY FS_AddElement DEF IInv
<1>2. BlocksOnPages'
  <2> SUFFICES ASSUME NEW b \in blocks'
               PROVE  b.page \in pages' /\ (b.page = page' => b.start + b.size <= head')
    BY DEF BlocksOnPages
  <2>1. CASE b = new
    BY <2>1
  <2>2. CASE b \in blocks
    <3>1. b.start \in Nat /\ b.size \in Nat
      BY <2>2 DEF IInv, TypeOK, Block
    <3>. QED
      BY <2>2, <3>1
  <2>. QED
    BY <2>1, <2>2
<1>3. OverrunBounded'
  <2> SUFFICES ASSUME NEW b \in blocks'
               PROVE  /\ b.page <= b.start
                      /\ b.start + b.size <= b.page + PageSize + opener'[b.page]
    BY DEF OverrunBounded
  <2>1. CASE b = new
    BY <2>1 DEF HeadCounts
  <2>2. CASE b \in blocks
    BY <2>2 DEF IInv, OverrunBounded
  <2>. QED
    BY <2>1, <2>2
<1>4. DisjointOnPage'
  <2> SUFFICES ASSUME NEW b \in blocks', NEW c \in blocks', b # c, b.page = c.page
               PROVE  Disjoint(b, c)
    BY DEF DisjointOnPage, Disjoint
  <2>1. CASE b \in blocks /\ c \in blocks
    BY <2>1 DEF IInv, DisjointOnPage
  <2>2. CASE b = new /\ c \in blocks
    BY <2>2 DEF Disjoint
  <2>3. CASE c = new /\ b \in blocks
    BY <2>3 DEF Disjoint
  <2>. QED
    BY <2>1, <2>2, <2>3
<1>. QED
  BY <1>1, <1>2, <1>3, <1>4 DEF IInv

\* A new page comes first, empty but for the request that opened it.
LEMMA PageAllocateFacts ==
  ASSUME IInv, NEW a \in Places, NEW total \in Nat, PageAllocate(a, total)
  PROVE  /\ HeadCounts' /\ PagesApart'
         /\ head' \in Nat /\ used' \in 0..PageSize /\ pages' \in SUBSET Places
         /\ page' \in pages' /\ opener' \in [Places -> Nat]
         /\ a \notin pages
         /\ pages \subseteq pages'
         /\ \A b \in pages : opener'[b] = opener[b]
<1> USE PageAssumption, PrivateAssumption DEF PageAllocate, Mmap
<1> a \in Nat /\ PageSize \in Nat \ {0}
  OBVIOUS
<1>1. a \notin pages
  OBVIOUS
<1>2. opener \in [Places -> Nat]
  BY DEF IInv, TypeOK
<1>3. HeadCounts'
  BY <1>2 DEF HeadCounts
<1>4. PagesApart'
  <2> SUFFICES ASSUME NEW b \in pages', NEW c \in pages', b # c
               PROVE  b + PageSize <= c \/ c + PageSize <= b
    BY DEF PagesApart
  <2>1. CASE b \in pages /\ c \in pages
    BY <2>1 DEF IInv, PagesApart
  <2>2. CASE b = a \/ c = a
    BY <2>2
  <2>. QED
    BY <2>1, <2>2
<1>. QED
  BY <1>1, <1>2, <1>3, <1>4 DEF IInv, TypeOK

LEMMA ConstructInvariant ==
  ASSUME IInv, NEW a \in Places, Construct(a)
  PROVE  IInv'
<1>1. PageAllocate(a, 0) /\ blocks' = blocks
  BY DEF Construct
<1>2. /\ HeadCounts' /\ PagesApart' /\ a \notin pages /\ pages \subseteq pages'
      /\ \A b \in pages : opener'[b] = opener[b]
  BY <1>1, PageAllocateFacts
<1>3. TypeOK'
  BY <1>1, PageAllocateFacts DEF IInv, TypeOK
<1>4. BlocksOnPages'
  BY <1>1, <1>2 DEF IInv, BlocksOnPages, PageAllocate
<1>5. OverrunBounded'
  BY <1>1, <1>2 DEF IInv, BlocksOnPages, OverrunBounded
<1>6. DisjointOnPage'
  BY <1>1 DEF IInv, DisjointOnPage, Disjoint
<1>. QED
  BY <1>1, <1>2, <1>3, <1>4, <1>5, <1>6 DEF IInv

LEMMA AllocateInvariant ==
  ASSUME IInv, NEW size \in Sizes, Allocate(size)
  PROVE  IInv'
<1> DEFINE total == RoundUp(size)
<1> size \in Nat /\ total \in Nat /\ total >= size
  BY RoundUpType, PageAssumption, PrivateAssumption
<1> HIDE DEF total
<1> head \in Nat /\ used \in 0..PageSize /\ page \in pages /\ PageSize \in Nat
    /\ pages \subseteq Nat /\ opener \in [Places -> Nat] /\ pages \subseteq Places
    /\ blocks \subseteq Block /\ Cardinality(blocks) \in Nat
  BY FS_CardinalityType, PageAssumption, PrivateAssumption DEF IInv, TypeOK
<1>1. ASSUME NEW a \in Places, PageAllocate(a, total), NewBlock(a, a, size)
      PROVE  IInv'
  <2>1. /\ HeadCounts' /\ PagesApart' /\ a \notin pages /\ pages \subseteq pages'
        /\ \A b \in pages : opener'[b] = opener[b]
    BY <1>1, PageAllocateFacts
  <2>2. page' = a /\ head' = a + total /\ a \in Nat
    BY <1>1, PageAssumption, PrivateAssumption DEF PageAllocate
  <2>3. TypeOK'
    BY <1>1, <2>2, PageAllocateFacts DEF TypeOK, NewBlock, Block
  <2>4. \A b \in blocks : /\ b.page \in pages' /\ opener'[b.page] = opener[b.page]
                         /\ b.page # page'
    BY <2>1, <2>2 DEF IInv, BlocksOnPages
  <2>5. NewBlock(page', a, size) /\ page' <= a /\ a + size <= head'
    BY <1>1, <2>2
  <2>. QED
    BY <2>1, <2>2, <2>3, <2>4, <2>5, NewBlockKeepsInvariant
<1>2. ASSUME used + total <= PageSize, used' = used + total, head' = head + total,
             NewBlock(page, head, size), UNCHANGED <<pages, page, opener>>
      PROVE  IInv'
  <2>1. HeadCounts' /\ PagesApart'
    BY <1>2 DEF IInv, HeadCounts, PagesApart
  <2>2. TypeOK'
    BY <1>2 DEF TypeOK, NewBlock, Block
  <2>3. \A b \in blocks : b.page \in pages /\ (b.page = page => b.start + b.size <= head)
    BY DEF IInv, BlocksOnPages
  <2>4. page \in Nat /\ opener[page] \in Nat /\ page <= head
    BY DEF IInv, HeadCounts
  <2>. QED
    BY <1>2, <2>1, <2>2, <2>3, <2>4, NewBlockKeepsInvariant
<1>. QED
  BY <1>1, <1>2 DEF Allocate, total

THEOREM InductiveInvariant == Spec => []IInv
<1>1. IInv /\ [Next]_vars => IInv'
  <2> SUFFICES ASSUME IInv, [Next]_vars PROVE IInv'
    OBVIOUS
  <2>1. CASE UNCHANGED vars
    BY <2>1 DEF vars, IInv, TypeOK, HeadCounts, BlocksOnPages, OverrunBounded,
                PagesApart, DisjointOnPage, Disjoint
  <2>2. CASE Next
    BY <2>2, ConstructInvariant, AllocateInvariant DEF Next
  <2>. QED
    BY <2>1, <2>2
<1>. QED
  BY InitInvariant, <1>1, PTL DEF Spec

\* The variables of the allocator keep their types: used_ never exceeds
\* PAGE_SIZE (private_alloc.hh:57).
THEOREM TypeCorrect == Spec => []TypeOK
BY InductiveInvariant, PTL DEF IInv

\* The blocks of a page run over its end by at most the request that opened it
\* (private_alloc.hh:57-64), whatever the sizes and the order of requests.
THEOREM OverrunBound == Spec => []OverrunBounded
BY InductiveInvariant, PTL DEF IInv

\* Wherever mmap puts the pages, side by side or not, and whatever the sizes and
\* the order of requests: two blocks meet only where one of them has run over its
\* page (private_alloc.hh:57-64) into a page behind.
THEOREM OverlapsRunOver == Spec => []SharedOnlyPastEnd
<1>1. IInv => SharedOnlyPastEnd
  <2> SUFFICES ASSUME IInv, NEW b \in blocks, NEW c \in blocks, b # c, ~Disjoint(b, c)
               PROVE  \/ RunsOver(b) /\ b.page + PageSize <= c.page
                      \/ RunsOver(c) /\ c.page + PageSize <= b.page
    BY DEF SharedOnlyPastEnd
  <2>1. b.page # c.page
    BY DEF IInv, DisjointOnPage
  <2>2. /\ b.page \in pages /\ b.page \in Nat /\ c.page \in pages /\ c.page \in Nat
        /\ b.start \in Nat /\ b.size \in Nat /\ c.start \in Nat /\ c.size \in Nat
    BY PageAssumption, PrivateAssumption DEF IInv, TypeOK, Block, BlocksOnPages
  <2>3. b.page + PageSize <= c.page \/ c.page + PageSize <= b.page
    BY <2>1, <2>2 DEF IInv, PagesApart
  <2>4. b.page <= b.start /\ c.page <= c.start
    BY DEF IInv, OverrunBounded
  <2>5. c.start < b.start + b.size /\ b.start < c.start + c.size
    BY <2>2 DEF Disjoint
  <2>. QED
    BY <2>2, <2>3, <2>4, <2>5, PageAssumption DEF RunsOver
<1>. QED
  BY <1>1, InductiveInvariant, PTL

-----------------------------------------------------------------------------
(* ShareAllocator                                                            *)

\* Every variable keeps its type.
ShareTypeOK ==
  /\ running \in SUBSET Procs
  /\ task \in [Procs -> {"none", "snapshot", "commit"}]
  /\ share_page \in Nat \ {0}
  /\ share_offset \in Nat
  /\ share_used \in Nat
  /\ mapped \in [Procs -> SUBSET Nat]
  /\ nodes \in SUBSET [page : 1..share_page, start : Nat, size : Nat]
  /\ demand \in Nat

\* Who has something to do with the mapping has the mutex.
TasksHoldMutex == \A p \in Procs : task[p] # "none" => holder = p

\* Until the requests exceed the first page, none but that has been opened.
FirstPageAccounts == demand <= PageSize => share_page = 1 /\ share_used = demand

\* The first page was mapped before any fork.
FirstPageInherited == \A p \in running : 1 \in mapped[p]

ShareIInv ==
  /\ ShareTypeOK
  /\ TasksHoldMutex
  /\ FirstPageAccounts
  /\ FirstPageInherited

LEMMA ShareInitInvariant == ShareInit => ShareIInv
BY ShareAssumption, PageAssumption
   DEF ShareInit, ShareIInv, ShareTypeOK, TasksHoldMutex, FirstPageAccounts, FirstPageInherited

LEMMA LockInvariant ==
  ASSUME ShareIInv, NEW p \in Procs, NEW what \in {"snapshot", "commit"}, Lock(p, what)
  PROVE  ShareIInv'
<1> USE DEF ShareIInv, Lock, heapVars
<1>1. ShareTypeOK'
  BY DEF ShareTypeOK
<1>2. TasksHoldMutex'
  BY ShareAssumption DEF ShareTypeOK, TasksHoldMutex
<1>3. FirstPageAccounts' /\ FirstPageInherited'
  BY DEF FirstPageAccounts, FirstPageInherited
<1>. QED
  BY <1>1, <1>2, <1>3

LEMMA InsertInvariant ==
  ASSUME ShareIInv, NEW p \in Procs, NEW size \in Sizes, Insert(p, size)
  PROVE  ShareIInv'
<1> DEFINE total == RoundUp(size)
<1>1. size \in Nat /\ total \in Nat /\ PageSize \in Nat
  BY RoundUpType, PageAssumption
<1> HIDE DEF total
<1>2. /\ share_page \in Nat \ {0} /\ share_used \in Nat /\ demand \in Nat
      /\ share_offset \in Nat
      /\ mapped \in [Procs -> SUBSET Nat] /\ running \in SUBSET Procs
      /\ nodes \in SUBSET [page : 1..share_page, start : Nat, size : Nat]
  BY DEF ShareIInv, ShareTypeOK
<1>3. UNCHANGED <<running, started, task, holder>>
  BY DEF Insert
<1>4. TasksHoldMutex'
  BY <1>3 DEF ShareIInv, TasksHoldMutex
<1>5. CASE /\ share_used + total > PageSize
           /\ SharePageAllocate(p)
           /\ TakeBlock(share_page + 1, 0, total, size)
  <2>1. ShareTypeOK'
    <3>1. /\ share_page' = share_page + 1 /\ share_used' = 0 /\ demand' = demand + total
          /\ share_offset' = total
      BY <1>1, <1>5 DEF SharePageAllocate, TakeBlock
    <3>2. mapped' \in [Procs -> SUBSET Nat]
      BY <1>2, <1>5 DEF SharePageAllocate
    <3>3. nodes' \in SUBSET [page : 1..share_page', start : Nat, size : Nat]
      <4>1. \A n \in nodes : n \in [page : 1..(share_page + 1), start : Nat, size : Nat]
        BY <1>2
      <4>2. [page |-> share_page + 1, start |-> 0, size |-> size]
              \in [page : 1..(share_page + 1), start : Nat, size : Nat]
        BY <1>1, <1>2
      <4>. QED
        BY <1>5, <3>1, <4>1, <4>2 DEF TakeBlock
    <3>. QED
      BY <1>1, <1>2, <1>3, <3>1, <3>2, <3>3 DEF ShareIInv, ShareTypeOK
  <2>2. FirstPageAccounts'
    BY <1>1, <1>2, <1>5 DEF ShareIInv, FirstPageAccounts, SharePageAllocate, TakeBlock
  <2>3. FirstPageInherited'
    BY <1>2, <1>3, <1>5 DEF ShareIInv, FirstPageInherited, SharePageAllocate
  <2>. QED
    BY <1>4, <2>1, <2>2, <2>3 DEF ShareIInv
<1>6. CASE /\ share_used' = share_used + total
           /\ TakeBlock(share_page, share_offset, total, size)
           /\ UNCHANGED <<share_page, mapped>>
  <2>1. ShareTypeOK'
    <3>1. share_offset' = share_offset + total /\ demand' = demand + total
      BY <1>6 DEF TakeBlock
    <3>2. nodes' \in SUBSET [page : 1..share_page', start : Nat, size : Nat]
      <4>1. [page |-> share_page, start |-> share_offset, size |-> size]
              \in [page : 1..share_page, start : Nat, size : Nat]
        BY <1>1, <1>2
      <4>. QED
        BY <1>2, <1>6, <4>1 DEF TakeBlock
    <3>. QED
      BY <1>1, <1>2, <1>3, <1>6, <3>1, <3>2 DEF ShareIInv, ShareTypeOK
  <2>2. FirstPageAccounts'
    BY <1>1, <1>2, <1>6 DEF ShareIInv, FirstPageAccounts, TakeBlock
  <2>3. FirstPageInherited'
    BY <1>3, <1>6 DEF ShareIInv, FirstPageInherited
  <2>. QED
    BY <1>4, <2>1, <2>2, <2>3 DEF ShareIInv
<1>. QED
  BY <1>5, <1>6 DEF Insert, total

LEMMA UnlockInvariant ==
  ASSUME ShareIInv, NEW p \in Procs, Unlock(p)
  PROVE  ShareIInv'
<1> USE DEF ShareIInv, Unlock, heapVars
<1>1. ShareTypeOK'
  BY DEF ShareTypeOK
<1>2. TasksHoldMutex'
  <2> SUFFICES ASSUME NEW q \in Procs, task'[q] # "none" PROVE FALSE
    BY DEF TasksHoldMutex
  <2>1. holder = p /\ q # p /\ task[q] # "none"
    BY DEF ShareTypeOK, TasksHoldMutex
  <2>. QED
    BY <2>1 DEF TasksHoldMutex
<1>3. FirstPageAccounts' /\ FirstPageInherited'
  BY DEF FirstPageAccounts, FirstPageInherited
<1>. QED
  BY <1>1, <1>2, <1>3

\* A process exits, at the end of the program or at a fault.
LEMMA DepartureInvariant ==
  ASSUME ShareIInv, NEW p \in Procs, RealSegfault(p) \/ Exit(p)
  PROVE  ShareIInv'
<1>1. running' = running \ {p} /\ UNCHANGED <<task, holder, heapVars>>
  BY DEF RealSegfault, Exit
<1>. QED
  BY <1>1 DEF ShareIInv, ShareTypeOK, TasksHoldMutex, FirstPageAccounts, FirstPageInherited, heapVars

LEMMA ForkInvariant ==
  ASSUME ShareIInv, NEW p \in Procs, NEW c \in Procs, Fork(p, c)
  PROVE  ShareIInv'
<1>1. /\ p \in running /\ running' = running \cup {c}
      /\ mapped' = [mapped EXCEPT ![c] = mapped[p]]
      /\ UNCHANGED <<task, holder, share_page, share_offset, share_used, nodes, demand>>
  BY DEF Fork
<1>2. ShareTypeOK'
  BY <1>1 DEF ShareIInv, ShareTypeOK
<1>3. TasksHoldMutex' /\ FirstPageAccounts'
  BY <1>1 DEF ShareIInv, TasksHoldMutex, FirstPageAccounts
<1>4. FirstPageInherited'
  BY <1>1 DEF ShareIInv, ShareTypeOK, FirstPageInherited
<1>. QED
  BY <1>2, <1>3, <1>4 DEF ShareIInv

THEOREM ShareInductiveInvariant == ShareSpec => []ShareIInv
<1>1. ShareIInv /\ [ShareNext]_shareVars => ShareIInv'
  <2> SUFFICES ASSUME ShareIInv, [ShareNext]_shareVars PROVE ShareIInv'
    OBVIOUS
  <2>1. CASE UNCHANGED shareVars
    BY <2>1 DEF shareVars, heapVars, ShareIInv, ShareTypeOK, TasksHoldMutex,
                FirstPageAccounts, FirstPageInherited
  <2>. QED
    BY <2>1, LockInvariant, InsertInvariant, UnlockInvariant, DepartureInvariant, ForkInvariant
       DEF ShareNext
<1>. QED
  BY <1>1, ShareInitInvariant, PTL DEF ShareSpec

\* As long as the requests fit the page that the constructor has mapped, every
\* process can follow every pointer of global_page_version (share_alloc.hh:60-66,
\* gstm.hh:72), whoever has been forked before or after an insertion.
THEOREM FirstPageIsEnough == ShareSpec => []FirstPageSuffices
<1>1. ShareIInv => FirstPageSuffices
  <2> SUFFICES ASSUME ShareIInv, demand <= PageSize, NEW p \in running, NEW n \in nodes
               PROVE  n.page \in mapped[p]
    BY DEF FirstPageSuffices, GlobalView, ReachesAll
  <2>1. n.page = 1
    BY DEF ShareIInv, ShareTypeOK, FirstPageAccounts
  <2>. QED
    BY <2>1 DEF ShareIInv, FirstPageInherited
<1>. QED
  BY <1>1, ShareInductiveInvariant, PTL

\* Gstm::mutex is held while AtomicBegin walks the mapping (gthread.cc:64-77):
\* no process inserts into it meanwhile.
THEOREM IterationIsStable == ShareSpec => IterationStable
<1>1. ShareIInv /\ [ShareNext]_shareVars =>
        [\A p \in running : task[p] = "snapshot" /\ task'[p] = "snapshot"
                              => nodes' = nodes]_shareVars
  <2> SUFFICES ASSUME ShareIInv, ShareNext, NEW p \in running, task[p] = "snapshot",
                      nodes' # nodes
               PROVE  FALSE
    OBVIOUS
  <2>1. PICK q \in Procs, size \in Sizes : Insert(q, size)
    BY DEF ShareNext, Lock, Unlock, RealSegfault, Exit, Fork, heapVars
  <2>2. p \in Procs /\ task[q] = "commit" /\ p # q
    BY <2>1 DEF Insert, ShareIInv, ShareTypeOK
  <2>. QED
    BY <2>2 DEF ShareIInv, TasksHoldMutex
<1>. QED
  BY <1>1, ShareInductiveInvariant, PTL DEF ShareSpec, IterationStable

=============================================================================
