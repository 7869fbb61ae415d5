-------------------------- MODULE PrivateAllocator --------------------------
(***************************************************************************)
(* The allocator behind the version mappings of a process and behind       *)
(* gthreads (private_alloc.hh).  head_ and used_ are shared by all         *)
(* containers of the process; a constructor opens a page for itself, and   *)
(* so does a request that does not fit what is left.  Nothing is freed.    *)
(*                                                                         *)
(* A request that opens a page is served from it without being counted in  *)
(* used_, so that a page gives out its size on top of that request.        *)
(***************************************************************************)
EXTENDS PageAllocation

CONSTANTS
  Places,   \* addresses mmap may choose
  MaxBlocks \* bound: blocks allocated

ASSUME PrivateAssumption ==
  /\ Places \subseteq Nat
  /\ MaxBlocks \in Nat

VARIABLES
  head,   \* head_
  used,   \* used_
  pages,  \* what mmap has returned
  blocks, \* what allocate has returned
  \* History, read by no action
  page,   \* the page opened last
  opener  \* the bytes of the request that opened each page

vars == <<head, used, pages, blocks, page, opener>>

Block == [id : Nat, page : Places, start : Nat, size : Nat]

\* mmap returns any place that is free; it may be next to a page.
Mmap(a) ==
  /\ \A b \in pages : a + PageSize <= b \/ b + PageSize <= a
  /\ pages' = pages \cup {a}

\* PageAllocate, and head_ moved past a first request of total bytes.
PageAllocate(a, total) ==
  /\ Mmap(a)
  /\ used' = 0
  /\ head' = a + total
  /\ page' = a
  /\ opener' = [opener EXCEPT ![a] = total]

NewBlock(a, start, size) ==
  blocks' = blocks \cup
    {[id |-> Cardinality(blocks), page |-> a, start |-> start, size |-> size]}

\* A container is constructed.
Construct(a) ==
  /\ PageAllocate(a, 0)
  /\ UNCHANGED blocks

\* Mutants: the test leaves the request out; the request that opens a page
\* does not move head_.
AllocateLate(size) ==
  LET total == RoundUp(size) IN
  /\ Cardinality(blocks) < MaxBlocks
  /\ \/ /\ used > PageSize
        /\ \E a \in Places : PageAllocate(a, total) /\ NewBlock(a, a, size)
     \/ /\ used <= PageSize
        /\ used' = used + total
        /\ head' = head + total
        /\ NewBlock(page, head, size)
        /\ UNCHANGED <<pages, page, opener>>

AllocateHeadLast(size) ==
  LET total == RoundUp(size) IN
  /\ Cardinality(blocks) < MaxBlocks
  /\ \/ /\ used + total > PageSize
        /\ \E a \in Places : PageAllocate(a, 0) /\ NewBlock(a, a, size)
     \/ /\ used + total <= PageSize
        /\ used' = used + total
        /\ head' = head + total
        /\ NewBlock(page, head, size)
        /\ UNCHANGED <<pages, page, opener>>

\* allocate.
Allocate(size) ==
  LET total == RoundUp(size) IN
  /\ Cardinality(blocks) < MaxBlocks
  /\ \/ /\ used + total > PageSize
        /\ \E a \in Places : PageAllocate(a, total) /\ NewBlock(a, a, size)
     \/ /\ used + total <= PageSize
        /\ used' = used + total
        /\ head' = head + total
        /\ NewBlock(page, head, size)
        /\ UNCHANGED <<pages, page, opener>>

\* The first container is constructed.
Init ==
  \E a \in Places :
    /\ head = a
    /\ used = 0
    /\ pages = {a}
    /\ blocks = {}
    /\ page = a
    /\ opener = [b \in Places |-> 0]

Next ==
  \/ \E a \in Places : Construct(a)
  \/ \E size \in Sizes : Allocate(size)

Spec == Init /\ [][Next]_vars

-----------------------------------------------------------------------------
(* Properties *)

\* Every variable keeps its type.
TypeOK ==
  /\ head \in Nat
  /\ used \in 0..PageSize
  /\ pages \in SUBSET Places
  /\ blocks \in SUBSET Block
  /\ page \in pages
  /\ opener \in [Places -> Nat]

\* However requests and constructors follow one another, a page gives out no
\* more than its size and the request that opened it: that is by how much the
\* last blocks of a page may run over its end.
OverrunBounded ==
  \A b \in blocks :
    /\ b.page <= b.start
    /\ b.start + b.size <= b.page + PageSize + opener[b.page]

Disjoint(b, c) == b.start + b.size <= c.start \/ c.start + c.size <= b.start

RunsOver(b) == b.start + b.size > b.page + PageSize

\* Two blocks, of one container or of two, have a byte in common only if one of
\* them runs over its page, by no more than OverrunBounded allows, and the other
\* is of a page behind it: the blocks of one page are disjoint, and so are
\* those of all pages that are within them.
SharedOnlyPastEnd ==
  \A b, c \in blocks :
    b # c /\ ~Disjoint(b, c) =>
      \/ RunsOver(b) /\ b.page + PageSize <= c.page
      \/ RunsOver(c) /\ c.page + PageSize <= b.page

\* Not a property of the code, as pages may lie side by side: two blocks have no
\* byte in common.
BlocksDisjoint == \A b, c \in blocks : b # c => Disjoint(b, c)

=============================================================================
