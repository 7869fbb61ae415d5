--------------------------- MODULE MallocWrapper ---------------------------
(***************************************************************************)
(* The malloc family (wrapper.hh) over the bump allocator, in one process. *)
(* Sizes and addresses are words of the machine: sums and products wrap.   *)
(* The state is the process's subheap pointer, by which everything is      *)
(* allocated, and the blocks that the program has been given and takes     *)
(* for its own: the room it asked for, not what the code made of it.       *)
(*                                                                         *)
(* The program asks for no more than its subheap holds, a limit which      *)
(* neither the wrapper nor xxmalloc looks at (module BumpAllocator).       *)
(***************************************************************************)
EXTENDS Naturals

CONSTANTS
  Bits,         \* width of size_t
  MinAligned,   \* MIN_ALIGNED_SIZE
  DoubleSize,   \* sizeof(double)
  Base, Limit,  \* the subheap of the process
  Sizes,        \* sizes and counts a program passes
  AlignedSizes, \* those it passes to aligned_alloc
  Alignments,   \* alignments it passes
  VPage,        \* the page size that valloc assumes
  PathMax,      \* PATH_MAX
  Growing,      \* realloc is called for more than a block had
  MaxBlocks     \* bound: calls that allocate

Word == 2^Bits

\* What divides a power of two is one.
PowersOfTwo == {n \in 1..(Word - 1) : Word % n = 0}
Null == 0

ASSUME MallocAssumption ==
  /\ Bits \in Nat \ {0}
  /\ MinAligned \in PowersOfTwo /\ DoubleSize \in PowersOfTwo
  /\ MinAligned % DoubleSize = 0
  /\ Base \in Nat \ {Null} /\ Limit \in Nat
  /\ Base % MinAligned = 0
  /\ Base <= Limit /\ Limit < Word \div 2
  /\ Sizes \subseteq 0..(Word - 1) /\ AlignedSizes \subseteq Sizes
  /\ Alignments \subseteq 0..(Word \div 4)
  /\ \A a \in Alignments : a <= Base
  /\ VPage \in PowersOfTwo /\ VPage <= Word \div 4 /\ VPage <= Base
  /\ PathMax \in 0..(Word - 1)
  /\ Growing \in BOOLEAN
  /\ MaxBlocks \in Nat

VARIABLES
  top,    \* subheaps[index]: everything from here on is free
  blocks, \* what the program takes for its own
  count   \* calls that allocated so far

vars == <<top, blocks, count>>

-----------------------------------------------------------------------------
(* Each function takes the subheap pointer and returns a pointer and the     *)
(* subheap pointer after the call.                                           *)

RoundUp(x) ==
  IF x % MinAligned = 0 THEN x ELSE (x + (MinAligned - (x % MinAligned))) % Word

\* The pointer leaves the subheap before it wraps.
Xxmalloc(t, size) == [ptr |-> t, top |-> t + RoundUp(size)]

Fail(t) == [ptr |-> Null, top |-> t]

\* malloc: the top bit of a size is taken for a negative number.
Malloc(t, size) == IF size >= Word \div 2 THEN Fail(t) ELSE Xxmalloc(t, size)

\* Mutant: the product is not checked.
CallocUnchecked(t, nelem, elsize) == Malloc(t, (nelem * elsize) % Word)

Calloc(t, nelem, elsize) ==
  LET n == (nelem * elsize) % Word
  IN  IF elsize # 0 /\ nelem # n \div elsize THEN Fail(t) ELSE Malloc(t, n)

\* (x + a - 1) & ~(a - 1), for a power of two.
AlignUp(x, a) == ((x + a - 1) % Word) - (((x + a - 1) % Word) % a)

\* Mutants: the larger block has no room for both the alignment and the size;
\* the first block is taken for aligned.
MemalignTight(t, alignment, size) ==
  IF alignment \notin PowersOfTwo THEN Fail(t)
  ELSE IF alignment = DoubleSize THEN Malloc(t, size)
  ELSE LET first == Malloc(t, size)
       IN  IF first.ptr % alignment = first.ptr THEN first
           ELSE LET second == Malloc(first.top, size)
                IN  [ptr |-> AlignUp(second.ptr, alignment), top |-> second.top]

MemalignFirst(t, alignment, size) ==
  IF alignment \notin PowersOfTwo THEN Fail(t) ELSE Malloc(t, size)

\* memalign. The test whether the first block is aligned holds only for a
\* pointer below the alignment, hence for NULL; any other is given up for a
\* larger block.
Memalign(t, alignment, size) ==
  IF alignment \notin PowersOfTwo THEN Fail(t)
  ELSE IF alignment = DoubleSize THEN Malloc(t, size)
  ELSE LET first == Malloc(t, size)
       IN  IF first.ptr % alignment = first.ptr THEN first
           ELSE LET second == Malloc(first.top, (size + 2 * alignment) % Word)
                IN  [ptr |-> AlignUp(second.ptr, alignment), top |-> second.top]

\* posix_memalign fails with EINVAL where memalign returns NULL.
PosixMemalign(t, alignment, size) ==
  IF alignment \notin PowersOfTwo THEN Fail(t) ELSE Memalign(t, alignment, size)

\* aligned_alloc adds the alignment to a multiple of it, too; it divides by the
\* alignment before anything has been checked.
RoundToAlignment(size, alignment) == (size + alignment - (size % alignment)) % Word

AlignedAlloc(t, alignment, size) ==
  Memalign(t, alignment, RoundToAlignment(size, alignment))

\* strdup and strndup, with the NUL.
Strdup(t, length) == Malloc(t, (length + 1) % Word)

Strndup(t, length, size) == Strdup(t, IF length < size THEN length ELSE size)

\* valloc, and pvalloc, which rounds its size to pages.
Valloc(t, size) == Memalign(t, VPage, size)

Pvalloc(t, size) == Valloc(t, AlignUp(size, VPage))

\* getcwd(NULL, size)
Getcwd(t, size) == Malloc(t, IF size = 0 THEN PathMax ELSE size)

\* operator new and new[]: NULL becomes an exception.
New(t, size) == Malloc(t, size)

\* malloc_usable_size. malloc_good_size makes a block to ask for its size, and
\* drops it.
UsableSize(ptr) == 0

GoodSize(t, size) == [ptr |-> Null, top |-> Malloc(t, size).top]

\* realloc. All blocks are of the same actual size, and the one just made is
\* dropped again.
Realloc(t, ptr, size) ==
  LET new == Malloc(t, size)
  IN  IF ptr = Null THEN new
      ELSE IF size = 0 THEN Fail(t)
      ELSE IF new.ptr = Null THEN new
      ELSE IF UsableSize(ptr) = UsableSize(new.ptr) THEN [ptr |-> ptr, top |-> new.top]
      ELSE new

\* recalloc
Recalloc(t, ptr, num, size) == Realloc(t, ptr, (num * size) % Word)

-----------------------------------------------------------------------------

\* A call has returned; the program takes size bytes at the pointer for its own.
\* Assumption: the subheap is not depleted.
Give(result, size, align) ==
  /\ count < MaxBlocks
  /\ result.top <= Limit
  /\ top' = result.top
  /\ count' = count + 1
  /\ blocks' = IF result.ptr = Null THEN blocks
               ELSE blocks \cup {[id |-> count, start |-> result.ptr,
                                  size |-> size, align |-> align]}

CallMalloc == \E size \in Sizes :
  Give(Malloc(top, size), size, MinAligned) \/ Give(New(top, size), size, MinAligned)

CallCalloc == \E nelem, elsize \in Sizes :
  Give(Calloc(top, nelem, elsize), nelem * elsize, MinAligned)

CallMemalign == \E alignment \in Alignments, size \in Sizes :
  \/ Give(Memalign(top, alignment, size), size, alignment)
  \/ Give(PosixMemalign(top, alignment, size), size, alignment)

CallAlignedAlloc == \E alignment \in Alignments \ {0}, size \in AlignedSizes :
  Give(AlignedAlloc(top, alignment, size), size, alignment)

\* A string that is in memory is shorter than any block.
CallStrdup == \E length, size \in {n \in Sizes : n < Limit} :
  \/ Give(Strdup(top, length), length + 1, 1)
  \/ Give(Strndup(top, length, size), (IF length < size THEN length ELSE size) + 1, 1)

CallValloc ==
  \/ \E size \in Sizes : Give(Valloc(top, size), size, VPage)
  \/ \E size \in AlignedSizes : Give(Pvalloc(top, size), size, VPage)

CallGetcwd == \E size \in Sizes :
  Give(Getcwd(top, size), IF size = 0 THEN PathMax ELSE size, MinAligned)

\* The block is lost to the program unless the call has failed.
Resize(b, result, size) ==
  /\ Growing \/ size <= b.size
  /\ count < MaxBlocks /\ count' = count + 1
  /\ result.top <= Limit /\ top' = result.top
  /\ blocks' = (IF size # 0 /\ result.ptr = Null THEN blocks ELSE blocks \ {b})
               \cup (IF result.ptr = Null THEN {}
                     ELSE {[id |-> b.id, start |-> result.ptr,
                            size |-> size, align |-> 1]})

CallRealloc ==
  \/ \E size \in Sizes : Give(Realloc(top, Null, size), size, MinAligned)
  \/ \E b \in blocks, size \in Sizes : Resize(b, Realloc(top, b.start, size), size)
  \/ \E b \in blocks, num, size \in Sizes :
       Resize(b, Recalloc(top, b.start, num, size), num * size)

CallGoodSize == \E size \in Sizes :
  LET result == GoodSize(top, size)
  IN  /\ count < MaxBlocks /\ count' = count + 1
      /\ result.top <= Limit /\ top' = result.top
      /\ UNCHANGED blocks

\* free, cfree and operator delete only end the program's interest in a block.
CallFree == \E b \in blocks : blocks' = blocks \ {b} /\ UNCHANGED <<top, count>>

Init == top = Base /\ blocks = {} /\ count = 0

Next ==
  \/ CallMalloc \/ CallCalloc \/ CallMemalign \/ CallAlignedAlloc
  \/ CallStrdup \/ CallValloc \/ CallGetcwd \/ CallRealloc \/ CallGoodSize
  \/ CallFree

Spec == Init /\ [][Next]_vars

-----------------------------------------------------------------------------
(* Properties *)

\* Every block has the room the program asked for, between the beginning of the
\* subheap and its pointer: no size was lost to an overflow of calloc, to the
\* alignment, or to a repeated attempt.
BlocksHaveRoom ==
  \A b \in blocks : Base <= b.start /\ b.start + b.size <= top

\* And it shares it with no other, so that no write through one block changes
\* another.
BlocksDisjoint ==
  \A b, c \in blocks :
    b # c => b.start + b.size <= c.start \/ c.start + c.size <= b.start

\* Blocks begin where the call has promised.
BlocksAligned == \A b \in blocks : b.start % b.align = 0

=============================================================================
