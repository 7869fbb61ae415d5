------------------------ MODULE MallocWrapperProofs ------------------------
(***************************************************************************)
(* Theorems about MallocWrapper, for words, sizes and alignments of any    *)
(* width: as long as no block is to grow by realloc and no size that is    *)
(* rounded to an alignment wraps, blocks have their room, share it with no *)
(* other and begin where the call has promised.                            *)
(***************************************************************************)
EXTENDS MallocWrapper, Integers, TLAPS

-----------------------------------------------------------------------------
(* Division *)

LEMMA DivisionFacts ==
  ASSUME NEW x \in Nat, NEW a \in Nat \ {0}
  PROVE  x \div a \in Nat /\ x % a \in 0..(a - 1) /\ x = a * (x \div a) + (x % a)
OBVIOUS

LEMMA MultipleOf ==
  ASSUME NEW a \in Nat \ {0}, NEW x \in Nat, x % a = 0
  PROVE  \E k \in Nat : x = a * k
<1>1. x = a * (x \div a) + (x % a) /\ x \div a \in Nat
  OBVIOUS
<1>. QED
  BY <1>1

LEMMA Multiple ==
  ASSUME NEW a \in Nat \ {0}, NEW k \in Nat
  PROVE  a * k \in Nat /\ (a * k) % a = 0
OBVIOUS

LEMMA SumOfMultiples ==
  ASSUME NEW a \in Nat \ {0}, NEW x \in Nat, NEW y \in Nat, x % a = 0, y % a = 0
  PROVE  (x + y) % a = 0
<1>1. PICK k \in Nat : x = a * k
  BY MultipleOf
<1>2. PICK l \in Nat : y = a * l
  BY MultipleOf
<1>3. PICK m \in Nat : m = k + l
  OBVIOUS
<1>4. x + y = a * m
  BY <1>1, <1>2, <1>3
<1>5. (a * m) % a = 0
  BY Multiple
<1>. QED
  BY <1>4, <1>5

LEMMA MultipleOfMultiple ==
  ASSUME NEW a \in Nat \ {0}, NEW b \in Nat \ {0}, NEW x \in Nat, x % b = 0, b % a = 0
  PROVE  x % a = 0
<1>1. PICK k \in Nat : x = b * k
  BY MultipleOf
<1>2. PICK l \in Nat : b = a * l
  BY MultipleOf
<1>3. PICK m \in Nat : m = l * k
  OBVIOUS
<1>4. x = a * m
  BY <1>1, <1>2, <1>3
<1>5. (a * m) % a = 0
  BY Multiple
<1>. QED
  BY <1>4, <1>5

LEMMA RoundedDown ==
  ASSUME NEW a \in Nat \ {0}, NEW x \in Nat
  PROVE  /\ x - (x % a) \in Nat /\ (x - (x % a)) % a = 0
         /\ x - (x % a) <= x /\ x < (x - (x % a)) + a
<1>1. PICK q \in Nat, r \in 0..(a - 1) : r = x % a /\ x = a * q + r
  BY DivisionFacts
<1>2. PICK m \in Nat : m = a * q /\ m % a = 0
  BY Multiple
<1>3. x - r = m /\ x - r <= x /\ x < (x - r) + a
  BY <1>1, <1>2
<1>. QED
  BY <1>1, <1>2, <1>3

LEMMA Modulo ==
  ASSUME NEW x \in Nat, NEW a \in Nat \ {0}
  PROVE  x % a \in 0..(a - 1) /\ (x < a => x % a = x)
OBVIOUS

-----------------------------------------------------------------------------
(* Words *)

LEMMA WordType ==
  /\ Word \in Nat \ {0} /\ Word \div 2 \in Nat /\ Word \div 4 \in Nat
  /\ (Word \div 2) + (Word \div 2) <= Word
  /\ (Word \div 2) + (Word \div 4) + (Word \div 4) <= Word
<1>1. Word \in Int
  BY MallocAssumption DEF Word
<1>2. Word \div 2 > 0
  BY <1>1, MallocAssumption
<1>. QED
  BY <1>1, <1>2

LEMMA Powers ==
  ASSUME NEW a \in PowersOfTwo
  PROVE  a \in Nat \ {0} /\ a < Word /\ a <= Word \div 2
<1>1. a \in Nat \ {0} /\ a < Word /\ Word % a = 0
  BY WordType DEF PowersOfTwo
<1>2. PICK k \in Nat : Word = a * k
  BY <1>1, WordType, MultipleOf
<1>3. k # 0 /\ k # 1
  BY <1>1, <1>2, WordType
<1>4. k >= 2
  BY <1>3
<1>5. a * k >= a * 2
  BY <1>1, <1>4
<1>. QED
  BY <1>1, <1>2, <1>5, WordType

LEMMA Constants ==
  /\ MinAligned \in Nat \ {0} /\ MinAligned <= Word \div 2
  /\ DoubleSize \in Nat \ {0}
  /\ Base \in Nat \ {0} /\ Limit \in Nat /\ Limit < Word \div 2
BY Powers, MallocAssumption DEF Null

\* ROUND_UP gives no less, a multiple of MIN_ALIGNED_SIZE, and does not wrap for
\* a size that malloc does not refuse.
LEMMA RoundUpFits ==
  ASSUME NEW size \in Nat, size < Word \div 2
  PROVE  RoundUp(size) \in Nat /\ RoundUp(size) >= size /\ RoundUp(size) % MinAligned = 0
<1> DEFINE r == size % MinAligned
<1>1. MinAligned \in Nat \ {0} /\ r \in 0..(MinAligned - 1)
  BY Constants, Modulo
<1>2. CASE r = 0
  BY <1>2 DEF RoundUp
<1>3. CASE r # 0
  <2>1. size - r \in Nat /\ (size - r) % MinAligned = 0
    BY <1>1, RoundedDown
  <2>2. ((size - r) + MinAligned) % MinAligned = 0
    <3>1. PICK x \in Nat : x = size - r /\ x % MinAligned = 0
      BY <2>1
    <3>2. MinAligned % MinAligned = 0
      BY <1>1, Multiple
    <3>3. (x + MinAligned) % MinAligned = 0
      BY <1>1, <3>1, <3>2, SumOfMultiples
    <3>. QED
      BY <3>1, <3>3
  <2>3. size + (MinAligned - r) \in Nat /\ size + (MinAligned - r) < Word
    BY <1>1, <1>3, Constants, WordType
  <2>4. (size + (MinAligned - r)) % Word = size + (MinAligned - r)
    BY <2>3, WordType, Modulo
  <2>5. size + (MinAligned - r) = (size - r) + MinAligned
    BY <1>1
  <2>6. RoundUp(size) = (size - r) + MinAligned
    BY <1>3, <2>4, <2>5 DEF RoundUp
  <2>. QED
    BY <1>1, <2>1, <2>2, <2>6
<1>. QED
  BY <1>2, <1>3

\* (x + a - 1) & ~(a - 1) is the next multiple of a, unless it wraps.
LEMMA AlignUpFits ==
  ASSUME NEW x \in Nat, NEW a \in Nat \ {0}, x + a - 1 < Word
  PROVE  /\ AlignUp(x, a) \in Nat /\ AlignUp(x, a) % a = 0
         /\ AlignUp(x, a) >= x /\ AlignUp(x, a) <= x + a - 1
<1>1. PICK y \in Nat : y = x + a - 1
  OBVIOUS
<1>2. y % Word = y
  BY <1>1, WordType, Modulo
<1>3. AlignUp(x, a) = y - (y % a)
  BY <1>1, <1>2 DEF AlignUp
<1>4. /\ y - (y % a) \in Nat /\ (y - (y % a)) % a = 0
      /\ y - (y % a) <= y /\ y < (y - (y % a)) + a
  BY RoundedDown
<1>. QED
  BY <1>1, <1>3, <1>4

-----------------------------------------------------------------------------
(* What a call returns *)

\* NULL, or room for size bytes at a multiple of align, between the subheap
\* pointer before the call and that after it.
Fits(result, t, size, align) ==
  /\ result.top \in Nat /\ result.top >= t /\ result.top % MinAligned = 0
  /\ \/ result.ptr = Null
     \/ /\ result.ptr \in Nat /\ t <= result.ptr /\ result.ptr + size <= result.top
        /\ result.ptr % align = 0

IsTop(t) == t \in Nat /\ t % MinAligned = 0 /\ Base <= t

LEMMA FailFits ==
  ASSUME NEW t, IsTop(t), NEW size, NEW align
  PROVE  Fits(Fail(t), t, size, align) /\ Fail(t).ptr = Null /\ Fail(t).top = t
BY DEF Fits, Fail, IsTop

LEMMA MallocFits ==
  ASSUME NEW t, IsTop(t), NEW size \in 0..(Word - 1)
  PROVE  /\ Fits(Malloc(t, size), t, size, MinAligned)
         /\ Malloc(t, size).ptr \in {Null, t}
         /\ Malloc(t, size).ptr = Null => Malloc(t, size).top = t
         /\ IsTop(Malloc(t, size).top)
<1>0. t \in Nat /\ t % MinAligned = 0 /\ Base <= t /\ Base \in Nat \ {0}
      /\ MinAligned \in Nat \ {0} /\ size \in Nat
  BY Constants, WordType DEF IsTop
<1>1. CASE size >= Word \div 2
  <2>1. Malloc(t, size) = Fail(t)
    BY <1>1 DEF Malloc
  <2>. QED
    BY <2>1, FailFits
<1>2. CASE size < Word \div 2
  <2>1. Malloc(t, size) = [ptr |-> t, top |-> t + RoundUp(size)]
    BY <1>0, <1>2, WordType DEF Malloc, Xxmalloc
  <2>2. RoundUp(size) \in Nat /\ RoundUp(size) >= size /\ RoundUp(size) % MinAligned = 0
    BY <1>0, <1>2, RoundUpFits
  <2>3. (t + RoundUp(size)) % MinAligned = 0
    BY <1>0, <2>2, SumOfMultiples
  <2>. QED
    BY <1>0, <2>1, <2>2, <2>3 DEF Fits, IsTop, Null
<1>. QED
  BY <1>0, <1>1, <1>2, WordType

\* The product that calloc computes is the product if its test has passed.
LEMMA CallocFits ==
  ASSUME NEW t, IsTop(t), NEW nelem \in 0..(Word - 1), NEW elsize \in 0..(Word - 1)
  PROVE  Fits(Calloc(t, nelem, elsize), t, nelem * elsize, MinAligned)
<1>1. nelem \in Nat /\ elsize \in Nat
  BY WordType
<1>2. PICK m \in Nat : m = nelem * elsize
  BY <1>1
<1>3. PICK n \in 0..(Word - 1) : n = m % Word /\ n <= m
  <2>1. m % Word \in 0..(Word - 1) /\ m - (m % Word) \in Nat
    BY WordType, Modulo, RoundedDown
  <2>. QED
    BY <2>1, WordType
<1>4. Calloc(t, nelem, elsize) =
        IF elsize # 0 /\ nelem # n \div elsize THEN Fail(t) ELSE Malloc(t, n)
  BY <1>2, <1>3 DEF Calloc
<1>5. CASE elsize # 0 /\ nelem # n \div elsize
  BY <1>4, <1>5, FailFits
<1>6. CASE ~(elsize # 0 /\ nelem # n \div elsize)
  <2>1. n = m
    <3>1. CASE elsize = 0
      BY <1>1, <1>2, <1>3, <3>1
    <3>2. CASE elsize # 0
      <4>1. nelem = n \div elsize /\ n \in Nat /\ elsize \in Nat \ {0}
        BY <1>1, <1>3, <1>6, <3>2, WordType
      <4>2. n % elsize \in Nat /\ n = elsize * nelem + (n % elsize)
        BY <4>1, DivisionFacts
      <4>3. n >= elsize * nelem
        BY <1>1, <4>1, <4>2
      <4>. QED
        BY <1>1, <1>2, <1>3, <4>1, <4>3
    <3>. QED
      BY <3>1, <3>2
  <2>. QED
    BY <1>2, <1>4, <1>6, <2>1, MallocFits
<1>. QED
  BY <1>5, <1>6

LEMMA Weaker ==
  ASSUME NEW result, NEW t, NEW size \in Nat, NEW less \in Nat, NEW align, less <= size,
         Fits(result, t, size, align)
  PROVE  Fits(result, t, less, align)
BY DEF Fits

\* memalign, valloc and posix_memalign: after a first block in vain, the second
\* has room for the alignment as well as for the size.
LEMMA MemalignFits ==
  ASSUME NEW t, IsTop(t), NEW size \in 0..(Word - 1),
         NEW alignment \in Nat, alignment <= Word \div 4, alignment <= Base,
         Memalign(t, alignment, size).top <= Limit
  PROVE  Fits(Memalign(t, alignment, size), t, size, alignment)
<1>0. t \in Nat /\ Base <= t /\ size \in Nat
      /\ MinAligned \in Nat \ {0} /\ DoubleSize \in Nat \ {0} /\ Base \in Nat \ {0}
      /\ Limit \in Nat /\ Limit < Word \div 2
  BY Constants, WordType DEF IsTop
<1>1. CASE alignment \notin PowersOfTwo
  BY <1>1, FailFits DEF Memalign
<1>2. CASE alignment \in PowersOfTwo /\ alignment = DoubleSize
  <2>1. Memalign(t, alignment, size) = Malloc(t, size)
    BY <1>2 DEF Memalign
  <2>2. Fits(Malloc(t, size), t, size, MinAligned)
    BY MallocFits
  <2>3. ASSUME NEW x \in Nat, x % MinAligned = 0 PROVE x % DoubleSize = 0
    BY <1>0, <2>3, MallocAssumption, MultipleOfMultiple
  <2>. QED
    BY <1>2, <2>1, <2>2, <2>3 DEF Fits
<1>3. CASE alignment \in PowersOfTwo /\ alignment # DoubleSize
  <2> DEFINE first == Malloc(t, size)
             second == Malloc(first.top, (size + 2 * alignment) % Word)
  <2>1. /\ Fits(first, t, size, MinAligned) /\ first.ptr \in {Null, t}
        /\ first.ptr = Null => first.top = t
        /\ IsTop(first.top)
    BY MallocFits
  <2>2. alignment \in Nat \ {0}
    BY <1>3, Powers
  <2>3. Memalign(t, alignment, size) =
          IF first.ptr % alignment = first.ptr THEN first
          ELSE [ptr |-> AlignUp(second.ptr, alignment), top |-> second.top]
    BY <1>3 DEF Memalign
  <2>4. first.ptr % alignment = first.ptr <=> first.ptr = Null
    <3>1. t % alignment \in 0..(alignment - 1) /\ Null % alignment = 0
      BY <1>0, <2>2, Modulo DEF Null
    <3>. QED
      BY <1>0, <2>1, <2>2, <3>1 DEF Null
  <2>5. CASE first.ptr = Null
    BY <2>1, <2>3, <2>4, <2>5 DEF Fits
  <2>6. CASE first.ptr # Null
    <3> HIDE DEF first, second
    <3>1. Memalign(t, alignment, size) = [ptr |-> AlignUp(second.ptr, alignment), top |-> second.top]
      BY <2>3, <2>4, <2>6
    <3>2. size < Word \div 2 /\ size + 2 * alignment \in 0..(Word - 1)
      <4>1. size < Word \div 2
        BY <1>0, <2>6, WordType DEF first, Malloc, Fail
      <4>. QED
        BY <1>0, <2>2, <4>1, WordType
    <3>3. (size + 2 * alignment) % Word = size + 2 * alignment
      <4>1. PICK z \in Nat : z = size + 2 * alignment /\ z < Word
        BY <3>2, WordType
      <4>2. z % Word = z
        BY <4>1, WordType, Modulo
      <4>. QED
        BY <4>1, <4>2
    <3>4. /\ Fits(second, first.top, size + 2 * alignment, MinAligned)
          /\ second.ptr \in {Null, first.top}
          /\ second.ptr = Null => second.top = first.top
      BY <2>1, <3>2, <3>3, MallocFits DEF second
    <3>5. first.top \in Nat /\ t <= first.top /\ first.top <= second.top /\ second.top \in Nat
          /\ second.top <= Limit /\ second.top % MinAligned = 0
      BY <2>1, <3>1, <3>4 DEF Fits
    <3>6. CASE second.ptr = Null
      <4>1. Null \in Nat /\ Null + alignment - 1 < Word
        BY <2>2, WordType DEF Null
      <4>2. PICK x \in Nat : /\ x = AlignUp(Null, alignment) /\ x % alignment = 0
                             /\ x <= Null + alignment - 1
        BY <2>2, <4>1, AlignUpFits
      <4>3. x < alignment
        BY <2>2, <4>2 DEF Null
      <4>4. x % alignment = x
        BY <2>2, <4>3, Modulo
      <4>5. AlignUp(Null, alignment) = Null
        BY <4>2, <4>4 DEF Null
      <4>. QED
        BY <1>0, <3>1, <3>5, <3>6, <4>5 DEF Fits
    <3>7. CASE second.ptr # Null
      <4>1. second.ptr = first.top /\ first.top + (size + 2 * alignment) <= second.top
        BY <3>4, <3>7 DEF Fits
      <4>2. first.top + alignment - 1 < Word
        BY <1>0, <2>2, <3>5, WordType
      <4>3. PICK x \in Nat : /\ x = AlignUp(first.top, alignment) /\ x % alignment = 0
                             /\ x >= first.top /\ x <= first.top + alignment - 1
        BY <2>2, <3>5, <4>2, AlignUpFits
      <4>4. t <= x /\ x + size <= second.top
        BY <1>0, <2>2, <3>5, <4>1, <4>3
      <4>. QED
        BY <1>0, <3>1, <3>5, <4>1, <4>3, <4>4 DEF Fits
    <3>. QED
      BY <3>6, <3>7
  <2>. QED
    BY <2>5, <2>6
<1>. QED
  BY <1>1, <1>2, <1>3

\* realloc of a block gives NULL or the same block.
LEMMA ReallocFits ==
  ASSUME NEW t, IsTop(t), NEW ptr \in Nat \ {Null}, NEW size \in 0..(Word - 1)
  PROVE  /\ Realloc(t, ptr, size).ptr \in {Null, ptr}
         /\ IsTop(Realloc(t, ptr, size).top) /\ Realloc(t, ptr, size).top >= t
<1> DEFINE new == Malloc(t, size)
<1>1. IsTop(new.top) /\ new.top >= t /\ new.ptr \in {Null, t}
  BY MallocFits DEF Fits
<1>2. Fail(t).ptr = Null /\ Fail(t).top = t
  BY DEF Fail
<1>3. Realloc(t, ptr, size) =
        IF size = 0 THEN Fail(t)
        ELSE IF new.ptr = Null THEN new ELSE [ptr |-> ptr, top |-> new.top]
  BY DEF Realloc, UsableSize
<1>. QED
  BY <1>1, <1>2, <1>3 DEF IsTop

-----------------------------------------------------------------------------
(* The invariant *)

\* aligned_alloc and pvalloc add to a size before anything has been checked.
RoundingFits == \A size \in AlignedSizes, a \in Alignments \cup {VPage} : size + a < Word

\* What a block is sure to have of what was asked for.
Kept(size) == IF RoundingFits THEN size ELSE 0

StartsInside == \A b \in blocks : b.start \in Nat /\ Base <= b.start /\ b.start <= top

IInv ==
  /\ IsTop(top) /\ top <= Limit
  /\ \A b \in blocks : b.size \in Nat
  /\ StartsInside
  /\ BlocksAligned
  /\ ~Growing /\ RoundingFits => BlocksHaveRoom /\ BlocksDisjoint

LEMMA InitInvariant == Init => IInv
BY Constants, MallocAssumption
   DEF Init, IInv, IsTop, StartsInside, BlocksAligned, BlocksHaveRoom, BlocksDisjoint

LEMMA GiveKeeps ==
  ASSUME IInv, NEW result, NEW size \in Nat, NEW align,
         Fits(result, top, Kept(size), align), Give(result, size, align)
  PROVE  IInv'
<1>1. top \in Nat /\ Base \in Nat \ {0} /\ Base <= top /\ Limit \in Nat
  BY Constants DEF IInv, IsTop
<1>2. IsTop(top)' /\ top' <= Limit /\ top' >= top /\ top' = result.top
  BY <1>1 DEF Give, Fits, IsTop
<1>3. CASE result.ptr = Null
  <2>1. blocks' = blocks
    BY <1>3 DEF Give
  <2>. QED
    BY <1>1, <1>2, <2>1 DEF IInv, IsTop, StartsInside, BlocksAligned, BlocksHaveRoom, BlocksDisjoint
<1>4. CASE result.ptr # Null
  <2>1. PICK n : /\ n.start = result.ptr /\ n.size = size /\ n.align = align
                 /\ blocks' = blocks \cup {n}
    BY <1>4 DEF Give
  <2>2. /\ n.start \in Nat /\ top <= n.start /\ n.start + Kept(size) <= top'
        /\ n.start % n.align = 0
    BY <1>2, <1>4, <2>1 DEF Fits
  <2>3. n.start <= top'
    BY <1>1, <1>2, <2>2 DEF Kept, IsTop
  <2>4. StartsInside' /\ BlocksAligned' /\ \A b \in blocks' : b.size \in Nat
    BY <1>1, <1>2, <2>1, <2>2, <2>3 DEF IInv, IsTop, StartsInside, BlocksAligned
  <2>5. ASSUME ~Growing, RoundingFits PROVE BlocksHaveRoom' /\ BlocksDisjoint'
    <3>1. n.start + n.size <= top'
      BY <2>1, <2>2, <2>5 DEF Kept
    <3>2. BlocksHaveRoom'
      BY <1>1, <1>2, <2>1, <2>2, <2>5, <3>1 DEF IInv, IsTop, StartsInside, BlocksHaveRoom
    <3>3. \A b \in blocks : b.start + b.size <= n.start
      BY <1>1, <2>2, <2>5 DEF IInv, StartsInside, BlocksHaveRoom
    <3>. QED
      BY <2>1, <2>5, <3>2, <3>3 DEF IInv, BlocksDisjoint
  <2>. QED
    BY <1>2, <2>4, <2>5 DEF IInv
<1>. QED
  BY <1>3, <1>4

LEMMA ResizeKeeps ==
  ASSUME IInv, NEW b \in blocks, NEW result, NEW size \in Nat, Resize(b, result, size),
         result.ptr \in {Null, b.start}, IsTop(result.top), result.top >= top
  PROVE  IInv'
<1>1. top \in Nat /\ Base \in Nat \ {0} /\ Base <= top /\ Limit \in Nat
      /\ IsTop(top)' /\ top' <= Limit /\ top' >= top
      /\ b.start \in Nat /\ b.size \in Nat /\ Base <= b.start /\ b.start <= top
  BY Constants DEF IInv, IsTop, StartsInside, Resize
<1>2. PICK n : /\ n.start = b.start /\ n.size = size /\ n.align = 1
               /\ blocks' \subseteq (blocks \ {b}) \cup {n} \/ blocks' \subseteq blocks
  <2> DEFINE n == [id |-> b.id, start |-> b.start, size |-> size, align |-> 1]
  <2>1. n.start = b.start /\ n.size = size /\ n.align = 1
    OBVIOUS
  <2>2. CASE result.ptr = Null
    BY <2>1, <2>2 DEF Resize
  <2>3. CASE result.ptr = b.start
    BY <1>1, <2>1, <2>3 DEF Resize, Null
  <2>. QED
    BY <2>2, <2>3
<1>3. \A x \in Nat : x % 1 = 0
  OBVIOUS
<1>4. CASE blocks' \subseteq blocks
  BY <1>1, <1>4 DEF IInv, IsTop, StartsInside, BlocksAligned, BlocksHaveRoom, BlocksDisjoint
<1>5. CASE blocks' \subseteq (blocks \ {b}) \cup {n}
  <2>1. StartsInside' /\ BlocksAligned' /\ \A c \in blocks' : c.size \in Nat
    BY <1>1, <1>2, <1>3, <1>5 DEF IInv, IsTop, StartsInside, BlocksAligned
  <2>2. ASSUME ~Growing, RoundingFits PROVE BlocksHaveRoom' /\ BlocksDisjoint'
    <3>1. n.start = b.start /\ n.size \in Nat /\ n.size <= b.size
      BY <1>2, <2>2 DEF Resize
    <3>2. BlocksHaveRoom /\ BlocksDisjoint /\ StartsInside /\ \A c \in blocks : c.size \in Nat
      BY <2>2 DEF IInv
    <3>3. BlocksHaveRoom'
      <4>1. b.start + b.size <= top
        BY <3>2 DEF BlocksHaveRoom
      <4>2. Base <= n.start /\ n.start + n.size <= top'
        BY <1>1, <3>1, <4>1 DEF IsTop
      <4>3. \A c \in blocks : Base <= c.start /\ c.start + c.size <= top'
        BY <1>1, <3>2 DEF BlocksHaveRoom, StartsInside, IsTop
      <4>4. \A c \in blocks' : Base <= c.start /\ c.start + c.size <= top'
        BY <1>5, <4>2, <4>3
      <4>. QED
        BY <4>4 DEF BlocksHaveRoom
    <3>4. \A c \in blocks \ {b} : n.start + n.size <= c.start \/ c.start + c.size <= n.start
      BY <1>1, <3>1, <3>2 DEF BlocksDisjoint, StartsInside
    <3>5. BlocksDisjoint'
      BY <1>5, <3>2, <3>4 DEF BlocksDisjoint
    <3>. QED
      BY <3>3, <3>5
  <2>. QED
    BY <1>1, <2>1, <2>2 DEF IInv
<1>. QED
  BY <1>2, <1>4, <1>5

-----------------------------------------------------------------------------
(* The calls *)

LEMMA Arguments ==
  /\ Word \in Nat \ {0} /\ Limit < Word
  /\ \A size \in Sizes : size \in 0..(Word - 1) /\ size \in Nat
  /\ AlignedSizes \subseteq Sizes
  /\ \A a \in Alignments \cup {VPage} :
       a \in Nat /\ a <= Word \div 4 /\ a <= Base
  /\ VPage \in Nat \ {0} /\ VPage < Word
  /\ PathMax \in 0..(Word - 1) /\ PathMax \in Nat
<1>1. VPage \in Nat \ {0} /\ VPage < Word
  BY Powers, MallocAssumption
<1>2. Limit < Word
  BY Constants, WordType
<1>3. \A a \in Alignments : a \in Nat
  BY WordType, MallocAssumption
<1>4. \A a \in Alignments : a <= Word \div 4
  BY WordType, MallocAssumption
<1>. QED
  BY <1>1, <1>2, <1>3, <1>4, WordType, MallocAssumption

LEMMA KeptType ==
  ASSUME NEW size \in Nat
  PROVE  Kept(size) \in Nat /\ Kept(size) <= size
BY DEF Kept

\* A product that wraps is still a word.
LEMMA Wraps ==
  ASSUME NEW x \in Nat
  PROVE  x % Word \in 0..(Word - 1) /\ x % Word \in Nat
<1>1. x % Word \in 0..(Word - 1)
  BY WordType, Modulo
<1>. QED
  BY <1>1, WordType

LEMMA ProductType ==
  ASSUME NEW x \in Nat, NEW y \in Nat
  PROVE  x * y \in Nat
OBVIOUS

LEMMA MallocKeeps ==
  ASSUME IInv, NEW size \in 0..(Word - 1), Give(Malloc(top, size), size, MinAligned)
  PROVE  IInv'
<1>1. IsTop(top) /\ size \in Nat
  BY WordType DEF IInv
<1>2. Fits(Malloc(top, size), top, Kept(size), MinAligned)
  BY <1>1, MallocFits, KeptType, Weaker
<1>. QED
  BY <1>1, <1>2, GiveKeeps

LEMMA CallMallocKeeps == IInv /\ CallMalloc => IInv'
<1>1. SUFFICES ASSUME IInv, NEW size \in Sizes,
                      Give(Malloc(top, size), size, MinAligned)
               PROVE  IInv'
  BY DEF CallMalloc, New
<1>. QED
  BY <1>1, Arguments, MallocKeeps

LEMMA CallCallocKeeps == IInv /\ CallCalloc => IInv'
<1>1. SUFFICES ASSUME IInv, NEW nelem \in Sizes, NEW elsize \in Sizes,
                      Give(Calloc(top, nelem, elsize), nelem * elsize, MinAligned)
               PROVE  IInv'
  BY DEF CallCalloc
<1>2. nelem \in 0..(Word - 1) /\ elsize \in 0..(Word - 1) /\ nelem \in Nat /\ elsize \in Nat
  BY Arguments
<1>3. PICK m \in Nat : m = nelem * elsize
  BY <1>2, ProductType
<1>4. Fits(Calloc(top, nelem, elsize), top, m, MinAligned)
  BY <1>1, <1>2, <1>3, CallocFits DEF IInv
<1>5. Fits(Calloc(top, nelem, elsize), top, Kept(m), MinAligned)
  BY <1>4, KeptType, Weaker
<1>6. Give(Calloc(top, nelem, elsize), m, MinAligned)
  BY <1>1, <1>3
<1>. QED
  BY <1>1, <1>5, <1>6, GiveKeeps

\* memalign for size bytes, of which the program takes asked.
LEMMA MemalignKeeps ==
  ASSUME IInv, NEW size \in 0..(Word - 1), NEW asked \in Nat, Kept(asked) <= size,
         NEW alignment \in Alignments \cup {VPage},
         Give(Memalign(top, alignment, size), asked, alignment)
  PROVE  IInv'
<1>1. IsTop(top) /\ size \in Nat /\ Kept(asked) \in Nat
  BY WordType, KeptType DEF IInv
<1>2. alignment \in Nat /\ alignment <= Word \div 4 /\ alignment <= Base
  BY Arguments
<1>3. Memalign(top, alignment, size).top <= Limit
  BY DEF Give
<1>4. Fits(Memalign(top, alignment, size), top, size, alignment)
  BY <1>1, <1>2, <1>3, MemalignFits
<1>5. Fits(Memalign(top, alignment, size), top, Kept(asked), alignment)
  BY <1>1, <1>4, Weaker
<1>. QED
  BY <1>5, GiveKeeps

LEMMA CallMemalignKeeps == IInv /\ CallMemalign => IInv'
<1>1. SUFFICES ASSUME IInv, NEW alignment \in Alignments, NEW size \in Sizes,
                      \/ Give(Memalign(top, alignment, size), size, alignment)
                      \/ Give(PosixMemalign(top, alignment, size), size, alignment)
               PROVE  IInv'
  BY DEF CallMemalign
<1>2. PosixMemalign(top, alignment, size) = Memalign(top, alignment, size)
  BY DEF PosixMemalign, Memalign
<1>3. size \in 0..(Word - 1) /\ size \in Nat /\ Kept(size) <= size
  BY Arguments, KeptType
<1>. QED
  BY <1>1, <1>2, <1>3, MemalignKeeps

\* A size that is raised to the alignment is no less, unless it wraps.
LEMMA RoundToAlignmentFits ==
  ASSUME NEW size \in AlignedSizes, NEW alignment \in Alignments \ {0}
  PROVE  /\ RoundToAlignment(size, alignment) \in 0..(Word - 1)
         /\ Kept(size) <= RoundToAlignment(size, alignment)
<1>1. size \in Nat /\ alignment \in Nat \ {0}
  BY Arguments
<1>2. PICK r \in 0..(alignment - 1) : r = size % alignment
  BY <1>1, Modulo
<1>3. PICK x \in Nat : x = size + alignment - r /\ size <= x /\ x <= size + alignment
  BY <1>1, <1>2
<1>4. RoundToAlignment(size, alignment) = x % Word
  BY <1>2, <1>3 DEF RoundToAlignment
<1>5. x % Word \in 0..(Word - 1) /\ x % Word \in Nat
  BY Wraps
<1>6. ASSUME RoundingFits PROVE x % Word = x
  <2>1. x < Word
    BY <1>1, <1>3, <1>6, WordType DEF RoundingFits
  <2>. QED
    BY <2>1, WordType, Modulo
<1>7. Kept(size) <= x % Word
  BY <1>1, <1>3, <1>5, <1>6 DEF Kept
<1>. QED
  BY <1>4, <1>5, <1>7

LEMMA CallAlignedAllocKeeps == IInv /\ CallAlignedAlloc => IInv'
<1>1. SUFFICES ASSUME IInv, NEW alignment \in Alignments \ {0}, NEW size \in AlignedSizes,
                      Give(AlignedAlloc(top, alignment, size), size, alignment)
               PROVE  IInv'
  BY DEF CallAlignedAlloc
<1>2. PICK x \in 0..(Word - 1) : x = RoundToAlignment(size, alignment) /\ Kept(size) <= x
  BY RoundToAlignmentFits
<1>3. Give(Memalign(top, alignment, x), size, alignment) /\ size \in Nat
  BY <1>1, <1>2, Arguments DEF AlignedAlloc
<1>. QED
  BY <1>1, <1>2, <1>3, MemalignKeeps

LEMMA StrdupKeeps ==
  ASSUME IInv, NEW length \in Nat, length < Limit, Give(Strdup(top, length), length + 1, 1)
  PROVE  IInv'
<1>1. PICK x \in Nat : x = length + 1 /\ x < Word
  BY Constants, WordType
<1>2. x % Word = x
  BY <1>1, WordType, Modulo
<1>3. x \in 0..(Word - 1) /\ IsTop(top)
  BY <1>1, WordType DEF IInv
<1>4. Strdup(top, length) = Malloc(top, x)
  BY <1>1, <1>2 DEF Strdup
<1>5. \A y \in Nat : y % 1 = 0
  OBVIOUS
<1>6. Fits(Malloc(top, x), top, Kept(x), MinAligned)
  BY <1>3, MallocFits, KeptType, Weaker
<1>7. Fits(Malloc(top, x), top, Kept(x), 1)
  BY <1>5, <1>6 DEF Fits
<1>8. Give(Malloc(top, x), x, 1)
  BY <1>1, <1>4
<1>. QED
  BY <1>7, <1>8, GiveKeeps

LEMMA CallStrdupKeeps == IInv /\ CallStrdup => IInv'
<1>1. SUFFICES ASSUME IInv, NEW length \in Sizes, length < Limit,
                      Give(Strdup(top, length), length + 1, 1)
               PROVE  IInv'
  <2>1. SUFFICES ASSUME IInv, NEW length \in {n \in Sizes : n < Limit},
                        NEW size \in {n \in Sizes : n < Limit},
                        \/ Give(Strdup(top, length), length + 1, 1)
                        \/ Give(Strndup(top, length, size),
                                (IF length < size THEN length ELSE size) + 1, 1)
                 PROVE  IInv'
    BY DEF CallStrdup
  <2>2. PICK l \in {length, size} : l = IF length < size THEN length ELSE size
    OBVIOUS
  <2>3. Give(Strdup(top, length), length + 1, 1) \/ Give(Strdup(top, l), l + 1, 1)
    BY <2>1, <2>2 DEF Strndup
  <2>. QED
    BY <1>1, <2>1, <2>2, <2>3
<1>. QED
  BY <1>1, Arguments, StrdupKeeps

\* pvalloc rounds to pages, by the same operation as memalign.
LEMMA PageSizeFits ==
  ASSUME NEW size \in AlignedSizes
  PROVE  AlignUp(size, VPage) \in 0..(Word - 1) /\ Kept(size) <= AlignUp(size, VPage)
<1>1. size \in Nat /\ VPage \in Nat \ {0} /\ Word \in Nat \ {0}
  BY Arguments
<1>2. PICK y \in Nat : y = size + VPage - 1
  BY <1>1
<1>3. PICK x \in Nat : x = y % Word /\ x \in 0..(Word - 1)
  BY Wraps
<1>4. AlignUp(size, VPage) = x - (x % VPage)
  BY <1>2, <1>3 DEF AlignUp
<1>5. x - (x % VPage) \in Nat /\ x - (x % VPage) <= x
  BY <1>1, RoundedDown
<1>6. PICK z \in Nat : z = x - (x % VPage) /\ z <= x
  BY <1>5
<1>7. ASSUME RoundingFits PROVE size <= AlignUp(size, VPage)
  <2>1. size + VPage - 1 < Word
    BY <1>1, <1>7 DEF RoundingFits
  <2>. QED
    BY <1>1, <2>1, AlignUpFits
<1>8. z \in 0..(Word - 1) /\ AlignUp(size, VPage) = z
  BY <1>1, <1>3, <1>4, <1>6
<1>. QED
  BY <1>1, <1>7, <1>8 DEF Kept

LEMMA CallVallocKeeps == IInv /\ CallValloc => IInv'
<1>1. ASSUME IInv, NEW size \in Sizes, Give(Valloc(top, size), size, VPage)
      PROVE  IInv'
  <2>1. size \in 0..(Word - 1) /\ size \in Nat /\ Kept(size) <= size
    BY Arguments, KeptType
  <2>. QED
    BY <1>1, <2>1, MemalignKeeps DEF Valloc
<1>2. ASSUME IInv, NEW size \in AlignedSizes, Give(Pvalloc(top, size), size, VPage)
      PROVE  IInv'
  <2>1. PICK x \in 0..(Word - 1) : x = AlignUp(size, VPage) /\ Kept(size) <= x
    BY PageSizeFits
  <2>2. Give(Memalign(top, VPage, x), size, VPage) /\ size \in Nat
    BY <1>2, <2>1, Arguments DEF Pvalloc, Valloc
  <2>. QED
    BY <1>2, <2>1, <2>2, MemalignKeeps
<1>. QED
  BY <1>1, <1>2 DEF CallValloc

LEMMA CallGetcwdKeeps == IInv /\ CallGetcwd => IInv'
<1>1. SUFFICES ASSUME IInv, NEW size \in Sizes,
                      Give(Getcwd(top, size), IF size = 0 THEN PathMax ELSE size, MinAligned)
               PROVE  IInv'
  BY DEF CallGetcwd
<1>2. PICK x \in 0..(Word - 1) : x = IF size = 0 THEN PathMax ELSE size
  BY Arguments
<1>3. Give(Malloc(top, x), x, MinAligned)
  BY <1>1, <1>2 DEF Getcwd
<1>. QED
  BY <1>1, <1>3, MallocKeeps

LEMMA CallReallocKeeps == IInv /\ CallRealloc => IInv'
<1>1. ASSUME IInv, NEW size \in Sizes, Give(Realloc(top, Null, size), size, MinAligned)
      PROVE  IInv'
  <2>1. Realloc(top, Null, size) = Malloc(top, size)
    BY DEF Realloc
  <2>. QED
    BY <1>1, <2>1, Arguments, MallocKeeps
<1>2. ASSUME IInv, NEW b \in blocks, NEW asked \in Nat, NEW size \in 0..(Word - 1),
             Resize(b, Realloc(top, b.start, size), asked)
      PROVE  IInv'
  <2>1. IsTop(top) /\ b.start \in Nat \ {Null}
    BY <1>2, Constants DEF IInv, StartsInside, Null
  <2>2. LET result == Realloc(top, b.start, size)
        IN  result.ptr \in {Null, b.start} /\ IsTop(result.top) /\ result.top >= top
    BY <2>1, ReallocFits
  <2>. QED
    BY <1>2, <2>2, ResizeKeeps
<1>3. ASSUME IInv, NEW b \in blocks, NEW size \in Sizes,
             Resize(b, Realloc(top, b.start, size), size)
      PROVE  IInv'
  BY <1>2, <1>3, Arguments
<1>4. ASSUME IInv, NEW b \in blocks, NEW num \in Sizes, NEW size \in Sizes,
             Resize(b, Recalloc(top, b.start, num, size), num * size)
      PROVE  IInv'
  <2>1. PICK m \in Nat : m = num * size
    BY Arguments, ProductType
  <2>2. PICK n \in 0..(Word - 1) : n = m % Word
    BY Wraps
  <2>3. Resize(b, Realloc(top, b.start, n), m)
    BY <1>4, <2>1, <2>2 DEF Recalloc
  <2>. QED
    BY <1>2, <1>4, <2>3
<1>. QED
  BY <1>1, <1>3, <1>4 DEF CallRealloc

\* The subheap pointer moves on, and no block is added.
LEMMA FewerBlocks ==
  ASSUME IInv, IsTop(top)', top' <= Limit, top <= top', blocks' \subseteq blocks
  PROVE  IInv'
<1>1. top \in Nat /\ top' \in Nat /\ Base \in Nat
  BY Constants DEF IInv, IsTop
<1>2. StartsInside' /\ BlocksAligned' /\ \A b \in blocks' : b.size \in Nat
  BY <1>1 DEF IInv, StartsInside, BlocksAligned
<1>3. ASSUME ~Growing, RoundingFits PROVE BlocksHaveRoom' /\ BlocksDisjoint'
  BY <1>1, <1>3 DEF IInv, StartsInside, BlocksHaveRoom, BlocksDisjoint
<1>. QED
  BY <1>2, <1>3 DEF IInv

LEMMA CallGoodSizeKeeps == IInv /\ CallGoodSize => IInv'
<1>1. SUFFICES ASSUME IInv, NEW size \in Sizes, Malloc(top, size).top <= Limit,
                      top' = Malloc(top, size).top, blocks' = blocks
               PROVE  IInv'
  BY DEF CallGoodSize, GoodSize
<1>2. IsTop(top) /\ size \in 0..(Word - 1)
  BY <1>1, Arguments DEF IInv
<1>3. IsTop(Malloc(top, size).top) /\ top <= Malloc(top, size).top
  BY <1>2, MallocFits DEF Fits, IsTop
<1>4. IsTop(top)'
  BY <1>1, <1>3 DEF IsTop
<1>. QED
  BY <1>1, <1>3, <1>4, FewerBlocks

LEMMA CallFreeKeeps == IInv /\ (CallFree \/ UNCHANGED vars) => IInv'
<1>1. SUFFICES ASSUME IInv, top' = top, blocks' \subseteq blocks PROVE IInv'
  BY DEF CallFree, vars
<1>2. IsTop(top)' /\ top' <= Limit /\ top <= top'
  BY <1>1 DEF IInv, IsTop
<1>. QED
  BY <1>1, <1>2, FewerBlocks

LEMMA InductiveInvariant == Spec => []IInv
<1>1. IInv /\ [Next]_vars => IInv'
  BY CallMallocKeeps, CallCallocKeeps, CallMemalignKeeps, CallAlignedAllocKeeps,
     CallStrdupKeeps, CallVallocKeeps, CallGetcwdKeeps, CallReallocKeeps,
     CallGoodSizeKeeps, CallFreeKeeps DEF Next
<1>. QED
  BY InitInvariant, <1>1, PTL DEF Spec

-----------------------------------------------------------------------------

\* Every block begins where its call has promised: malloc's at a multiple of
\* MIN_ALIGNED_SIZE, since xxmalloc moves the subheap pointer by multiples of it
\* (bump_allocator.cc), memalign's, after its first block in vain, at the
\* alignment, even where the size that aligned_alloc or pvalloc has computed
\* wraps (wrapper.hh).
THEOREM AlignedAsPromised == Spec => []BlocksAligned
<1>1. IInv => BlocksAligned
  BY DEF IInv
<1>. QED
  BY InductiveInvariant, <1>1, PTL

\* For every width of size_t, every size and every alignment: the overflow test of
\* calloc, the sign test of malloc and the second block of memalign (wrapper.hh)
\* leave a block the room that was asked for. The two assumptions are those
\* without which it does not have it: realloc returns the old block for a larger
\* size, and aligned_alloc and pvalloc let a size wrap.
THEOREM RoomAsAsked ==
  ASSUME ~Growing, RoundingFits
  PROVE  Spec => []BlocksHaveRoom
<1>1. IInv => BlocksHaveRoom
  BY DEF IInv
<1>. QED
  BY InductiveInvariant, <1>1, PTL

\* Under the same assumptions no two blocks overlap, whichever calls of wrapper.hh
\* have returned them: also a block that realloc has kept, and one that memalign
\* has made inside a larger one.
THEOREM NoOverlap ==
  ASSUME ~Growing, RoundingFits
  PROVE  Spec => []BlocksDisjoint
<1>1. IInv => BlocksDisjoint
  BY DEF IInv
<1>. QED
  BY InductiveInvariant, <1>1, PTL

=============================================================================
