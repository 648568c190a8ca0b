-------------------------- MODULE CodeCacheProofs ---------------------------
(***************************************************************************)
(* Proofs about CodeCache for every size of the cache, every alignment and *)
(* every set of requests.                                                  *)
(***************************************************************************)
EXTENDS CodeCache, FiniteSetTheorems, WellFoundedInduction, TLAPS

-----------------------------------------------------------------------------
(* Alignment *)

\* Division by the alignment.
LEMMA DivMod ==
    ASSUME NEW n \in Int
    PROVE  /\ n \div Align \in Int
           /\ n % Align \in 0..(Align - 1)
           /\ n = Align * (n \div Align) + (n % Align)
  BY AlignAssumption

\* A positive multiple of the alignment is at least the alignment.
LEMMA MultipleAtLeast ==
    ASSUME NEW k \in Int, k >= 1
    PROVE  Align * k >= Align
  BY AlignAssumption

\* RoundDown loses less than one alignment unit.
LEMMA RoundDownBounds ==
    ASSUME NEW n \in Int
    PROVE  /\ RoundDown(n) \in Int
           /\ RoundDown(n) =< n
           /\ n - Align < RoundDown(n)
  BY AlignAssumption, DivMod DEF RoundDown

\* RoundUp adds less than one alignment unit, and the result of rounding a
\* positive size is a whole unit at least.
LEMMA RoundUpBounds ==
    ASSUME NEW n \in Nat
    PROVE  /\ RoundUp(n) \in Nat
           /\ n =< RoundUp(n)
           /\ RoundUp(n) < n + Align
           /\ n > 0 => RoundUp(n) >= Align
  <1> DEFINE m == n + Align - 1
             q == m \div Align
  <1>1. m \in Nat /\ RoundUp(n) = m - (m % Align)
    BY AlignAssumption DEF RoundUp, RoundDown
  <1>2. q \in Int /\ m % Align \in 0..(Align - 1) /\ m = Align * q + (m % Align)
    BY <1>1, DivMod
  <1>3. ASSUME n > 0 PROVE RoundUp(n) >= Align
    <2>1. m >= Align
      BY <1>3, AlignAssumption
    <2>2. CASE q >= 1
      BY <1>1, <1>2, <2>2, MultipleAtLeast, AlignAssumption
    <2>3. CASE q =< 0
      <3>1. Align * q =< 0
        BY <1>2, <2>3, AlignAssumption
      <3> QED BY <1>2, <2>1, <3>1, AlignAssumption
    <2> QED BY <1>2, <2>2, <2>3
  <1> QED BY <1>1, <1>2, <1>3, AlignAssumption

-----------------------------------------------------------------------------
(* The inductive invariant *)

\* No block is smaller than the list's own record: a gap too small for a free
\* block, which addFreeBlock2 swallows, cannot hold a block in use.
BlocksLarge == \A b \in freeBlocks \cup inUse : b.size >= FreeBlockSize

Inv == TypeOK /\ NoOverlap /\ BlocksLarge

\* Every non-empty set of naturals has a least element.
LEMMA LeastNatural ==
    ASSUME NEW S, S \subseteq Nat, S # {}
    PROVE  \E n \in S : \A m \in S : n =< m
  <1>1. PICK n \in S : \A m \in S : ~(<<m, n>> \in OpToRel(<, Nat))
    BY NatLessThanWellFounded, WFMin
  <1>2. \A m \in S : ~(m < n)
    BY <1>1 DEF OpToRel
  <1> QED BY <1>2

\* MaxSize is the size of the largest block.
LEMMA MaxSizeIsMax ==
    ASSUME NEW blocks, blocks \subseteq Block, \A f \in blocks : f.size =< CodeTop
    PROVE  /\ MaxSize(blocks) \in 0..CodeTop
           /\ \A f \in blocks : f.size =< MaxSize(blocks)
           /\ MaxSize(blocks) = 0 \/ \E f \in blocks : f.size = MaxSize(blocks)
  <1> DEFINE bounds == {n \in Nat : \A f \in blocks : f.size =< n}
  <1>1. PICK n \in bounds : \A m \in bounds : n =< m
    <2>1. CodeTop \in bounds
      BY HeapAssumption
    <2> QED BY <2>1, LeastNatural
  <1>2. n \in 0..CodeTop
    BY <1>1, HeapAssumption
  <1>3. n = 0 \/ \E f \in blocks : f.size = n
    <2>1. SUFFICES ASSUME n # 0 PROVE \E f \in blocks : f.size = n
      OBVIOUS
    <2>2. n - 1 \in Nat /\ n - 1 \notin bounds
      BY <1>1, <2>1
    <2>3. PICK f \in blocks : ~(f.size =< n - 1)
      BY <2>2
    <2> QED BY <1>1, <2>3 DEF Block
  <1> QED BY <1>1, <1>2, <1>3 DEF MaxSize

\* The adjusted sizes of a request.
LEMMA SizesOfRequest ==
    ASSUME NEW r \in Request
    PROVE  /\ WarmSize(r) \in Nat /\ (WarmSize(r) > 0 => WarmSize(r) >= FreeBlockSize)
           /\ ColdSize(r) \in Nat /\ (ColdSize(r) > 0 => ColdSize(r) >= FreeBlockSize)
  <1>1. \A n \in Nat : /\ AdjustSize(n) \in Nat
                       /\ AdjustSize(n) > 0 => AdjustSize(n) >= FreeBlockSize
    BY RoundUpBounds, HeaderAssumption, FreeBlockAssumption, AlignAssumption DEF AdjustSize
  <1>2. r.warm \in Nat /\ r.cold \in Nat /\ r.contiguous \in BOOLEAN
    BY SizesAssumption DEF Request
  <1>3. /\ r.warm + (IF r.contiguous THEN r.cold ELSE 0) \in Nat
        /\ (IF r.contiguous THEN 0 ELSE r.cold) \in Nat
    BY <1>2
  <1> QED BY <1>1, <1>3 DEF WarmSize, ColdSize

\* Adding the bytes from..end, which no block touches, to the free list keeps
\* the free blocks apart from each other, from the hole and from the blocks
\* that stay in use.
LEMMA AddFreeBlock ==
    ASSUME Inv,
           NEW from \in Nat, NEW end \in Nat, from < end,
           NEW stay, stay \subseteq Block,
           \A b \in stay : b.size >= FreeBlockSize /\ \A f \in freeBlocks : Disjoint(b, f),
           \/ CodeBase =< from /\ end =< warmCodeAlloc
           \/ coldCodeAlloc =< from /\ end =< CodeTop,
           \A b \in freeBlocks \cup stay : BlockEnd(b) =< from \/ end =< b.start,
           addFreeBlock2(from, end)
    PROVE  /\ freeBlocks' \subseteq Block
           /\ largestWarm' \in Nat /\ largestCold' \in Nat
           /\ \A f \in freeBlocks' : (InWarm(f) \/ InCold(f)) /\ f.size >= FreeBlockSize
           /\ \A a, b \in freeBlocks' : a # b => Disjoint(a, b)
           /\ \A a \in stay, b \in freeBlocks' : Disjoint(a, b)
  <1> USE FreeBlockAssumption, AlignAssumption
  <1> DEFINE start == RoundUp(from)
             before == JoinedBefore(start)
             after == JoinedAfter(start, end)
             new == JoinedBlock(start, end)
  <1>1. start \in Nat /\ from =< start
    BY RoundUpBounds
  <1>2. CASE end =< start + FreeBlockSize
    BY <1>2 DEF Inv, TypeOK, NoOverlap, BlocksOutsideHole, BlocksLarge,
                FreeBlocksDisjoint, addFreeBlock2
  <1>3. CASE ~(end =< start + FreeBlockSize)
    <2> DEFINE rest == freeBlocks \ (before \cup after)
    <2>1. freeBlocks' = rest \cup {new} /\ updateMaxSizeOfFreeBlocks(new)
      BY <1>3 DEF addFreeBlock2
    <2>2. freeBlocks \subseteq Block /\ stay \subseteq Block
          /\ warmCodeAlloc \in Nat /\ coldCodeAlloc \in Nat
      BY DEF Inv, TypeOK
    <2>3. PICK low, high \in Nat :
            /\ new = [start |-> low, size |-> high - low]
            /\ low =< start /\ end =< high
            /\ \/ low = start /\ before = {}
               \/ \E f \in before : low = f.start
            /\ \/ high = end /\ after = {}
               \/ \E f \in after : high = BlockEnd(f)
      <3>1. PICK low \in Nat :
              /\ low = IF before = {} THEN start ELSE (CHOOSE f \in before : TRUE).start
              /\ low =< start
              /\ (low = start /\ before = {}) \/ \E f \in before : low = f.start
        <4>1. CASE before = {}
          BY <1>1, <4>1
        <4>2. CASE before # {}
          <5>1. PICK f \in before : f = CHOOSE g \in before : TRUE
            BY <4>2
          <5>2. f.start \in Nat /\ f.start =< start
            BY <1>1, <2>2 DEF JoinedBefore, BlockBefore, Block
          <5> QED BY <4>2, <5>1, <5>2
        <4> QED BY <4>1, <4>2
      <3>2. PICK high \in Nat :
              /\ high = IF after = {} THEN end ELSE BlockEnd(CHOOSE f \in after : TRUE)
              /\ end =< high
              /\ (high = end /\ after = {}) \/ \E f \in after : high = BlockEnd(f)
        <4>1. CASE after = {}
          BY <4>1
        <4>2. CASE after # {}
          <5>1. PICK f \in after : f = CHOOSE g \in after : TRUE
            BY <4>2
          <5>2. BlockEnd(f) \in Nat /\ end =< BlockEnd(f)
            BY <2>2 DEF JoinedAfter, BlockAfter, Block, BlockEnd
          <5> QED BY <4>2, <5>1, <5>2
        <4> QED BY <4>1, <4>2
      <3> QED BY <3>1, <3>2 DEF JoinedBlock
    <2>4. new \in Block /\ new.start = low /\ BlockEnd(new) = high
          /\ new.size >= FreeBlockSize
      BY <1>1, <1>3, <2>3 DEF Block, BlockEnd
    <2>5. InWarm(new) \/ InCold(new)
      BY <1>1, <1>3, <2>2, <2>3, <2>4, HeapAssumption
      DEF Inv, NoOverlap, BlocksOutsideHole, BlocksLarge, PointersOrdered, InWarm, InCold,
          JoinedBefore, JoinedAfter, BlockBefore, BlockAfter, WarmThenCold, Block, BlockEnd
    <2>6. \A b \in rest : Disjoint(b, new)
      <3> SUFFICES ASSUME NEW b \in rest PROVE Disjoint(b, new)
        OBVIOUS
      <3>1. b \in Block /\ b.size >= FreeBlockSize /\ (BlockEnd(b) =< from \/ end =< b.start)
        BY <2>2 DEF Inv, BlocksLarge
      <3>2. \A f \in before \cup after : f \in Block /\ f.size >= FreeBlockSize /\ Disjoint(b, f)
        BY <2>2 DEF JoinedBefore, BlockBefore, JoinedAfter, BlockAfter,
                    Inv, BlocksLarge, NoOverlap, FreeBlocksDisjoint
      <3>3. CASE b.start < start
        <4>1. BlockEnd(b) =< from
          BY <1>1, <1>3, <3>1, <3>3 DEF Block
        <4>2. \A f \in before : b.start =< f.start
          BY <3>3 DEF JoinedBefore, BlockBefore
        <4>3. \A f \in before : BlockEnd(b) =< f.start
          BY <3>1, <3>2, <4>2 DEF Disjoint, BlockEnd, Block
        <4>4. BlockEnd(b) =< low
          BY <1>1, <2>3, <3>1, <4>1, <4>3 DEF BlockEnd, Block
        <4> QED BY <2>4, <4>4 DEF Disjoint
      <3>4. CASE ~(b.start < start)
        <4>1. end =< b.start
          BY <1>1, <3>1, <3>4 DEF BlockEnd, Block
        <4>2. \A f \in after : f.start =< b.start
          BY <1>1, <3>1, <3>4 DEF JoinedAfter, BlockAfter, Block
        <4>3. \A f \in after : BlockEnd(f) =< b.start
          BY <3>1, <3>2, <4>2 DEF Disjoint, BlockEnd, Block
        <4>4. high =< b.start
          BY <2>3, <4>1, <4>3
        <4> QED BY <2>4, <4>4 DEF Disjoint
      <3> QED BY <3>3, <3>4
    <2>7. \A b \in stay : Disjoint(b, new)
      <3> SUFFICES ASSUME NEW b \in stay PROVE Disjoint(b, new)
        OBVIOUS
      <3>1. b \in Block /\ b.size >= FreeBlockSize /\ (BlockEnd(b) =< from \/ end =< b.start)
        BY <2>2 DEF Inv, BlocksLarge
      <3>2. \A f \in before \cup after : f \in Block /\ Disjoint(b, f)
        BY <2>2 DEF JoinedBefore, BlockBefore, JoinedAfter, BlockAfter
      <3>3. CASE BlockEnd(b) =< from
        <4>1. \A f \in before : BlockEnd(b) =< f.start
          BY <1>1, <3>1, <3>2, <3>3 DEF JoinedBefore, BlockBefore, Disjoint, BlockEnd, Block
        <4>2. BlockEnd(b) =< low
          BY <1>1, <2>3, <3>1, <3>3, <4>1 DEF BlockEnd, Block
        <4> QED BY <2>4, <4>2 DEF Disjoint
      <3>4. CASE end =< b.start
        <4>1. \A f \in after : BlockEnd(f) =< b.start
          BY <1>1, <3>1, <3>2, <3>4 DEF JoinedAfter, BlockAfter, Disjoint, BlockEnd, Block
        <4>2. high =< b.start
          BY <2>3, <3>4, <4>1
        <4> QED BY <2>4, <4>2 DEF Disjoint
      <3> QED BY <3>1, <3>3, <3>4
    <2>8. largestWarm' \in Nat /\ largestCold' \in Nat
      BY <2>1, <2>4 DEF updateMaxSizeOfFreeBlocks, Inv, TypeOK, Block
    <2> QED
      BY <2>1, <2>2, <2>4, <2>5, <2>6, <2>7, <2>8
      DEF Inv, NoOverlap, BlocksOutsideHole, BlocksLarge, FreeBlocksDisjoint, Disjoint
  <1> QED BY <1>2, <1>3

\* The warm part of a granted request: the block put in use and what is left
\* of a recycled one lie in the warm area, apart from every other block.
LEMMA WarmPart ==
    ASSUME Inv, NEW r \in Request, ~Refused(r), ~NoRoomForCold(r), NEW w \in WarmChoices(r)
    PROVE  LET used == Used(w, WarmSize(r))
               left == Left(w, WarmSize(r), WarmIsFree(r))
               top == WarmAllocAfter(r)
           IN /\ top \in Nat /\ warmCodeAlloc =< top /\ top =< coldCodeAlloc
              /\ used \cup left \subseteq Block
              /\ \A b \in used \cup left :
                   CodeBase =< b.start /\ BlockEnd(b) =< top /\ b.size >= FreeBlockSize
              /\ \A a \in used, b \in left : Disjoint(a, b)
              /\ \A a, b \in used : a = b
              /\ \A a, b \in left : a = b
              /\ \A a \in used \cup left :
                   \A b \in (freeBlocks \ Unlinked(w, WarmIsFree(r))) \cup inUse : Disjoint(a, b)
  <1> DEFINE size == WarmSize(r)
             used == Used(w, size)
             left == Left(w, size, WarmIsFree(r))
             top == WarmAllocAfter(r)
  <1> USE FreeBlockAssumption, HeapAssumption
  <1>1. size \in Nat /\ (size > 0 => size >= FreeBlockSize)
    BY SizesOfRequest
  <1>2. /\ warmCodeAlloc \in Nat /\ coldCodeAlloc \in Nat
        /\ freeBlocks \subseteq Block /\ inUse \subseteq Block
        /\ CodeBase =< warmCodeAlloc /\ warmCodeAlloc =< coldCodeAlloc
    BY DEF Inv, TypeOK, NoOverlap, PointersOrdered
  <1>3. \A b \in freeBlocks \cup inUse : BlockEnd(b) =< warmCodeAlloc \/ coldCodeAlloc =< b.start
    BY DEF Inv, NoOverlap, BlocksOutsideHole, InWarm, InCold
  <1>4. CASE WarmIsFree(r)
    <2>1. w \in freeBlocks /\ w.start < warmCodeAlloc /\ w.size >= size /\ size > 0
      BY <1>1, <1>4 DEF WarmChoices, BestFit, WarmFree, WarmIsFree
    <2>2. w \in Block /\ CodeBase =< w.start /\ BlockEnd(w) =< warmCodeAlloc
      BY <1>2, <2>1 DEF Inv, NoOverlap, BlocksOutsideHole, InWarm, InCold, Block
    <2>3. top = warmCodeAlloc
      BY <1>4 DEF WarmAllocAfter, WarmFromHeap
    <2>4. \A b \in (freeBlocks \ {w}) \cup inUse : b \in Block /\ Disjoint(w, b)
      BY <1>2, <2>1 DEF Inv, NoOverlap, FreeBlocksDisjoint, UsedBlocksNotFree, Disjoint
    <2>5. used = {[start |-> w.start, size |-> TakenSize(w, size)]}
      BY <2>1 DEF Used
    <2>6. left = IF Splits(w, size)
                 THEN {[start |-> w.start + size, size |-> w.size - size]} ELSE {}
      BY <1>4 DEF Left, LeftBlock
    <2>7. Unlinked(w, WarmIsFree(r)) = {w}
      BY <1>4 DEF Unlinked
    <2>8. used \cup left \subseteq Block
      BY <1>1, <2>1, <2>2, <2>5, <2>6 DEF Block, Splits, TakenSize
    <2>9. \A b \in used \cup left :
            w.start =< b.start /\ BlockEnd(b) =< BlockEnd(w) /\ b.size >= FreeBlockSize
      BY <1>1, <2>1, <2>2, <2>5, <2>6 DEF Block, BlockEnd, Splits, TakenSize
    <2>10. \A a \in used, b \in left : Disjoint(a, b)
      BY <1>1, <2>1, <2>2, <2>5, <2>6 DEF Block, BlockEnd, Splits, TakenSize, Disjoint
    <2>11. \A a \in used \cup left : \A b \in (freeBlocks \ {w}) \cup inUse : Disjoint(a, b)
      BY <2>2, <2>4, <2>8, <2>9 DEF Disjoint, BlockEnd, Block
    <2>12. \A b \in used \cup left : CodeBase =< b.start /\ BlockEnd(b) =< top
      BY <1>2, <2>2, <2>3, <2>8, <2>9 DEF BlockEnd, Block
    <2>13. (\A a, b \in used : a = b) /\ (\A a, b \in left : a = b)
      BY <2>5, <2>6
    <2> QED BY <1>2, <2>3, <2>7, <2>8, <2>9, <2>10, <2>11, <2>12, <2>13
  <1>5. CASE ~WarmIsFree(r) /\ size > 0
    <2>1. w = [start |-> RoundUp(warmCodeAlloc), size |-> size]
      BY <1>5 DEF WarmChoices
    <2>2. RoundUp(warmCodeAlloc) \in Nat /\ warmCodeAlloc =< RoundUp(warmCodeAlloc)
      BY <1>2, RoundUpBounds
    <2>3. top = RoundUp(warmCodeAlloc) + size /\ top =< coldCodeAlloc
      BY <1>1, <1>2, <1>5, <2>2 DEF WarmAllocAfter, WarmFromHeap, Refused
    <2>4. used = {w} /\ left = {}
      BY <1>1, <1>5, <2>1 DEF Used, Left, TakenSize, Splits
    <2>5. w \in Block /\ warmCodeAlloc =< w.start /\ BlockEnd(w) = top
      BY <1>1, <1>5, <2>1, <2>2, <2>3 DEF Block, BlockEnd
    <2>6. \A b \in freeBlocks \cup inUse : Disjoint(w, b)
      BY <1>2, <1>3, <2>3, <2>5 DEF Disjoint, Block, BlockEnd
    <2>7. top \in Nat /\ warmCodeAlloc =< top /\ CodeBase =< w.start /\ w.size >= FreeBlockSize
      BY <1>1, <1>2, <1>5, <2>1, <2>2, <2>3
    <2> QED BY <2>3, <2>4, <2>5, <2>6, <2>7
  <1>6. CASE ~WarmIsFree(r) /\ ~(size > 0)
    <2>1. top = warmCodeAlloc /\ used = {} /\ left = {}
      BY <1>1, <1>6 DEF WarmAllocAfter, WarmFromHeap, Used, Left
    <2> QED BY <1>2, <2>1
  <1> QED BY <1>4, <1>5, <1>6

\* The cold part, likewise.
LEMMA ColdPart ==
    ASSUME Inv, NEW r \in Request, ~Refused(r), ~NoRoomForCold(r), NEW c \in ColdChoices(r),
           WarmAllocAfter(r) \in Nat, WarmAllocAfter(r) =< coldCodeAlloc,
           warmCodeAlloc =< WarmAllocAfter(r)
    PROVE  LET used == Used(c, ColdSize(r))
               left == Left(c, ColdSize(r), ColdIsFree(r))
               bottom == ColdAllocAfter(r)
           IN /\ bottom \in Nat /\ WarmAllocAfter(r) =< bottom /\ bottom =< coldCodeAlloc
              /\ used \cup left \subseteq Block
              /\ \A b \in used \cup left :
                   bottom =< b.start /\ BlockEnd(b) =< CodeTop /\ b.size >= FreeBlockSize
              /\ \A a \in used, b \in left : Disjoint(a, b)
              /\ \A a, b \in used : a = b
              /\ \A a, b \in left : a = b
              /\ \A a \in used \cup left :
                   \A b \in (freeBlocks \ Unlinked(c, ColdIsFree(r))) \cup inUse : Disjoint(a, b)
  <1> DEFINE size == ColdSize(r)
             used == Used(c, size)
             left == Left(c, size, ColdIsFree(r))
             bottom == ColdAllocAfter(r)
  <1> USE FreeBlockAssumption, HeapAssumption
  <1>1. size \in Nat /\ (size > 0 => size >= FreeBlockSize)
    BY SizesOfRequest
  <1>2. /\ warmCodeAlloc \in Nat /\ coldCodeAlloc \in Nat
        /\ freeBlocks \subseteq Block /\ inUse \subseteq Block
        /\ warmCodeAlloc =< coldCodeAlloc /\ coldCodeAlloc =< CodeTop
    BY DEF Inv, TypeOK, NoOverlap, PointersOrdered
  <1>3. \A b \in freeBlocks \cup inUse : BlockEnd(b) =< warmCodeAlloc \/ coldCodeAlloc =< b.start
    BY DEF Inv, NoOverlap, BlocksOutsideHole, InWarm, InCold
  <1>4. CASE ColdIsFree(r)
    <2>1. c \in freeBlocks /\ c.start >= coldCodeAlloc /\ c.size >= size /\ size > 0
      BY <1>1, <1>4 DEF ColdChoices, BestFit, ColdFree, ColdIsFree
    <2>2. c \in Block /\ BlockEnd(c) =< CodeTop
      BY <1>2, <2>1 DEF Inv, NoOverlap, BlocksOutsideHole, BlocksLarge, InWarm, InCold, Block, BlockEnd
    <2>3. bottom = coldCodeAlloc
      BY <1>4 DEF ColdAllocAfter, ColdFromHeap
    <2>4. \A b \in (freeBlocks \ {c}) \cup inUse : b \in Block /\ Disjoint(c, b)
      BY <1>2, <2>1 DEF Inv, NoOverlap, FreeBlocksDisjoint, UsedBlocksNotFree, Disjoint
    <2>5. used = {[start |-> c.start, size |-> TakenSize(c, size)]}
      BY <2>1 DEF Used
    <2>6. left = IF Splits(c, size)
                 THEN {[start |-> c.start + size, size |-> c.size - size]} ELSE {}
      BY <1>4 DEF Left, LeftBlock
    <2>7. Unlinked(c, ColdIsFree(r)) = {c}
      BY <1>4 DEF Unlinked
    <2>8. used \cup left \subseteq Block
      BY <1>1, <2>1, <2>2, <2>5, <2>6 DEF Block, Splits, TakenSize
    <2>9. \A b \in used \cup left :
            c.start =< b.start /\ BlockEnd(b) =< BlockEnd(c) /\ b.size >= FreeBlockSize
      BY <1>1, <2>1, <2>2, <2>5, <2>6 DEF Block, BlockEnd, Splits, TakenSize
    <2>10. \A a \in used, b \in left : Disjoint(a, b)
      BY <1>1, <2>1, <2>2, <2>5, <2>6 DEF Block, BlockEnd, Splits, TakenSize, Disjoint
    <2>11. \A a \in used \cup left : \A b \in (freeBlocks \ {c}) \cup inUse : Disjoint(a, b)
      BY <2>2, <2>4, <2>8, <2>9 DEF Disjoint, BlockEnd, Block
    <2>12. \A b \in used \cup left : bottom =< b.start /\ BlockEnd(b) =< CodeTop
      BY <1>2, <2>1, <2>2, <2>3, <2>8, <2>9 DEF BlockEnd, Block
    <2>13. (\A a, b \in used : a = b) /\ (\A a, b \in left : a = b)
      BY <2>5, <2>6
    <2> QED BY <1>2, <2>3, <2>7, <2>8, <2>9, <2>10, <2>11, <2>12, <2>13
  <1>5. CASE ~ColdIsFree(r) /\ size > 0
    <2>1. c = [start |-> bottom, size |-> size]
      BY <1>5 DEF ColdChoices
    <2>2. bottom = RoundDown(coldCodeAlloc - size) /\ WarmAllocAfter(r) =< bottom
          /\ bottom + size =< coldCodeAlloc /\ bottom \in Nat
      BY <1>1, <1>2, <1>5, RoundDownBounds DEF ColdAllocAfter, ColdFromHeap, NoRoomForCold
    <2>3. used = {c} /\ left = {}
      BY <1>1, <1>5, <2>1 DEF Used, Left, TakenSize, Splits
    <2>4. c \in Block /\ c.start = bottom /\ BlockEnd(c) =< coldCodeAlloc
      BY <1>1, <1>5, <2>1, <2>2 DEF Block, BlockEnd
    <2>5. \A b \in freeBlocks \cup inUse : Disjoint(c, b)
      BY <1>2, <1>3, <2>2, <2>4 DEF Disjoint, Block, BlockEnd
    <2>6. bottom =< coldCodeAlloc /\ BlockEnd(c) =< CodeTop /\ c.size >= FreeBlockSize
      BY <1>1, <1>2, <1>5, <2>1, <2>2, <2>4 DEF BlockEnd
    <2> QED BY <2>2, <2>3, <2>4, <2>5, <2>6
  <1>6. CASE ~ColdIsFree(r) /\ ~(size > 0)
    <2>1. bottom = coldCodeAlloc /\ used = {} /\ left = {}
      BY <1>1, <1>6 DEF ColdAllocAfter, ColdFromHeap, Used, Left
    <2> QED BY <1>2, <2>1
  <1> QED BY <1>4, <1>5, <1>6

\* The cached size stays a number when a block is taken off the list.
LEMMA LargestAfterType ==
    ASSUME Inv, NEW blocks, blocks \subseteq freeBlocks, NEW f \in blocks,
           NEW size \in Nat, size =< f.size, NEW largest \in Nat
    PROVE  LargestAfter(blocks, f, size, largest) \in Nat
  <1> DEFINE rest == (blocks \ {f}) \cup LeftBlock(f, size)
  <1>1. \A b \in freeBlocks : b \in Block /\ b.size =< CodeTop
    BY HeapAssumption
    DEF Inv, TypeOK, NoOverlap, BlocksOutsideHole, PointersOrdered, InWarm, InCold, BlockEnd, Block
  <1>2. f \in Block /\ f.size =< CodeTop
    BY <1>1
  <1>3. \A b \in LeftBlock(f, size) : b \in Block /\ b.size =< CodeTop
    BY <1>2, HeapAssumption, FreeBlockAssumption DEF LeftBlock, Splits, Block
  <1>4. rest \subseteq Block /\ \A b \in rest : b.size =< CodeTop
    BY <1>1, <1>3
  <1>5. MaxSize(rest) \in Nat
    BY <1>4, MaxSizeIsMax, HeapAssumption
  <1> QED BY <1>5 DEF LargestAfter

\* A granted request preserves the invariant.
LEMMA AllocateStep ==
    ASSUME Inv, NEW r \in Request, Allocate(r)
    PROVE  Inv'
  <1>1. ~Refused(r) /\ ~NoRoomForCold(r)
    BY DEF Allocate
  <1>2. PICK w \in WarmChoices(r), c \in ColdChoices(r) :
         /\ freeBlocks' = (freeBlocks \ (Unlinked(w, WarmIsFree(r)) \cup Unlinked(c, ColdIsFree(r))))
                          \cup Left(w, WarmSize(r), WarmIsFree(r))
                          \cup Left(c, ColdSize(r), ColdIsFree(r))
         /\ largestWarm' = IF WarmIsFree(r)
                           THEN LargestAfter(WarmFree, w, WarmSize(r), largestWarm)
                           ELSE largestWarm
         /\ largestCold' = IF ColdIsFree(r)
                           THEN LargestAfter(ColdFree, c, ColdSize(r), largestCold)
                           ELSE largestCold
         /\ inUse' = inUse \cup Used(w, WarmSize(r)) \cup Used(c, ColdSize(r))
    BY DEF Allocate
  <1> DEFINE warmNew == Used(w, WarmSize(r)) \cup Left(w, WarmSize(r), WarmIsFree(r))
             coldNew == Used(c, ColdSize(r)) \cup Left(c, ColdSize(r), ColdIsFree(r))
             kept == freeBlocks \ (Unlinked(w, WarmIsFree(r)) \cup Unlinked(c, ColdIsFree(r)))
  <1>3. /\ warmCodeAlloc' \in Nat /\ warmCodeAlloc =< warmCodeAlloc' /\ warmCodeAlloc' =< coldCodeAlloc
        /\ warmNew \subseteq Block
        /\ \A b \in warmNew :
             CodeBase =< b.start /\ BlockEnd(b) =< warmCodeAlloc' /\ b.size >= FreeBlockSize
        /\ \A a \in Used(w, WarmSize(r)), b \in Left(w, WarmSize(r), WarmIsFree(r)) : Disjoint(a, b)
        /\ \A a, b \in Used(w, WarmSize(r)) : a = b
        /\ \A a, b \in Left(w, WarmSize(r), WarmIsFree(r)) : a = b
        /\ \A a \in warmNew : \A b \in kept \cup inUse : Disjoint(a, b)
    BY <1>1, WarmPart DEF Allocate
  <1>4. /\ coldCodeAlloc' \in Nat /\ warmCodeAlloc' =< coldCodeAlloc' /\ coldCodeAlloc' =< coldCodeAlloc
        /\ coldNew \subseteq Block
        /\ \A b \in coldNew :
             coldCodeAlloc' =< b.start /\ BlockEnd(b) =< CodeTop /\ b.size >= FreeBlockSize
        /\ \A a \in Used(c, ColdSize(r)), b \in Left(c, ColdSize(r), ColdIsFree(r)) : Disjoint(a, b)
        /\ \A a, b \in Used(c, ColdSize(r)) : a = b
        /\ \A a, b \in Left(c, ColdSize(r), ColdIsFree(r)) : a = b
        /\ \A a \in coldNew : \A b \in kept \cup inUse : Disjoint(a, b)
    BY <1>1, <1>3, ColdPart DEF Allocate
  <1>5. \A a \in warmNew, b \in coldNew : Disjoint(a, b)
    BY <1>3, <1>4 DEF Disjoint, BlockEnd, Block
  <1>6. \A a, b : Disjoint(a, b) = Disjoint(b, a)
    BY Zenon DEF Disjoint
  <1>7. TypeOK'
    <2>1. freeBlocks' \subseteq Block /\ inUse' \subseteq Block
      BY <1>2, <1>3, <1>4 DEF Inv, TypeOK
    <2>2. largestWarm' \in Nat
      <3>1. CASE WarmIsFree(r)
        <4>1. w \in WarmFree /\ WarmSize(r) \in Nat /\ WarmSize(r) =< w.size
          BY <3>1, SizesOfRequest DEF WarmChoices, BestFit, Inv, TypeOK, Block
        <4> QED BY <1>2, <3>1, <4>1, LargestAfterType DEF Inv, TypeOK, WarmFree
      <3>2. CASE ~WarmIsFree(r)
        BY <1>2, <3>2 DEF Inv, TypeOK
      <3> QED BY <3>1, <3>2
    <2>3. largestCold' \in Nat
      <3>1. CASE ColdIsFree(r)
        <4>1. c \in ColdFree /\ ColdSize(r) \in Nat /\ ColdSize(r) =< c.size
          BY <3>1, SizesOfRequest DEF ColdChoices, BestFit, Inv, TypeOK, Block
        <4> QED BY <1>2, <3>1, <4>1, LargestAfterType DEF Inv, TypeOK, ColdFree
      <3>2. CASE ~ColdIsFree(r)
        BY <1>2, <3>2 DEF Inv, TypeOK
      <3> QED BY <3>1, <3>2
    <2>4. repositoryFree' \in Int
      BY <1>3, <1>4 DEF Allocate, Inv, TypeOK
    <2> QED BY <1>3, <1>4, <2>1, <2>2, <2>3, <2>4 DEF TypeOK
  <1>8. PointersOrdered'
    BY <1>3, <1>4, HeapAssumption DEF Inv, TypeOK, NoOverlap, PointersOrdered
  <1>9. BlocksOutsideHole'
    <2>1. \A b \in kept \cup inUse : b \in Block /\ (InWarm(b) \/ InCold(b))
      BY DEF Inv, TypeOK, NoOverlap, BlocksOutsideHole
    <2>2. \A b \in kept \cup inUse : InWarm(b)' \/ InCold(b)'
      BY <1>3, <1>4, <2>1, HeapAssumption DEF InWarm, InCold, BlockEnd, Block, Inv, TypeOK
    <2>3. \A b \in warmNew \cup coldNew : InWarm(b)' \/ InCold(b)'
      BY <1>3, <1>4 DEF InWarm, InCold, BlockEnd
    <2> QED BY <1>2, <2>2, <2>3 DEF BlocksOutsideHole, InWarm, InCold, BlockEnd
  <1>10. FreeBlocksDisjoint'
    <2>1. \A a, b \in kept : a # b => Disjoint(a, b)
      BY DEF Inv, NoOverlap, FreeBlocksDisjoint
    <2> QED BY <1>2, <1>3, <1>4, <1>5, <1>6, <2>1 DEF FreeBlocksDisjoint
  <1>11. UsedBlocksDisjoint'
    <2>1. \A a, b \in inUse : a # b => Disjoint(a, b)
      BY DEF Inv, NoOverlap, UsedBlocksDisjoint
    <2> QED BY <1>2, <1>3, <1>4, <1>5, <1>6, <2>1 DEF UsedBlocksDisjoint
  <1>12. UsedBlocksNotFree'
    <2>1. \A a \in inUse, b \in kept : Disjoint(a, b)
      BY DEF Inv, NoOverlap, UsedBlocksNotFree
    <2> QED BY <1>2, <1>3, <1>4, <1>5, <1>6, <2>1 DEF UsedBlocksNotFree
  <1>13. BlocksLarge'
    BY <1>2, <1>3, <1>4 DEF Inv, BlocksLarge
  <1> QED BY <1>7, <1>8, <1>9, <1>10, <1>11, <1>12, <1>13 DEF Inv, NoOverlap

\* The size code is trimmed to.
LEMMA ActualSizeBounds ==
    ASSUME NEW size \in Nat
    PROVE  ActualSize(size) \in Nat /\ ActualSize(size) >= FreeBlockSize
  BY RoundUpBounds, HeaderAssumption, FreeBlockAssumption, AlignAssumption DEF ActualSize

\* Trimming the last warm block preserves the invariant.
LEMMA TrimLastBlockStep ==
    ASSUME Inv, NEW b \in inUse, NEW size \in TrimSizes, TrimLastBlock(b, size)
    PROVE  Inv'
  <1> DEFINE new == Trimmed(b, size)
  <1>1. b \in Block /\ freeBlocks \subseteq Block /\ inUse \subseteq Block
        /\ warmCodeAlloc \in Nat /\ coldCodeAlloc \in Nat
    BY DEF Inv, TypeOK
  <1>2. ActualSize(size) \in Nat /\ ActualSize(size) >= FreeBlockSize
    BY ActualSizeBounds, SizesAssumption
  <1>3. /\ new \in Block /\ new.start = b.start /\ new.size = ActualSize(size)
        /\ new.size < b.size /\ BlockEnd(b) = warmCodeAlloc
    BY <1>1, <1>2, FreeBlockAssumption DEF TrimLastBlock, CanTrim, Trimmed, Block
  <1>4. /\ warmCodeAlloc' = BlockEnd(new)
        /\ inUse' = (inUse \ {b}) \cup {new}
        /\ UNCHANGED <<coldCodeAlloc, freeBlocks, largestWarm, largestCold>>
        /\ repositoryFree' \in Int
    BY <1>1, <1>2, <1>3 DEF TrimLastBlock, BlockEnd, Block, Inv, TypeOK
  <1>5. warmCodeAlloc' \in Nat /\ warmCodeAlloc' < warmCodeAlloc /\ CodeBase =< warmCodeAlloc'
    BY <1>1, <1>2, <1>3, <1>4, HeapAssumption, FreeBlockAssumption
    DEF BlockEnd, Block, Inv, NoOverlap, BlocksOutsideHole, PointersOrdered, InWarm, InCold
  <1>6. \A x \in freeBlocks \cup (inUse \ {b}) :
           /\ x \in Block /\ x.size >= FreeBlockSize
           /\ Disjoint(x, b) /\ (InWarm(x) \/ InCold(x))
    BY <1>1 DEF Inv, NoOverlap, BlocksOutsideHole, BlocksLarge, UsedBlocksDisjoint, UsedBlocksNotFree, Disjoint
  <1>7. \A x \in freeBlocks \cup (inUse \ {b}) : BlockEnd(x) =< b.start \/ coldCodeAlloc =< x.start
    BY <1>1, <1>3, <1>6, FreeBlockAssumption DEF Disjoint, InWarm, InCold, BlockEnd, Block
  <1>8. \A x \in freeBlocks \cup (inUse \ {b}) : Disjoint(x, new) /\ Disjoint(new, x) /\ (InWarm(x)' \/ InCold(x)')
    BY <1>1, <1>2, <1>3, <1>4, <1>5, <1>6, <1>7, FreeBlockAssumption
    DEF Disjoint, InWarm, InCold, BlockEnd, Block, Inv, NoOverlap, PointersOrdered
  <1>9. InWarm(new)'
    BY <1>1, <1>3, <1>4, <1>6, FreeBlockAssumption, HeapAssumption
    DEF InWarm, InCold, BlockEnd, Block, Inv, NoOverlap, BlocksOutsideHole, PointersOrdered
  <1>10. TypeOK' /\ PointersOrdered' /\ FreeBlocksDisjoint'
    BY <1>1, <1>3, <1>4, <1>5, HeapAssumption
    DEF Inv, TypeOK, NoOverlap, PointersOrdered, FreeBlocksDisjoint, Disjoint, BlockEnd
  <1>11. BlocksOutsideHole'
    BY <1>4, <1>8, <1>9 DEF BlocksOutsideHole, InWarm, InCold, BlockEnd
  <1>12. UsedBlocksDisjoint' /\ UsedBlocksNotFree'
    BY <1>4, <1>8 DEF UsedBlocksDisjoint, UsedBlocksNotFree, Inv, NoOverlap
  <1>13. BlocksLarge'
    BY <1>2, <1>3, <1>4, <1>6 DEF BlocksLarge
  <1> QED BY <1>10, <1>11, <1>12, <1>13 DEF Inv, NoOverlap

\* Giving bytes of block b back to the list preserves the invariant: b is
\* replaced by the blocks of rest, its head or nothing.
LEMMA GiveBackStep ==
    ASSUME Inv, NEW b \in inUse, NEW from \in Nat, NEW rest,
           b.start =< from, from < BlockEnd(b),
           rest \subseteq Block,
           \A x \in rest : x.start = b.start /\ BlockEnd(x) = from /\ x.size >= FreeBlockSize,
           addFreeBlock2(from, BlockEnd(b)),
           inUse' = (inUse \ {b}) \cup rest,
           UNCHANGED <<warmCodeAlloc, coldCodeAlloc, repositoryFree>>
    PROVE  Inv'
  <1> DEFINE stay == (inUse \ {b}) \cup rest
  <1>1. b \in Block /\ freeBlocks \subseteq Block /\ inUse \subseteq Block
        /\ warmCodeAlloc \in Nat /\ coldCodeAlloc \in Nat /\ BlockEnd(b) \in Nat
    BY DEF Inv, TypeOK, Block, BlockEnd
  <1>2. \A x \in freeBlocks \cup (inUse \ {b}) : x \in Block /\ Disjoint(x, b) /\ x.size >= FreeBlockSize
    BY <1>1 DEF Inv, NoOverlap, BlocksLarge, UsedBlocksDisjoint, UsedBlocksNotFree, Disjoint
  <1>3. InWarm(b) \/ InCold(b)
    BY DEF Inv, NoOverlap, BlocksOutsideHole
  <1>4. \A x \in rest : \A y \in freeBlocks \cup (inUse \ {b}) : Disjoint(x, y) /\ Disjoint(y, x)
    BY <1>1, <1>2 DEF Disjoint, Block, BlockEnd
  <1>5. \A x, y \in rest : x = y
    BY DEF Block, BlockEnd
  <1>6. /\ stay \subseteq Block
        /\ \A x \in stay : x.size >= FreeBlockSize /\ \A f \in freeBlocks : Disjoint(x, f)
    BY <1>1, <1>2, <1>4 DEF Inv, NoOverlap, UsedBlocksNotFree
  <1>7. \A x \in freeBlocks \cup stay : BlockEnd(x) =< from \/ BlockEnd(b) =< x.start
    BY <1>1, <1>2 DEF Disjoint, Block, BlockEnd
  <1>8. \/ CodeBase =< from /\ BlockEnd(b) =< warmCodeAlloc
        \/ coldCodeAlloc =< from /\ BlockEnd(b) =< CodeTop
    BY <1>1, <1>3, HeapAssumption DEF InWarm, InCold, Block
  <1>9. /\ freeBlocks' \subseteq Block
        /\ largestWarm' \in Nat /\ largestCold' \in Nat
        /\ \A f \in freeBlocks' : (InWarm(f) \/ InCold(f)) /\ f.size >= FreeBlockSize
        /\ \A x, y \in freeBlocks' : x # y => Disjoint(x, y)
        /\ \A x \in stay, y \in freeBlocks' : Disjoint(x, y)
    BY <1>1, <1>6, <1>7, <1>8, AddFreeBlock
  <1>10. \A x \in rest : InWarm(x) \/ InCold(x)
    BY <1>1, <1>3, HeapAssumption DEF InWarm, InCold, Block, BlockEnd
  <1>11. TypeOK' /\ PointersOrdered'
    BY <1>6, <1>9 DEF Inv, TypeOK, NoOverlap, PointersOrdered
  <1>12. BlocksOutsideHole'
    BY <1>9, <1>10 DEF Inv, NoOverlap, BlocksOutsideHole, InWarm, InCold, BlockEnd
  <1>13. FreeBlocksDisjoint' /\ UsedBlocksNotFree'
    BY <1>9 DEF FreeBlocksDisjoint, UsedBlocksNotFree
  <1>14. UsedBlocksDisjoint'
    BY <1>4, <1>5 DEF Inv, NoOverlap, UsedBlocksDisjoint
  <1>15. BlocksLarge'
    BY <1>6, <1>9 DEF BlocksLarge
  <1> QED BY <1>11, <1>12, <1>13, <1>14, <1>15 DEF Inv, NoOverlap

\* Trimming any other block preserves the invariant.
LEMMA TrimInnerBlockStep ==
    ASSUME Inv, NEW b \in inUse, NEW size \in TrimSizes, TrimInnerBlock(b, size)
    PROVE  Inv'
  <1> DEFINE new == Trimmed(b, size)
             from == b.start + ActualSize(size)
  <1>1. b \in Block
    BY DEF Inv, TypeOK
  <1>2. ActualSize(size) \in Nat /\ ActualSize(size) >= FreeBlockSize
    BY ActualSizeBounds, SizesAssumption
  <1>3. /\ new \in Block /\ new.start = b.start /\ new.size = ActualSize(size)
        /\ BlockEnd(new) = from /\ from \in Nat /\ b.start =< from /\ from < BlockEnd(b)
    BY <1>1, <1>2, FreeBlockAssumption DEF TrimInnerBlock, CanTrim, Trimmed, Block, BlockEnd
  <1>4. addFreeBlock2(from, BlockEnd(b)) /\ inUse' = (inUse \ {b}) \cup {new}
        /\ UNCHANGED <<warmCodeAlloc, coldCodeAlloc, repositoryFree>>
    BY DEF TrimInnerBlock
  <1> DEFINE rest == {new}
  <1>5. /\ rest \subseteq Block
        /\ \A x \in rest : x.start = b.start /\ BlockEnd(x) = from /\ x.size >= FreeBlockSize
        /\ inUse' = (inUse \ {b}) \cup rest
    BY <1>2, <1>3, <1>4
  <1> HIDE DEF rest, from
  <1> QED BY <1>3, <1>4, <1>5, GiveBackStep

\* Giving a whole block back preserves the invariant.
LEMMA ReclaimStep ==
    ASSUME Inv, NEW b \in inUse, Reclaim(b)
    PROVE  Inv'
  <1>1. b \in Block /\ b.size >= FreeBlockSize
    BY DEF Inv, TypeOK, BlocksLarge
  <1>2. b.start \in Nat /\ b.start =< b.start /\ b.start < BlockEnd(b)
    BY <1>1, FreeBlockAssumption DEF Block, BlockEnd
  <1> DEFINE rest == {}
             from == b.start
  <1>3. /\ rest \subseteq Block
        /\ \A x \in rest : x.start = b.start /\ BlockEnd(x) = from /\ x.size >= FreeBlockSize
    OBVIOUS
  <1>4. /\ addFreeBlock2(from, BlockEnd(b)) /\ inUse' = (inUse \ {b}) \cup rest
        /\ UNCHANGED <<warmCodeAlloc, coldCodeAlloc, repositoryFree>>
    BY DEF Reclaim
  <1> HIDE DEF rest
  <1> QED BY <1>2, <1>3, <1>4, GiveBackStep

\* The invariant holds in an empty cache and in every step.
LEMMA InvInductive ==
    /\ Init => Inv
    /\ Inv /\ [Next]_vars => Inv'
  <1>1. Init => Inv
    BY HeapAssumption, RepositoryAssumption
    DEF Init, Inv, TypeOK, NoOverlap, PointersOrdered, BlocksOutsideHole, FreeBlocksDisjoint,
        UsedBlocksDisjoint, UsedBlocksNotFree, BlocksLarge
  <1>2. ASSUME Inv, [Next]_vars PROVE Inv'
    <2> USE <1>2
    <2>1. ASSUME NEW r \in Request, Allocate(r) PROVE Inv'
      BY <2>1, AllocateStep
    <2>2. ASSUME NEW b \in inUse, Reclaim(b) PROVE Inv'
      BY <2>2, ReclaimStep
    <2>3. ASSUME NEW b \in inUse, NEW size \in TrimSizes, TrimLastBlock(b, size) PROVE Inv'
      BY <2>3, TrimLastBlockStep
    <2>4. ASSUME NEW b \in inUse, NEW size \in TrimSizes, TrimInnerBlock(b, size) PROVE Inv'
      BY <2>4, TrimInnerBlockStep
    <2>5. CASE UNCHANGED vars
      BY <2>5 DEF vars, Inv, TypeOK, NoOverlap, PointersOrdered, BlocksOutsideHole,
         FreeBlocksDisjoint, UsedBlocksDisjoint, UsedBlocksNotFree, BlocksLarge,
         InWarm, InCold, Disjoint, BlockEnd
    <2>6. ASSUME NEW r \in Request, AllocateRefused(r) PROVE Inv'
      BY <2>5, <2>6 DEF AllocateRefused
    <2> QED BY <2>1, <2>2, <2>3, <2>4, <2>5, <2>6 DEF Next
  <1> QED BY <1>1, <1>2

\* Every variable of the code cache keeps its type.
THEOREM TypeCorrect == Spec => []TypeOK
  BY InvInductive, PTL DEF Spec, Inv

\* Whatever is allocated, trimmed and reclaimed, in whatever order: no two
\* compiled bodies share a byte, none of them lies on the free list, and none
\* reaches into the hole from which the next body is cut.
THEOREM BlocksNeverOverlap == Spec => []NoOverlap
  BY InvInductive, PTL DEF Spec, Inv

-----------------------------------------------------------------------------
(***************************************************************************)
(* What follows once the code cache is known to be aligned: no byte is     *)
(* lost, requests are refused only when they must be, the free list is     *)
(* exact, and the cache keeps the promise of CodeStore.                    *)
(***************************************************************************)

(* Multiples of the alignment *)

Aligned(n) == n % Align = 0

\* A number is aligned if and only if it is a multiple of the alignment.
LEMMA AlignedIsMultiple ==
    ASSUME NEW n \in Int
    PROVE  Aligned(n) <=> \E k \in Int : n = Align * k
  <1> DEFINE q == n \div Align
  <1>1. q \in Int /\ n % Align \in 0..(Align - 1) /\ n = Align * q + (n % Align)
    BY DivMod
  <1>2. ASSUME Aligned(n) PROVE \E k \in Int : n = Align * k
    <2>1. n % Align = 0
      BY <1>2 DEF Aligned
    <2>2. n = Align * q
      BY <1>1, <2>1, AlignAssumption
    <2> QED BY <1>1, <2>2
  <1>3. ASSUME NEW k \in Int, n = Align * k PROVE Aligned(n)
    <2> DEFINE d == k - q
    <2>1. d \in Int /\ Align * d = n % Align
      BY <1>1, <1>3, AlignAssumption
    <2>2. CASE d >= 1
      BY <1>1, <2>1, <2>2, MultipleAtLeast, AlignAssumption
    <2>3. CASE d =< -1
      <3>1. Align * (-d) >= Align
        BY <2>1, <2>3, MultipleAtLeast
      <3>2. Align * d = -(Align * (-d))
        BY <2>1, AlignAssumption
      <3> QED BY <1>1, <2>1, <3>1, <3>2, AlignAssumption
    <2>4. CASE d = 0
      BY <2>1, <2>4, AlignAssumption DEF Aligned
    <2> QED BY <2>1, <2>2, <2>3, <2>4
  <1> QED BY <1>2, <1>3

\* Sums and differences of aligned numbers are aligned.
LEMMA AlignedSum ==
    ASSUME NEW a \in Int, NEW b \in Int, Aligned(a), Aligned(b)
    PROVE  Aligned(a + b) /\ Aligned(a - b)
  <1>1. PICK j \in Int : a = Align * j
    BY AlignedIsMultiple
  <1>2. PICK k \in Int : b = Align * k
    BY AlignedIsMultiple
  <1>3. /\ a + b = Align * (j + k) /\ a - b = Align * (j - k)
        /\ j + k \in Int /\ j - k \in Int /\ a + b \in Int /\ a - b \in Int
    BY <1>1, <1>2, AlignAssumption
  <1> QED BY <1>3, AlignedIsMultiple

\* Different aligned numbers are at least one unit apart.
LEMMA AlignedApart ==
    ASSUME NEW a \in Int, NEW b \in Int, Aligned(a), Aligned(b), a < b
    PROVE  a + Align =< b
  <1>1. PICK k \in Int : b - a = Align * k
    BY AlignedSum, AlignedIsMultiple
  <1>2. CASE k >= 1
    BY <1>1, <1>2, MultipleAtLeast, AlignAssumption
  <1>3. CASE k =< 0
    <2>1. Align * k =< 0
      BY <1>3, AlignAssumption
    <2> QED BY <1>1, <2>1
  <1> QED BY <1>1, <1>2, <1>3

\* Rounding gives aligned numbers and leaves an aligned number alone.
LEMMA RoundingAligns ==
    ASSUME NEW n \in Int
    PROVE  /\ RoundDown(n) \in Int /\ Aligned(RoundDown(n))
           /\ RoundUp(n) \in Int /\ Aligned(RoundUp(n))
           /\ Aligned(n) => RoundDown(n) = n /\ RoundUp(n) = n
  <1>1. \A i \in Int : RoundDown(i) \in Int /\ Aligned(RoundDown(i))
    <2> SUFFICES ASSUME NEW i \in Int PROVE RoundDown(i) \in Int /\ Aligned(RoundDown(i))
      OBVIOUS
    <2>1. i \div Align \in Int /\ i % Align \in Int /\ RoundDown(i) = Align * (i \div Align)
      BY DivMod, AlignAssumption DEF RoundDown
    <2>2. RoundDown(i) \in Int
      BY <2>1, RoundDownBounds
    <2> QED BY <2>1, <2>2, AlignedIsMultiple
  <1>2. RoundUp(n) \in Int /\ Aligned(RoundUp(n))
    BY <1>1, AlignAssumption DEF RoundUp
  <1>3. ASSUME Aligned(n) PROVE RoundDown(n) = n /\ RoundUp(n) = n
    <2>1. RoundDown(n) = n
      BY <1>3 DEF RoundDown, Aligned
    <2>2. RoundUp(n) =< n + Align - 1 /\ n - 1 < RoundUp(n)
      BY RoundDownBounds, AlignAssumption DEF RoundUp
    <2>3. ~(n < RoundUp(n))
      BY <1>2, <1>3, <2>2, AlignedApart, AlignAssumption
    <2> QED BY <1>2, <2>1, <2>2, <2>3
  <1> QED BY <1>1, <1>2, <1>3

-----------------------------------------------------------------------------
(* The inductive invariant *)

AlignedBlock(b) == Aligned(b.start) /\ Aligned(b.size)

\* Both edges of the hole and both ends of every block are aligned.
AlignedHeap ==
    /\ Aligned(warmCodeAlloc) /\ Aligned(coldCodeAlloc)
    /\ \A b \in freeBlocks \cup inUse : AlignedBlock(b)

HeapInv == Inv /\ AlignedHeap

\* The adjusted sizes of requests and trims are aligned.
LEMMA SizesAligned ==
    /\ Aligned(0)
    /\ \A r \in Request : Aligned(WarmSize(r)) /\ Aligned(ColdSize(r))
    /\ \A size \in TrimSizes : Aligned(ActualSize(size))
  <1>1. Aligned(0)
    <2>1. 0 = Align * 0
      BY AlignAssumption
    <2> QED BY <2>1, AlignedIsMultiple
  <1>2. \A n \in Nat : Aligned(AdjustSize(n)) /\ Aligned(ActualSize(n))
    BY <1>1, RoundingAligns, HeaderAssumption DEF AdjustSize, ActualSize
  <1>3. \A r \in Request : /\ r.warm + (IF r.contiguous THEN r.cold ELSE 0) \in Nat
                           /\ (IF r.contiguous THEN 0 ELSE r.cold) \in Nat
    <2> SUFFICES ASSUME NEW r \in Request
                 PROVE  /\ r.warm + (IF r.contiguous THEN r.cold ELSE 0) \in Nat
                        /\ (IF r.contiguous THEN 0 ELSE r.cold) \in Nat
      OBVIOUS
    <2>1. r.warm \in Nat /\ r.cold \in Nat /\ r.contiguous \in BOOLEAN
      BY SizesAssumption DEF Request
    <2> QED BY <2>1
  <1> QED BY <1>1, <1>2, <1>3, SizesAssumption DEF WarmSize, ColdSize

\* What HeapInv says of the single block.
LEMMA BlockFacts ==
    ASSUME HeapInv
    PROVE  /\ warmCodeAlloc \in Nat /\ coldCodeAlloc \in Nat
           /\ CodeBase =< warmCodeAlloc /\ warmCodeAlloc =< coldCodeAlloc /\ coldCodeAlloc =< CodeTop
           /\ \A b \in freeBlocks \cup inUse :
                /\ b \in Block /\ BlockEnd(b) \in Nat /\ b.start < BlockEnd(b)
                /\ Aligned(b.start) /\ Aligned(b.size) /\ Aligned(BlockEnd(b))
                /\ InWarm(b) \/ InCold(b)
  <1>1. \A b \in freeBlocks \cup inUse : b \in Block /\ (InWarm(b) \/ InCold(b))
    BY DEF HeapInv, Inv, TypeOK, NoOverlap, BlocksOutsideHole
  <1>2. \A b \in freeBlocks \cup inUse : BlockEnd(b) \in Nat /\ b.start < BlockEnd(b)
    BY <1>1 DEF Block, BlockEnd
  <1>3. \A b \in freeBlocks \cup inUse : Aligned(b.start) /\ Aligned(b.size)
    BY DEF HeapInv, AlignedHeap, AlignedBlock
  <1>4. \A b \in freeBlocks \cup inUse : Aligned(BlockEnd(b))
    BY <1>1, <1>3, AlignedSum DEF Block, BlockEnd
  <1> QED BY <1>1, <1>2, <1>3, <1>4 DEF HeapInv, Inv, TypeOK, NoOverlap, PointersOrdered

\* The bytes from..end and the free blocks gone, which touch them, become the
\* free block low..high; a block that touches them and stays is of the other
\* kind of code.
FreedAs(from, end, low, high, gone) ==
    /\ Aligned(low) /\ Aligned(high) /\ low =< from /\ end =< high
    /\ freeBlocks' = (freeBlocks \ gone) \cup {[start |-> low, size |-> high - low]}
    /\ updateMaxSizeOfFreeBlocks([start |-> low, size |-> high - low])
    /\ \A g \in gone : \/ g.start = low /\ BlockEnd(g) = from
                       \/ g.start = end /\ BlockEnd(g) = high
    /\ low = from \/ \E g \in gone : g.start = low /\ BlockEnd(g) = from
    /\ high = end \/ \E g \in gone : g.start = end /\ BlockEnd(g) = high
    /\ \A f \in freeBlocks \ gone : BlockEnd(f) = from => WarmThenCold(f.start, from)
    /\ \A f \in freeBlocks \ gone : f.start = end => WarmThenCold(from, end)

\* What addFreeBlock2 does to an aligned list: it joins the bytes with the
\* neighbours that touch them, none or one on each side.
LEMMA FreedBlock ==
    ASSUME HeapInv,
           NEW from \in Nat, NEW end \in Nat, Aligned(from), Aligned(end), from < end,
           \A f \in freeBlocks : BlockEnd(f) =< from \/ end =< f.start,
           addFreeBlock2(from, end)
    PROVE  \E low, high \in Nat, gone \in SUBSET freeBlocks : FreedAs(from, end, low, high, gone)
  <1> DEFINE before == JoinedBefore(from)
             after == JoinedAfter(from, end)
             new == JoinedBlock(from, end)
  <1> USE FreeBlockAssumption, AlignAssumption
  <1>1. RoundUp(from) = from
    BY RoundingAligns
  <1>2. ~(end =< from + FreeBlockSize)
    BY AlignedApart
  <1>3. freeBlocks' = (freeBlocks \ (before \cup after)) \cup {new} /\ updateMaxSizeOfFreeBlocks(new)
    BY <1>1, <1>2 DEF addFreeBlock2
  <1>4. \A f \in freeBlocks : /\ f \in Block /\ BlockEnd(f) \in Nat /\ f.start < BlockEnd(f)
                              /\ Aligned(f.start) /\ Aligned(BlockEnd(f))
    BY BlockFacts
  <1>5. \A f, g \in freeBlocks : f # g => BlockEnd(f) =< g.start \/ BlockEnd(g) =< f.start
    BY DEF HeapInv, Inv, NoOverlap, FreeBlocksDisjoint, Disjoint
  <1>6. \A f \in before : f \in freeBlocks /\ BlockEnd(f) = from
    <2> SUFFICES ASSUME NEW f \in before PROVE f \in freeBlocks /\ BlockEnd(f) = from
      OBVIOUS
    <2>1. f \in freeBlocks /\ from - BlockEnd(f) \in 0..(FreeBlockSize - 1)
      BY DEF JoinedBefore, BlockBefore
    <2>2. ~(BlockEnd(f) < from)
      BY <1>4, <2>1, AlignedApart
    <2> QED BY <1>4, <2>1, <2>2
  <1>7. \A f \in after : f \in freeBlocks /\ f.start = end
    <2> SUFFICES ASSUME NEW f \in after PROVE f \in freeBlocks /\ f.start = end
      OBVIOUS
    <2>1. f \in freeBlocks /\ f.start - end \in 0..(FreeBlockSize - 1)
      BY DEF JoinedAfter, BlockAfter
    <2>2. ~(end < f.start) /\ f.start \in Nat
      BY <1>4, <2>1, AlignedApart DEF Block
    <2> QED BY <2>1, <2>2
  <1>8. PICK low \in Nat :
          /\ low = IF before = {} THEN from ELSE (CHOOSE f \in before : TRUE).start
          /\ low =< from /\ Aligned(low)
          /\ (low = from /\ before = {}) \/ \E g \in before : g.start = low
    <2>1. CASE before = {}
      BY <2>1
    <2>2. CASE before # {}
      <3>1. PICK f \in before : f = CHOOSE g \in before : TRUE
        BY <2>2
      <3>2. f.start \in Nat /\ f.start =< from /\ Aligned(f.start)
        BY <1>4, <1>6, <3>1 DEF Block
      <3> QED BY <2>2, <3>1, <3>2
    <2> QED BY <2>1, <2>2
  <1>9. PICK high \in Nat :
          /\ high = IF after = {} THEN end ELSE BlockEnd(CHOOSE f \in after : TRUE)
          /\ end =< high /\ Aligned(high)
          /\ (high = end /\ after = {}) \/ \E g \in after : BlockEnd(g) = high
    <2>1. CASE after = {}
      BY <2>1
    <2>2. CASE after # {}
      <3>1. PICK f \in after : f = CHOOSE g \in after : TRUE
        BY <2>2
      <3>2. BlockEnd(f) \in Nat /\ end =< BlockEnd(f) /\ Aligned(BlockEnd(f))
        BY <1>4, <1>7, <3>1
      <3> QED BY <2>2, <3>1, <3>2
    <2> QED BY <2>1, <2>2
  <1>10. new = [start |-> low, size |-> high - low]
    BY <1>8, <1>9 DEF JoinedBlock
  <1>11. \A f \in before : f.start = low
    BY <1>4, <1>5, <1>6, <1>8
  <1>12. \A f \in after : BlockEnd(f) = high
    BY <1>4, <1>5, <1>7, <1>9
  <1>13. ASSUME NEW f \in freeBlocks, f \notin before, BlockEnd(f) = from
         PROVE  WarmThenCold(f.start, from)
    <2>1. f.start < from /\ from - BlockEnd(f) \in 0..(FreeBlockSize - 1)
      BY <1>4, <1>13
    <2>2. \A g \in freeBlocks : g.start < from => g.start =< f.start
      BY <1>4, <1>5, <1>13 DEF Block
    <2>3. f \in BlockBefore(from)
      BY <2>1, <2>2 DEF BlockBefore
    <2> QED BY <1>13, <2>1, <2>3 DEF JoinedBefore
  <1>14. ASSUME NEW f \in freeBlocks, f \notin after, f.start = end
         PROVE  WarmThenCold(from, end)
    <2>1. f.start >= from /\ f.start - end \in 0..(FreeBlockSize - 1)
      BY <1>14
    <2>2. \A g \in freeBlocks : g.start >= from => f.start =< g.start
      BY <1>4, <1>14 DEF Block
    <2>3. f \in BlockAfter(from)
      BY <2>1, <2>2 DEF BlockAfter
    <2> QED BY <1>14, <2>1, <2>3 DEF JoinedAfter
  <1>15. before \cup after \in SUBSET freeBlocks
    BY <1>6, <1>7
  <1> HIDE DEF before, after, new
  <1>16. /\ \A g \in before \cup after : \/ g.start = low /\ BlockEnd(g) = from
                                         \/ g.start = end /\ BlockEnd(g) = high
         /\ low = from \/ \E g \in before \cup after : g.start = low /\ BlockEnd(g) = from
         /\ high = end \/ \E g \in before \cup after : g.start = end /\ BlockEnd(g) = high
    BY <1>6, <1>7, <1>8, <1>9, <1>11, <1>12
  <1>17. /\ \A f \in freeBlocks \ (before \cup after) : BlockEnd(f) = from => WarmThenCold(f.start, from)
         /\ \A f \in freeBlocks \ (before \cup after) : f.start = end => WarmThenCold(from, end)
    BY <1>13, <1>14
  <1> WITNESS low \in Nat, high \in Nat, (before \cup after) \in SUBSET freeBlocks
  <1> QED BY <1>3, <1>8, <1>9, <1>10, <1>16, <1>17 DEF FreedAs

-----------------------------------------------------------------------------
(* Allocation *)

Covers(b, a) == b.start =< a /\ a < BlockEnd(b)

\* Taking size bytes of a free block: both parts are aligned and together
\* cover the block.
LEMMA TakenBlock ==
    ASSUME NEW f \in Block, AlignedBlock(f), NEW size \in Nat, Aligned(size),
           0 < size, size =< f.size
    PROVE  /\ \A b \in Used(f, size) \cup LeftBlock(f, size) : b \in Block /\ AlignedBlock(b)
           /\ \A a \in Int : Covers(f, a) =>
                \E b \in Used(f, size) \cup LeftBlock(f, size) : Covers(b, a)
           /\ \A b \in LeftBlock(f, size) : BlockEnd(b) = BlockEnd(f) /\ b.start = f.start + size
           /\ \A b \in LeftBlock(f, size) : b.size < f.size
  <1> USE FreeBlockAssumption
  <1>1. Used(f, size) = {[start |-> f.start, size |-> TakenSize(f, size)]}
    BY DEF Used
  <1>2. f.start \in Nat /\ f.size \in Nat /\ Aligned(f.start) /\ Aligned(f.size)
    BY DEF Block, AlignedBlock
  <1>3. Aligned(f.start + size) /\ Aligned(f.size - size)
    <2>1. f.start \in Int /\ f.size \in Int /\ size \in Int
      BY <1>2
    <2> QED BY ONLY <1>2, <2>1, Aligned(size), AlignedSum
  <1>4. CASE Splits(f, size)
    <2>1. /\ LeftBlock(f, size) = {[start |-> f.start + size, size |-> f.size - size]}
          /\ TakenSize(f, size) = size /\ f.size - size > 0
      BY <1>2, <1>4 DEF LeftBlock, TakenSize, Splits
    <2> QED BY <1>1, <1>2, <1>3, <2>1 DEF Block, AlignedBlock, Covers, BlockEnd
  <1>5. CASE ~Splits(f, size)
    <2>1. LeftBlock(f, size) = {} /\ TakenSize(f, size) = f.size
      BY <1>5 DEF LeftBlock, TakenSize
    <2> QED BY <1>1, <1>2, <2>1 DEF Block, AlignedBlock, Covers, BlockEnd
  <1> QED BY <1>4, <1>5

\* The warm part of a request: aligned, and the bytes that leave the hole or
\* the list are those of the block in use and of what is left.
LEMMA WarmExact ==
    ASSUME HeapInv, NEW r \in Request, NEW w \in WarmChoices(r)
    PROVE  LET new == Used(w, WarmSize(r)) \cup Left(w, WarmSize(r), WarmIsFree(r))
           IN /\ WarmAllocAfter(r) = IF WarmFromHeap(r) THEN warmCodeAlloc + WarmSize(r)
                                     ELSE warmCodeAlloc
              /\ Aligned(WarmAllocAfter(r))
              /\ \A b \in new : AlignedBlock(b)
              /\ \A a \in Int :
                   \/ warmCodeAlloc =< a /\ a < WarmAllocAfter(r)
                   \/ \E f \in Unlinked(w, WarmIsFree(r)) : Covers(f, a)
                   => \E b \in new : Covers(b, a)
              /\ WarmIsFree(r) => w \in WarmFree /\ WarmSize(r) =< w.size /\ WarmSize(r) > 0
  <1> DEFINE size == WarmSize(r)
             new == Used(w, size) \cup Left(w, size, WarmIsFree(r))
  <1>1. size \in Nat /\ Aligned(size)
    BY SizesOfRequest, SizesAligned
  <1>2. warmCodeAlloc \in Nat /\ Aligned(warmCodeAlloc) /\ RoundUp(warmCodeAlloc) = warmCodeAlloc
    BY RoundingAligns DEF HeapInv, AlignedHeap, Inv, TypeOK
  <1>3. Aligned(warmCodeAlloc + size)
    BY <1>1, <1>2, AlignedSum
  <1>4. CASE WarmIsFree(r)
    <2>1. w \in WarmFree /\ w \in freeBlocks /\ size =< w.size /\ size > 0
      BY <1>1, <1>4, BlockFacts DEF WarmChoices, BestFit, WarmFree, WarmIsFree, Block
    <2>2. w \in Block /\ AlignedBlock(w)
      BY <2>1, BlockFacts DEF AlignedBlock
    <2>3. new = Used(w, size) \cup LeftBlock(w, size) /\ Unlinked(w, WarmIsFree(r)) = {w}
          /\ WarmAllocAfter(r) = warmCodeAlloc /\ ~WarmFromHeap(r)
      BY <1>4 DEF Left, Unlinked, WarmAllocAfter, WarmFromHeap
    <2> QED BY <1>1, <1>2, <2>1, <2>2, <2>3, TakenBlock
  <1>5. CASE ~WarmIsFree(r) /\ size > 0
    <2>1. /\ w = [start |-> warmCodeAlloc, size |-> size]
          /\ WarmFromHeap(r) /\ WarmAllocAfter(r) = warmCodeAlloc + size
          /\ Unlinked(w, WarmIsFree(r)) = {}
      BY <1>2, <1>5 DEF WarmChoices, WarmAllocAfter, WarmFromHeap, Unlinked
    <2>2. new = {w}
      BY <1>1, <1>5, <2>1 DEF Used, Left, TakenSize, Splits
    <2> QED BY <1>1, <1>2, <1>3, <1>5, <2>1, <2>2 DEF AlignedBlock, Covers, BlockEnd
  <1>6. CASE ~WarmIsFree(r) /\ ~(size > 0)
    <2>1. ~WarmFromHeap(r) /\ WarmAllocAfter(r) = warmCodeAlloc
          /\ Unlinked(w, WarmIsFree(r)) = {} /\ new = {}
      BY <1>1, <1>6 DEF WarmAllocAfter, WarmFromHeap, Unlinked, Used, Left
    <2> QED BY <1>2, <1>6, <2>1
  <1> QED BY <1>4, <1>5, <1>6

\* The cold part, likewise.
LEMMA ColdExact ==
    ASSUME HeapInv, NEW r \in Request, NEW c \in ColdChoices(r)
    PROVE  LET new == Used(c, ColdSize(r)) \cup Left(c, ColdSize(r), ColdIsFree(r))
           IN /\ ColdAllocAfter(r) = IF ColdFromHeap(r) THEN coldCodeAlloc - ColdSize(r)
                                     ELSE coldCodeAlloc
              /\ Aligned(ColdAllocAfter(r))
              /\ \A b \in new : AlignedBlock(b)
              /\ \A a \in Int :
                   \/ ColdAllocAfter(r) =< a /\ a < coldCodeAlloc
                   \/ \E f \in Unlinked(c, ColdIsFree(r)) : Covers(f, a)
                   => \E b \in new : Covers(b, a)
              /\ ColdIsFree(r) => c \in ColdFree /\ ColdSize(r) =< c.size /\ ColdSize(r) > 0
  <1> DEFINE size == ColdSize(r)
             new == Used(c, size) \cup Left(c, size, ColdIsFree(r))
  <1>1. size \in Nat /\ Aligned(size)
    BY SizesOfRequest, SizesAligned
  <1>2. coldCodeAlloc \in Nat /\ Aligned(coldCodeAlloc)
    BY DEF HeapInv, AlignedHeap, Inv, TypeOK
  <1>3. Aligned(coldCodeAlloc - size) /\ RoundDown(coldCodeAlloc - size) = coldCodeAlloc - size
    <2> HIDE DEF size
    <2>1. coldCodeAlloc \in Int /\ size \in Int /\ coldCodeAlloc - size \in Int
      BY <1>1, <1>2
    <2>2. Aligned(coldCodeAlloc - size)
      BY ONLY <1>1, <1>2, <2>1, AlignedSum
    <2> QED BY <2>1, <2>2, RoundingAligns
  <1>4. CASE ColdIsFree(r)
    <2>1. c \in ColdFree /\ c \in freeBlocks /\ size =< c.size /\ size > 0
      BY <1>1, <1>4, BlockFacts DEF ColdChoices, BestFit, ColdFree, ColdIsFree, Block
    <2>2. c \in Block /\ AlignedBlock(c)
      BY <2>1, BlockFacts DEF AlignedBlock
    <2>3. new = Used(c, size) \cup LeftBlock(c, size) /\ Unlinked(c, ColdIsFree(r)) = {c}
          /\ ColdAllocAfter(r) = coldCodeAlloc /\ ~ColdFromHeap(r)
      BY <1>4 DEF Left, Unlinked, ColdAllocAfter, ColdFromHeap
    <2> QED BY <1>1, <1>2, <2>1, <2>2, <2>3, TakenBlock
  <1>5. CASE ~ColdIsFree(r) /\ size > 0
    <2>1. /\ c = [start |-> coldCodeAlloc - size, size |-> size]
          /\ ColdFromHeap(r) /\ ColdAllocAfter(r) = coldCodeAlloc - size
          /\ Unlinked(c, ColdIsFree(r)) = {}
      BY <1>3, <1>5 DEF ColdChoices, ColdAllocAfter, ColdFromHeap, Unlinked
    <2>2. new = {c}
      BY <1>1, <1>5, <2>1 DEF Used, Left, TakenSize, Splits
    <2> QED BY <1>1, <1>2, <1>3, <1>5, <2>1, <2>2 DEF AlignedBlock, Covers, BlockEnd
  <1>6. CASE ~ColdIsFree(r) /\ ~(size > 0)
    <2>1. ~ColdFromHeap(r) /\ ColdAllocAfter(r) = coldCodeAlloc
          /\ Unlinked(c, ColdIsFree(r)) = {} /\ new = {}
      BY <1>1, <1>6 DEF ColdAllocAfter, ColdFromHeap, Unlinked, Used, Left
    <2> QED BY <1>2, <1>6, <2>1
  <1> QED BY <1>4, <1>5, <1>6

\* What a granted request does to the blocks: u and l are the blocks put in
\* use and the rests put back, of both parts.
LEMMA AllocateEffect ==
    ASSUME HeapInv, NEW r \in Request, Allocate(r)
    PROVE  \E w \in WarmChoices(r), c \in ColdChoices(r) :
             /\ freeBlocks' = (freeBlocks \ (Unlinked(w, WarmIsFree(r)) \cup Unlinked(c, ColdIsFree(r))))
                              \cup (Left(w, WarmSize(r), WarmIsFree(r))
                                    \cup Left(c, ColdSize(r), ColdIsFree(r)))
             /\ inUse' = inUse \cup (Used(w, WarmSize(r)) \cup Used(c, ColdSize(r)))
             /\ largestWarm' = IF WarmIsFree(r)
                               THEN LargestAfter(WarmFree, w, WarmSize(r), largestWarm)
                               ELSE largestWarm
             /\ largestCold' = IF ColdIsFree(r)
                               THEN LargestAfter(ColdFree, c, ColdSize(r), largestCold)
                               ELSE largestCold
  BY DEF Allocate

\* A granted request keeps the heap aligned and loses no byte.
LEMMA AllocateKeepsBytes ==
    ASSUME HeapInv, NEW r \in Request, Allocate(r)
    PROVE  AlignedHeap' /\ (NothingLost => NothingLost')
  <1>1. PICK w \in WarmChoices(r), c \in ColdChoices(r) :
          /\ freeBlocks' = (freeBlocks \ (Unlinked(w, WarmIsFree(r)) \cup Unlinked(c, ColdIsFree(r))))
                           \cup (Left(w, WarmSize(r), WarmIsFree(r))
                                 \cup Left(c, ColdSize(r), ColdIsFree(r)))
          /\ inUse' = inUse \cup (Used(w, WarmSize(r)) \cup Used(c, ColdSize(r)))
    BY AllocateEffect
  <1> DEFINE warmNew == Used(w, WarmSize(r)) \cup Left(w, WarmSize(r), WarmIsFree(r))
             coldNew == Used(c, ColdSize(r)) \cup Left(c, ColdSize(r), ColdIsFree(r))
             gone == Unlinked(w, WarmIsFree(r)) \cup Unlinked(c, ColdIsFree(r))
             blocks == freeBlocks \cup inUse
  <1>2. (freeBlocks \cup inUse)' \subseteq blocks \cup warmNew \cup coldNew
    BY <1>1
  <1>3. blocks \ gone \subseteq (freeBlocks \cup inUse)'
        /\ warmNew \cup coldNew \subseteq (freeBlocks \cup inUse)'
    BY <1>1
  <1>4. warmCodeAlloc' = WarmAllocAfter(r) /\ coldCodeAlloc' = ColdAllocAfter(r)
    BY DEF Allocate
  <1>5. /\ Aligned(warmCodeAlloc')
        /\ \A b \in warmNew : AlignedBlock(b)
        /\ \A a \in Int :
             \/ warmCodeAlloc =< a /\ a < warmCodeAlloc'
             \/ \E f \in Unlinked(w, WarmIsFree(r)) : Covers(f, a)
             => \E b \in warmNew : Covers(b, a)
    BY <1>4, WarmExact
  <1>6. /\ Aligned(coldCodeAlloc')
        /\ \A b \in coldNew : AlignedBlock(b)
        /\ \A a \in Int :
             \/ coldCodeAlloc' =< a /\ a < coldCodeAlloc
             \/ \E f \in Unlinked(c, ColdIsFree(r)) : Covers(f, a)
             => \E b \in coldNew : Covers(b, a)
    BY <1>4, ColdExact
  <1>7. \A b \in blocks : AlignedBlock(b)
    BY DEF HeapInv, AlignedHeap
  <1> HIDE DEF warmNew, coldNew, gone, blocks
  <1>8. AlignedHeap'
    BY <1>2, <1>5, <1>6, <1>7 DEF AlignedHeap, AlignedBlock, Aligned
  <1>9. ASSUME NothingLost PROVE NothingLost'
    <2> SUFFICES ASSUME NEW a \in CodeBase..(CodeTop - 1)
                 PROVE  \/ warmCodeAlloc' =< a /\ a < coldCodeAlloc'
                        \/ \E b \in (freeBlocks \cup inUse)' : Covers(b, a)
      BY DEF NothingLost, Covers, BlockEnd
    <2>1. a \in Int /\ warmCodeAlloc' \in Nat /\ coldCodeAlloc' \in Nat
          /\ warmCodeAlloc \in Nat /\ coldCodeAlloc \in Nat
      BY AllocateStep, HeapAssumption DEF HeapInv, Inv, TypeOK
    <2>2. CASE warmCodeAlloc =< a /\ a < coldCodeAlloc
      <3>1. CASE a < warmCodeAlloc'
        BY <1>3, <1>5, <2>1, <2>2, <3>1
      <3>2. CASE coldCodeAlloc' =< a
        BY <1>3, <1>6, <2>1, <2>2, <3>2
      <3>3. CASE ~(a < warmCodeAlloc') /\ ~(coldCodeAlloc' =< a)
        BY <2>1, <3>3
      <3> QED BY <3>1, <3>2, <3>3
    <2>3. CASE \E b \in blocks : Covers(b, a)
      <3>1. PICK b \in blocks : Covers(b, a)
        BY <2>3
      <3>2. CASE b \notin gone
        BY <1>3, <3>1, <3>2
      <3>3. CASE b \in Unlinked(w, WarmIsFree(r))
        BY <1>3, <1>5, <2>1, <3>1, <3>3
      <3>4. CASE b \in Unlinked(c, ColdIsFree(r))
        BY <1>3, <1>6, <2>1, <3>1, <3>4
      <3> QED BY <3>2, <3>3, <3>4 DEF gone
    <2> QED BY <1>9, <2>2, <2>3 DEF NothingLost, Covers, blocks
  <1> QED BY <1>8, <1>9

\* Bytes given back to the list: the heap stays aligned, and a byte that was
\* free or given back is free.
LEMMA FreedKeepsBytes ==
    ASSUME HeapInv,
           NEW from \in Nat, NEW end \in Nat, Aligned(from), Aligned(end), from < end,
           \A f \in freeBlocks : BlockEnd(f) =< from \/ end =< f.start,
           addFreeBlock2(from, end)
    PROVE  /\ \A b \in freeBlocks' : AlignedBlock(b)
           /\ \A a \in Int : (from =< a /\ a < end) \/ (\E f \in freeBlocks : Covers(f, a))
                => \E f \in freeBlocks' : Covers(f, a)
  <1>0. PICK low, high \in Nat, gone \in SUBSET freeBlocks : FreedAs(from, end, low, high, gone)
    BY FreedBlock
  <1>1. /\ Aligned(low) /\ Aligned(high) /\ low =< from /\ end =< high
        /\ freeBlocks' = (freeBlocks \ gone) \cup {[start |-> low, size |-> high - low]}
        /\ \A g \in gone : \/ g.start = low /\ BlockEnd(g) = from
                           \/ g.start = end /\ BlockEnd(g) = high
    BY <1>0 DEF FreedAs
  <1> DEFINE new == [start |-> low, size |-> high - low]
  <1>2. new.start = low /\ BlockEnd(new) = high
    BY <1>1 DEF BlockEnd
  <1>3. Aligned(high - low)
    <2>1. low \in Int /\ high \in Int
      BY <1>1
    <2> QED BY ONLY <1>1, <2>1, AlignedSum
  <1>4. \A b \in freeBlocks' : AlignedBlock(b)
    BY <1>1, <1>3, BlockFacts DEF AlignedBlock
  <1>5. ASSUME NEW a \in Int, (from =< a /\ a < end) \/ (\E f \in freeBlocks : Covers(f, a))
        PROVE  \E f \in freeBlocks' : Covers(f, a)
    <2>1. CASE low =< a /\ a < high
      BY <1>1, <1>2, <2>1 DEF Covers
    <2>2. CASE ~(low =< a /\ a < high)
      <3>1. PICK f \in freeBlocks : Covers(f, a)
        BY <1>1, <1>5, <2>2
      <3>2. f \notin gone
        BY <1>1, <2>2, <3>1 DEF Covers
      <3> QED BY <1>1, <3>1, <3>2
    <2> QED BY <2>1, <2>2
  <1> QED BY <1>4, <1>5

\* The head of block b that stays in use when the bytes from `from' on are
\* given back; nothing stays when the whole block is given back.
IsHead(b, from, rest) ==
    /\ rest \subseteq Block
    /\ \A x \in rest : x.start = b.start /\ BlockEnd(x) = from /\ x.size >= FreeBlockSize
    /\ from = b.start \/ rest # {}

\* What TrimInnerBlock and Reclaim do: bytes of b go back to the list.
GivesBack(b, from, rest) ==
    /\ from \in Nat /\ b.start =< from /\ from < BlockEnd(b) /\ Aligned(from)
    /\ IsHead(b, from, rest)
    /\ addFreeBlock2(from, BlockEnd(b))
    /\ inUse' = (inUse \ {b}) \cup rest
    /\ UNCHANGED <<warmCodeAlloc, coldCodeAlloc, repositoryFree>>

\* A trim of an inner block gives the tail of the block back.
LEMMA TrimInnerGivesBack ==
    ASSUME HeapInv, NEW b \in inUse, NEW size \in TrimSizes, TrimInnerBlock(b, size)
    PROVE  GivesBack(b, b.start + ActualSize(size), {Trimmed(b, size)})
  <1> DEFINE new == Trimmed(b, size)
             from == b.start + ActualSize(size)
  <1>1. b \in Block /\ Aligned(b.start)
    BY BlockFacts
  <1>2. ActualSize(size) \in Nat /\ ActualSize(size) >= FreeBlockSize /\ Aligned(ActualSize(size))
    BY ActualSizeBounds, SizesAssumption, SizesAligned
  <1>3. /\ new \in Block /\ new.start = b.start /\ new.size = ActualSize(size)
        /\ BlockEnd(new) = from /\ from \in Nat /\ b.start =< from /\ from < BlockEnd(b)
    BY <1>1, <1>2, FreeBlockAssumption DEF TrimInnerBlock, CanTrim, Trimmed, Block, BlockEnd
  <1>4. Aligned(from)
    <2>1. b.start \in Int /\ ActualSize(size) \in Int
      BY <1>1, <1>2 DEF Block
    <2> QED BY ONLY <1>1, <1>2, <2>1, AlignedSum DEF from
  <1> QED BY <1>2, <1>3, <1>4 DEF GivesBack, IsHead, TrimInnerBlock

\* Reclaiming a block gives all of it back.
LEMMA ReclaimGivesBack ==
    ASSUME HeapInv, NEW b \in inUse, Reclaim(b)
    PROVE  GivesBack(b, b.start, {})
  <1>1. b \in Block /\ Aligned(b.start) /\ b.start < BlockEnd(b)
    BY BlockFacts
  <1> QED BY <1>1 DEF GivesBack, IsHead, Reclaim, Block

\* The free list around the bytes that are given back.
LEMMA GivenBackIsFree ==
    ASSUME HeapInv, NEW b \in inUse, NEW from, NEW rest, GivesBack(b, from, rest)
    PROVE  /\ BlockEnd(b) \in Nat /\ Aligned(BlockEnd(b))
           /\ \A f \in freeBlocks : BlockEnd(f) =< from \/ BlockEnd(b) =< f.start
           /\ Inv'
  <1>1. b \in Block /\ BlockEnd(b) \in Nat /\ Aligned(BlockEnd(b))
    BY BlockFacts
  <1>2. \A f \in freeBlocks : f \in Block /\ Disjoint(b, f)
    BY BlockFacts DEF HeapInv, Inv, NoOverlap, UsedBlocksNotFree
  <1>3. \A f \in freeBlocks : BlockEnd(f) =< from \/ BlockEnd(b) =< f.start
    BY <1>1, <1>2 DEF GivesBack, Disjoint, Block, BlockEnd
  <1>4. Inv'
    BY GiveBackStep DEF GivesBack, IsHead, HeapInv
  <1> QED BY <1>1, <1>3, <1>4

\* Giving bytes back keeps the heap aligned and loses no byte.
LEMMA GiveBackKeepsBytes ==
    ASSUME HeapInv, NEW b \in inUse, NEW from, NEW rest, GivesBack(b, from, rest)
    PROVE  AlignedHeap' /\ (NothingLost => NothingLost')
  <1> DEFINE end == BlockEnd(b)
  <1>1. b \in Block /\ Aligned(b.start) /\ b.start \in Int /\ from \in Int
    BY BlockFacts DEF GivesBack, Block
  <1>2. /\ \A f \in freeBlocks' : AlignedBlock(f)
        /\ \A a \in Int : (from =< a /\ a < end) \/ (\E f \in freeBlocks : Covers(f, a))
             => \E f \in freeBlocks' : Covers(f, a)
    <2>1. /\ from \in Nat /\ end \in Nat /\ Aligned(from) /\ Aligned(end) /\ from < end
          /\ \A f \in freeBlocks : BlockEnd(f) =< from \/ end =< f.start
          /\ addFreeBlock2(from, end)
      BY GivenBackIsFree DEF GivesBack
    <2> HIDE DEF end
    <2> QED BY <2>1, FreedKeepsBytes
  <1>3. inUse' = (inUse \ {b}) \cup rest
    BY DEF GivesBack
  <1>4. \A x \in rest : AlignedBlock(x)
    <2> SUFFICES ASSUME NEW x \in rest PROVE AlignedBlock(x)
      OBVIOUS
    <2>1. x.start = b.start /\ x.size = from - b.start
      BY <1>1 DEF GivesBack, IsHead, BlockEnd, Block
    <2>2. Aligned(from - b.start)
      BY <1>1, AlignedSum DEF GivesBack
    <2> QED BY <1>1, <2>1, <2>2 DEF AlignedBlock
  <1>5. AlignedHeap'
    BY <1>2, <1>3, <1>4 DEF HeapInv, AlignedHeap, AlignedBlock, Aligned, GivesBack
  <1>6. ASSUME NothingLost PROVE NothingLost'
    <2> SUFFICES ASSUME NEW a \in CodeBase..(CodeTop - 1)
                 PROVE  \/ warmCodeAlloc' =< a /\ a < coldCodeAlloc'
                        \/ \E x \in (freeBlocks \cup inUse)' : Covers(x, a)
      BY DEF NothingLost, Covers, BlockEnd
    <2>1. a \in Int
      BY HeapAssumption
    <2>2. CASE warmCodeAlloc =< a /\ a < coldCodeAlloc
      BY <2>2 DEF GivesBack
    <2>3. ASSUME NEW x \in freeBlocks \cup (inUse \ {b}), Covers(x, a)
          PROVE  \E y \in (freeBlocks \cup inUse)' : Covers(y, a)
      BY <1>2, <1>3, <2>1, <2>3
    <2>4. CASE Covers(b, a) /\ from =< a
      BY <1>2, <2>1, <2>4 DEF Covers
    <2>5. CASE Covers(b, a) /\ ~(from =< a)
      <3>1. b.start =< a /\ a < from
        BY <1>1, <2>1, <2>5 DEF Covers
      <3>2. PICK x \in rest : x.start = b.start /\ BlockEnd(x) = from
        BY <1>1, <2>1, <3>1 DEF GivesBack, IsHead
      <3> QED BY <1>3, <3>1, <3>2 DEF Covers
    <2> QED BY <1>6, <2>2, <2>3, <2>4, <2>5 DEF NothingLost, Covers
  <1> QED BY <1>5, <1>6

\* Trimming the last warm block, likewise: what it gives up joins the hole.
LEMMA TrimLastKeepsBytes ==
    ASSUME HeapInv, NEW b \in inUse, NEW size \in TrimSizes, TrimLastBlock(b, size)
    PROVE  AlignedHeap' /\ (NothingLost => NothingLost')
  <1> DEFINE new == Trimmed(b, size)
  <1>1. b \in Block /\ Aligned(b.start) /\ warmCodeAlloc \in Nat /\ coldCodeAlloc \in Nat
        /\ warmCodeAlloc =< coldCodeAlloc
    BY BlockFacts
  <1>2. ActualSize(size) \in Nat /\ Aligned(ActualSize(size)) /\ ActualSize(size) < b.size
    BY ActualSizeBounds, SizesAssumption, SizesAligned DEF TrimLastBlock, CanTrim
  <1>3. new.start = b.start /\ new.size = ActualSize(size) /\ BlockEnd(b) = warmCodeAlloc
    BY <1>1 DEF Trimmed, Block, TrimLastBlock
  <1>4. /\ warmCodeAlloc' = BlockEnd(new) /\ coldCodeAlloc' = coldCodeAlloc
        /\ inUse' = (inUse \ {b}) \cup {new} /\ freeBlocks' = freeBlocks
    BY <1>1, <1>2, <1>3 DEF TrimLastBlock, Block, BlockEnd
  <1>5. Aligned(BlockEnd(new))
    <2>1. b.start \in Int /\ ActualSize(size) \in Int
      BY <1>1, <1>2 DEF Block
    <2> QED BY ONLY <1>1, <1>2, <1>3, <2>1, AlignedSum DEF BlockEnd
  <1> HIDE DEF new
  <1>6. AlignedHeap'
    BY <1>1, <1>2, <1>3, <1>4, <1>5 DEF HeapInv, AlignedHeap, AlignedBlock, Aligned
  <1>7. ASSUME NothingLost PROVE NothingLost'
    <2> SUFFICES ASSUME NEW a \in CodeBase..(CodeTop - 1)
                 PROVE  \/ BlockEnd(new) =< a /\ a < coldCodeAlloc
                        \/ \E x \in freeBlocks \cup (inUse \ {b}) \cup {new} : Covers(x, a)
      BY <1>4 DEF NothingLost, Covers, BlockEnd
    <2>1. a \in Int /\ b.start \in Nat /\ b.size \in Nat
      BY <1>1, HeapAssumption DEF Block
    <2>2. CASE warmCodeAlloc =< a /\ a < coldCodeAlloc
      BY <1>2, <1>3, <2>1, <2>2 DEF BlockEnd
    <2>3. CASE Covers(b, a)
      BY <1>1, <1>2, <1>3, <2>1, <2>3 DEF Covers, BlockEnd
    <2> QED BY <1>7, <2>2, <2>3 DEF NothingLost, Covers
  <1> QED BY <1>6, <1>7

\* The heap stays aligned, and nothing is lost, in every step.
LEMMA HeapInductive ==
    /\ Init => HeapInv /\ NothingLost
    /\ HeapInv /\ [Next]_vars => HeapInv'
    /\ HeapInv /\ NothingLost /\ [Next]_vars => NothingLost'
  <1>1. ASSUME Init PROVE HeapInv /\ NothingLost
    BY <1>1, InvInductive, HeapAssumption DEF Init, HeapInv, AlignedHeap, Aligned, NothingLost
  <1>2. ASSUME HeapInv, [Next]_vars
        PROVE  AlignedHeap' /\ (NothingLost => NothingLost')
    <2> USE <1>2
    <2>1. ASSUME NEW r \in Request, Allocate(r) PROVE AlignedHeap' /\ (NothingLost => NothingLost')
      BY <2>1, AllocateKeepsBytes
    <2>2. ASSUME NEW b \in inUse, Reclaim(b) PROVE AlignedHeap' /\ (NothingLost => NothingLost')
      BY <2>2, ReclaimGivesBack, GiveBackKeepsBytes
    <2>3. ASSUME NEW b \in inUse, NEW size \in TrimSizes, TrimLastBlock(b, size)
          PROVE  AlignedHeap' /\ (NothingLost => NothingLost')
      BY <2>3, TrimLastKeepsBytes
    <2>4. ASSUME NEW b \in inUse, NEW size \in TrimSizes, TrimInnerBlock(b, size)
          PROVE  AlignedHeap' /\ (NothingLost => NothingLost')
      BY <2>4, TrimInnerGivesBack, GiveBackKeepsBytes
    <2>5. CASE UNCHANGED vars
      BY <2>5 DEF vars, HeapInv, AlignedHeap, AlignedBlock, Aligned, NothingLost, BlockEnd
    <2>6. ASSUME NEW r \in Request, AllocateRefused(r)
          PROVE  AlignedHeap' /\ (NothingLost => NothingLost')
      BY <2>5, <2>6 DEF AllocateRefused
    <2> QED BY <2>1, <2>2, <2>3, <2>4, <2>5, <2>6 DEF Next
  <1>3. HeapInv /\ [Next]_vars => Inv'
    BY InvInductive DEF HeapInv
  <1> QED BY <1>1, <1>2, <1>3 DEF HeapInv

\* No byte of the code area is ever lost: after any sequence of splits,
\* merges, trims and reclaims each one is in the hole, in use or on the list.
THEOREM NoByteIsLost == Spec => []NothingLost
  BY HeapInductive, PTL DEF Spec

-----------------------------------------------------------------------------
(* The repository *)

\* The repository's free space follows the hole through every allocation and
\* every trim: no caller of increase- and decreaseFreeSpaceInCodeCacheRepository
\* is missing or counts twice.
THEOREM RepositorySpaceExact == Spec => []RepositoryFollowsHole
  <1>1. Init => RepositoryFollowsHole
    BY HeapAssumption, RepositoryAssumption DEF Init, RepositoryFollowsHole, getFreeContiguousSpace
  <1>2. ASSUME Inv, RepositoryFollowsHole, [Next]_vars PROVE RepositoryFollowsHole'
    <2> USE <1>2, HeapAssumption, RepositoryAssumption
        DEF RepositoryFollowsHole, getFreeContiguousSpace
    <2>0. warmCodeAlloc \in Nat /\ coldCodeAlloc \in Nat /\ warmCodeAlloc' \in Nat /\ coldCodeAlloc' \in Nat
      BY InvInductive DEF Inv, TypeOK
    <2>1. ASSUME NEW r \in Request, Allocate(r) PROVE RepositoryFollowsHole'
      BY <2>0, <2>1 DEF Allocate
    <2>2. ASSUME NEW b \in inUse, Reclaim(b) PROVE RepositoryFollowsHole'
      BY <2>2 DEF Reclaim
    <2>3. ASSUME NEW b \in inUse, NEW size \in TrimSizes, TrimLastBlock(b, size)
          PROVE  RepositoryFollowsHole'
      <3>1. b.size \in Nat /\ ActualSize(size) \in Nat
        BY ActualSizeBounds, SizesAssumption DEF Inv, TypeOK, Block
      <3> QED BY <2>0, <2>3, <3>1 DEF TrimLastBlock
    <2>4. ASSUME NEW b \in inUse, NEW size \in TrimSizes, TrimInnerBlock(b, size)
          PROVE  RepositoryFollowsHole'
      BY <2>4 DEF TrimInnerBlock
    <2>5. CASE UNCHANGED vars
      BY <2>5 DEF vars
    <2>6. ASSUME NEW r \in Request, AllocateRefused(r) PROVE RepositoryFollowsHole'
      BY <2>5, <2>6 DEF AllocateRefused
    <2> QED BY <2>1, <2>2, <2>3, <2>4, <2>5, <2>6 DEF Next
  <1> QED BY <1>1, <1>2, InvInductive, PTL DEF Spec

-----------------------------------------------------------------------------
(* The cached sizes *)

SizesBounded(blocks) == blocks \subseteq Block /\ \A f \in blocks : f.size =< CodeTop

\* MaxSize is the only number that bounds the sizes and is one of them.
LEMMA MaxSizeUnique ==
    ASSUME NEW blocks, SizesBounded(blocks), NEW n \in 0..CodeTop,
           \A f \in blocks : f.size =< n, n = 0 \/ \E f \in blocks : f.size = n
    PROVE  MaxSize(blocks) = n
  <1>1. /\ MaxSize(blocks) \in 0..CodeTop
        /\ \A f \in blocks : f.size =< MaxSize(blocks)
        /\ MaxSize(blocks) = 0 \/ \E f \in blocks : f.size = MaxSize(blocks)
    BY MaxSizeIsMax DEF SizesBounded
  <1>2. \A f \in blocks : f.size \in Nat \ {0}
    BY DEF SizesBounded, Block
  <1> QED BY <1>1, <1>2, HeapAssumption

\* The size kept when block f is taken off the list, wholly or but for a
\* rest, is that of the largest block left.
LEMMA LargestAfterExact ==
    ASSUME NEW blocks, SizesBounded(blocks), NEW f \in blocks, AlignedBlock(f),
           NEW size \in Nat, Aligned(size), 0 < size, size =< f.size
    PROVE  LargestAfter(blocks, f, size, MaxSize(blocks))
             = MaxSize((blocks \ {f}) \cup LeftBlock(f, size))
  <1> DEFINE rest == (blocks \ {f}) \cup LeftBlock(f, size)
  <1>1. CASE IsBiggest(blocks, f)
    BY <1>1 DEF LargestAfter
  <1>2. CASE ~IsBiggest(blocks, f)
    <2>1. f \in Block /\ \A b \in blocks : b.size \in Nat \ {0} /\ b.start \in Nat /\ b.size =< CodeTop
      BY DEF SizesBounded, Block
    <2>2. PICK g \in blocks : g # f /\ g.size >= f.size
      BY <1>2, <2>1 DEF IsBiggest
    <2>3. \A b \in LeftBlock(f, size) : b \in Block /\ b.size < f.size
      BY <2>1, TakenBlock
    <2>4. /\ MaxSize(blocks) \in 0..CodeTop
          /\ \A b \in blocks : b.size =< MaxSize(blocks)
          /\ MaxSize(blocks) = 0 \/ \E b \in blocks : b.size = MaxSize(blocks)
      BY MaxSizeIsMax DEF SizesBounded
    <2>5. SizesBounded(rest)
      BY <2>1, <2>3, HeapAssumption DEF SizesBounded, Block
    <2>6. \A b \in rest : b.size =< MaxSize(blocks)
      BY <2>1, <2>3, <2>4, <2>5, HeapAssumption DEF SizesBounded, Block
    <2>7. \E b \in rest : b.size = MaxSize(blocks)
      BY <2>1, <2>2, <2>4, HeapAssumption
    <2> HIDE DEF rest
    <2>8. MaxSize(rest) = MaxSize(blocks)
      BY <2>4, <2>5, <2>6, <2>7, MaxSizeUnique
    <2> QED BY <1>2, <2>8 DEF LargestAfter, rest
  <1> QED BY <1>1, <1>2

\* The size kept when blocks are joined into one that is larger.
LEMMA LargestAfterJoin ==
    ASSUME NEW blocks, SizesBounded(blocks), NEW gone, NEW new \in Block, new.size =< CodeTop,
           \A g \in gone : g.size =< new.size
    PROVE  MaxSize((blocks \ gone) \cup {new})
             = IF new.size > MaxSize(blocks) THEN new.size ELSE MaxSize(blocks)
  <1> DEFINE all == (blocks \ gone) \cup {new}
             n == IF new.size > MaxSize(blocks) THEN new.size ELSE MaxSize(blocks)
  <1>1. /\ MaxSize(blocks) \in 0..CodeTop
        /\ \A b \in blocks : b.size =< MaxSize(blocks)
        /\ MaxSize(blocks) = 0 \/ \E b \in blocks : b.size = MaxSize(blocks)
    BY MaxSizeIsMax DEF SizesBounded
  <1>2. \A b \in blocks \cup {new} : b \in Block /\ b.size \in Nat \ {0} /\ b.size =< CodeTop
    BY DEF SizesBounded, Block
  <1>3. SizesBounded(all)
    BY <1>2 DEF SizesBounded
  <1>4. n \in 0..CodeTop /\ \A b \in all : b.size =< n
    BY <1>1, <1>2, HeapAssumption
  <1>5. n = 0 \/ \E b \in all : b.size = n
    BY <1>1, <1>2, HeapAssumption
  <1> HIDE DEF all, n
  <1>6. MaxSize(all) = n
    BY <1>3, <1>4, <1>5, MaxSizeUnique
  <1> QED BY <1>6 DEF all, n

\* The free blocks are the warm and the cold ones.
LEMMA WarmAndColdFree ==
    ASSUME HeapInv
    PROVE  /\ WarmFree = {f \in freeBlocks : InWarm(f)}
           /\ ColdFree = {f \in freeBlocks : InCold(f)}
           /\ freeBlocks \ WarmFree = ColdFree
           /\ SizesBounded(WarmFree) /\ SizesBounded(ColdFree)
  <1>1. \A f \in freeBlocks : /\ f \in Block /\ f.start \in Nat /\ BlockEnd(f) \in Nat
                              /\ f.start < BlockEnd(f) /\ (InWarm(f) \/ InCold(f))
    BY BlockFacts DEF Block
  <1>2. /\ warmCodeAlloc \in Nat /\ coldCodeAlloc \in Nat
        /\ warmCodeAlloc =< coldCodeAlloc /\ coldCodeAlloc =< CodeTop
    BY BlockFacts
  <1>3. \A f \in freeBlocks : /\ InWarm(f) <=> f.start < warmCodeAlloc
                              /\ InCold(f) <=> f.start >= coldCodeAlloc
                              /\ f.size =< CodeTop
    BY <1>1, <1>2, HeapAssumption DEF InWarm, InCold, BlockEnd, Block
  <1>4. freeBlocks \ WarmFree = ColdFree
    BY <1>1, <1>2, <1>3 DEF WarmFree, ColdFree
  <1> QED BY <1>1, <1>3, <1>4 DEF WarmFree, ColdFree, SizesBounded

\* The free blocks of both kinds after a granted request.
LEMMA FreeAfterAllocate ==
    ASSUME HeapInv, NEW r \in Request, Allocate(r),
           NEW w \in WarmChoices(r), NEW c \in ColdChoices(r),
           freeBlocks' = (freeBlocks \ (Unlinked(w, WarmIsFree(r)) \cup Unlinked(c, ColdIsFree(r))))
                         \cup (Left(w, WarmSize(r), WarmIsFree(r))
                               \cup Left(c, ColdSize(r), ColdIsFree(r)))
    PROVE  /\ WarmFree' = (WarmFree \ Unlinked(w, WarmIsFree(r))) \cup Left(w, WarmSize(r), WarmIsFree(r))
           /\ (freeBlocks \ WarmFree)'
                = (ColdFree \ Unlinked(c, ColdIsFree(r))) \cup Left(c, ColdSize(r), ColdIsFree(r))
  <1>1. ~Refused(r) /\ ~NoRoomForCold(r)
        /\ warmCodeAlloc' = WarmAllocAfter(r) /\ coldCodeAlloc' = ColdAllocAfter(r)
    BY DEF Allocate
  <1>2. /\ warmCodeAlloc \in Nat /\ coldCodeAlloc \in Nat
        /\ warmCodeAlloc' \in Nat /\ warmCodeAlloc =< warmCodeAlloc' /\ warmCodeAlloc' =< coldCodeAlloc
        /\ \A b \in Left(w, WarmSize(r), WarmIsFree(r)) : b \in Block /\ BlockEnd(b) =< warmCodeAlloc'
    BY <1>1, WarmPart, BlockFacts DEF HeapInv
  <1>3. /\ coldCodeAlloc' \in Nat /\ warmCodeAlloc' =< coldCodeAlloc'
        /\ \A b \in Left(c, ColdSize(r), ColdIsFree(r)) : b \in Block /\ coldCodeAlloc' =< b.start
    BY <1>1, <1>2, ColdPart DEF HeapInv
  <1>4. \A b \in Left(w, WarmSize(r), WarmIsFree(r)) : b.start < warmCodeAlloc'
    BY <1>2 DEF Block, BlockEnd
  <1>5. \A b \in Left(c, ColdSize(r), ColdIsFree(r)) : ~(b.start < warmCodeAlloc')
    BY <1>2, <1>3 DEF Block
  <1>6. \A b \in WarmFree : b \in freeBlocks /\ b.start < warmCodeAlloc'
    BY <1>2, BlockFacts DEF WarmFree, Block
  <1>7. \A b \in ColdFree : b \in freeBlocks /\ ~(b.start < warmCodeAlloc')
    BY <1>2, BlockFacts DEF ColdFree, Block
  <1>8. freeBlocks = WarmFree \cup ColdFree
    BY WarmAndColdFree DEF WarmFree, ColdFree
  <1>9. Unlinked(w, WarmIsFree(r)) \subseteq WarmFree /\ Unlinked(c, ColdIsFree(r)) \subseteq ColdFree
    BY WarmExact, ColdExact DEF Unlinked
  <1>10. WarmFree' = {f \in freeBlocks' : f.start < warmCodeAlloc'}
    BY DEF WarmFree
  <1> QED BY <1>4, <1>5, <1>6, <1>7, <1>8, <1>9, <1>10

\* A granted request keeps the cached sizes exact.
LEMMA AllocateKeepsLargest ==
    ASSUME HeapInv, LargestExact, NEW r \in Request, Allocate(r)
    PROVE  LargestExact'
  <1> SUFFICES ASSUME Recycling
               PROVE  /\ largestWarm' = MaxSize(WarmFree')
                      /\ largestCold' = MaxSize((freeBlocks \ WarmFree)')
    BY DEF LargestExact, MaxSize
  <1>1. PICK w \in WarmChoices(r), c \in ColdChoices(r) :
          /\ freeBlocks' = (freeBlocks \ (Unlinked(w, WarmIsFree(r)) \cup Unlinked(c, ColdIsFree(r))))
                           \cup (Left(w, WarmSize(r), WarmIsFree(r))
                                 \cup Left(c, ColdSize(r), ColdIsFree(r)))
          /\ largestWarm' = IF WarmIsFree(r)
                            THEN LargestAfter(WarmFree, w, WarmSize(r), largestWarm)
                            ELSE largestWarm
          /\ largestCold' = IF ColdIsFree(r)
                            THEN LargestAfter(ColdFree, c, ColdSize(r), largestCold)
                            ELSE largestCold
    BY AllocateEffect
  <1>2. /\ WarmFree' = (WarmFree \ Unlinked(w, WarmIsFree(r))) \cup Left(w, WarmSize(r), WarmIsFree(r))
        /\ (freeBlocks \ WarmFree)'
             = (ColdFree \ Unlinked(c, ColdIsFree(r))) \cup Left(c, ColdSize(r), ColdIsFree(r))
    BY <1>1, FreeAfterAllocate
  <1>3. largestWarm = MaxSize(WarmFree) /\ largestCold = MaxSize(ColdFree)
    BY WarmAndColdFree DEF LargestExact
  <1>4. /\ WarmSize(r) \in Nat /\ Aligned(WarmSize(r)) /\ ColdSize(r) \in Nat /\ Aligned(ColdSize(r))
        /\ SizesBounded(WarmFree) /\ SizesBounded(ColdFree)
    BY SizesOfRequest, SizesAligned, WarmAndColdFree
  <1>5. largestWarm' = MaxSize(WarmFree')
    <2>1. CASE WarmIsFree(r)
      <3>1. w \in WarmFree /\ WarmSize(r) =< w.size /\ 0 < WarmSize(r)
        BY <1>4, <2>1, WarmExact
      <3>2. AlignedBlock(w)
        BY <3>1, BlockFacts DEF WarmFree, AlignedBlock
      <3>3. LargestAfter(WarmFree, w, WarmSize(r), MaxSize(WarmFree))
              = MaxSize((WarmFree \ {w}) \cup LeftBlock(w, WarmSize(r)))
        BY <1>4, <3>1, <3>2, LargestAfterExact
      <3> QED BY <1>1, <1>2, <1>3, <2>1, <3>3 DEF Unlinked, Left
    <2>2. CASE ~WarmIsFree(r)
      <3>1. WarmFree' = WarmFree
        BY <1>2, <2>2 DEF Unlinked, Left
      <3> QED BY <1>1, <1>3, <2>2, <3>1
    <2> QED BY <2>1, <2>2
  <1>6. largestCold' = MaxSize((freeBlocks \ WarmFree)')
    <2>1. CASE ColdIsFree(r)
      <3>1. c \in ColdFree /\ ColdSize(r) =< c.size /\ 0 < ColdSize(r)
        BY <1>4, <2>1, ColdExact
      <3>2. AlignedBlock(c)
        BY <3>1, BlockFacts DEF ColdFree, AlignedBlock
      <3>3. LargestAfter(ColdFree, c, ColdSize(r), MaxSize(ColdFree))
              = MaxSize((ColdFree \ {c}) \cup LeftBlock(c, ColdSize(r)))
        BY <1>4, <3>1, <3>2, LargestAfterExact
      <3> QED BY <1>1, <1>2, <1>3, <2>1, <3>3 DEF Unlinked, Left
    <2>2. CASE ~ColdIsFree(r)
      <3>1. (freeBlocks \ WarmFree)' = ColdFree
        BY <1>2, <2>2 DEF Unlinked, Left
      <3> QED BY <1>1, <1>3, <2>2, <3>1
    <2> QED BY <2>1, <2>2
  <1> QED BY <1>5, <1>6

\* Giving bytes back keeps the cached sizes exact.
LEMMA GiveBackKeepsLargest ==
    ASSUME HeapInv, LargestExact, NEW b \in inUse, NEW from, NEW rest, GivesBack(b, from, rest)
    PROVE  LargestExact'
  <1> SUFFICES ASSUME Recycling
               PROVE  /\ largestWarm' = MaxSize(WarmFree')
                      /\ largestCold' = MaxSize((freeBlocks \ WarmFree)')
    BY DEF LargestExact, MaxSize
  <1> DEFINE end == BlockEnd(b)
  <1>1. PICK low, high \in Nat, gone \in SUBSET freeBlocks : FreedAs(from, end, low, high, gone)
    <2>1. /\ from \in Nat /\ end \in Nat /\ Aligned(from) /\ Aligned(end) /\ from < end
          /\ \A f \in freeBlocks : BlockEnd(f) =< from \/ end =< f.start
          /\ addFreeBlock2(from, end)
      BY GivenBackIsFree DEF GivesBack
    <2> HIDE DEF end
    <2> QED BY <2>1, FreedBlock
  <1> DEFINE new == [start |-> low, size |-> high - low]
  <1>2. /\ freeBlocks' = (freeBlocks \ gone) \cup {new} /\ updateMaxSizeOfFreeBlocks(new)
        /\ UNCHANGED <<warmCodeAlloc, coldCodeAlloc>>
    BY <1>1 DEF FreedAs, GivesBack
  <1>3. from \in Nat /\ end \in Nat /\ from < end /\ low =< from /\ end =< high
    BY <1>1, GivenBackIsFree DEF GivesBack, FreedAs
  <1>4. new \in Block /\ new.start = low /\ BlockEnd(new) = high
    BY <1>3 DEF Block, BlockEnd
  <1>5. /\ warmCodeAlloc \in Nat /\ coldCodeAlloc \in Nat
        /\ warmCodeAlloc =< coldCodeAlloc /\ coldCodeAlloc =< CodeTop
        /\ \A f \in freeBlocks : f \in Block /\ (InWarm(f) \/ InCold(f))
    BY BlockFacts
  <1>6. \A g \in gone : g \in Block /\ g.start >= low /\ BlockEnd(g) =< high /\ g.size =< new.size
    BY <1>1, <1>3, <1>5 DEF FreedAs, Block, BlockEnd
  <1>7. InWarm(new) \/ InCold(new)
    BY <1>2, GivenBackIsFree DEF Inv, NoOverlap, BlocksOutsideHole, InWarm, InCold, BlockEnd
  <1>8. new.size =< CodeTop
    BY <1>3, <1>4, <1>5, <1>7, HeapAssumption DEF InWarm, InCold
  <1>9. largestWarm = MaxSize(WarmFree) /\ largestCold = MaxSize(ColdFree)
        /\ SizesBounded(WarmFree) /\ SizesBounded(ColdFree) /\ freeBlocks \ WarmFree = ColdFree
    BY WarmAndColdFree DEF LargestExact
  <1>10. WarmFree' = {f \in freeBlocks' : f.start < warmCodeAlloc}
    BY <1>2 DEF WarmFree
  <1>11. CASE InWarm(new)
    <2>1. new.start < warmCodeAlloc
      BY <1>3, <1>4, <1>5, <1>11 DEF InWarm
    <2>2. gone \subseteq WarmFree
      BY <1>3, <1>4, <1>5, <1>6, <1>11 DEF WarmFree, InWarm, InCold, Block, BlockEnd
    <2>3. WarmFree' = (WarmFree \ gone) \cup {new} /\ (freeBlocks \ WarmFree)' = ColdFree
      BY <1>2, <1>9, <1>10, <2>1, <2>2 DEF WarmFree
    <2>4. MaxSize((WarmFree \ gone) \cup {new})
            = IF new.size > MaxSize(WarmFree) THEN new.size ELSE MaxSize(WarmFree)
      BY <1>4, <1>6, <1>8, <1>9, LargestAfterJoin
    <2>5. /\ largestWarm' = (IF new.size > largestWarm THEN new.size ELSE largestWarm)
          /\ largestCold' = largestCold
      BY <1>2, <1>4, <1>5, <2>1 DEF updateMaxSizeOfFreeBlocks
    <2> HIDE DEF new
    <2> QED BY <1>9, <2>3, <2>4, <2>5
  <1>12. CASE InCold(new) /\ ~InWarm(new)
    <2>1. new.start >= warmCodeAlloc
      BY <1>3, <1>4, <1>5, <1>12 DEF InCold
    <2>2. \A g \in gone : ~(g.start < warmCodeAlloc)
      BY <1>4, <1>5, <1>6, <2>1 DEF Block
    <2>3. WarmFree' = WarmFree /\ (freeBlocks \ WarmFree)' = (ColdFree \ gone) \cup {new}
      BY <1>2, <1>4, <1>5, <1>9, <1>10, <2>1, <2>2 DEF WarmFree
    <2>4. MaxSize((ColdFree \ gone) \cup {new})
            = IF new.size > MaxSize(ColdFree) THEN new.size ELSE MaxSize(ColdFree)
      BY <1>4, <1>6, <1>8, <1>9, LargestAfterJoin
    <2>5. /\ largestWarm' = largestWarm
          /\ largestCold' = (IF new.size > largestCold THEN new.size ELSE largestCold)
      BY <1>2, <1>4, <1>5, <2>1 DEF updateMaxSizeOfFreeBlocks
    <2> HIDE DEF new
    <2> QED BY <1>9, <2>3, <2>4, <2>5
  <1> QED BY <1>7, <1>11, <1>12

\* Trimming the last warm block leaves the list and the cached sizes alone,
\* and no free block changes its kind.
LEMMA TrimLastKeepsList ==
    ASSUME HeapInv, NEW b \in inUse, NEW size \in TrimSizes, TrimLastBlock(b, size)
    PROVE  /\ LargestExact => LargestExact'
           /\ Coalesced => Coalesced'
  <1>1. /\ freeBlocks' = freeBlocks /\ largestWarm' = largestWarm /\ largestCold' = largestCold
        /\ coldCodeAlloc' = coldCodeAlloc /\ BlockEnd(b) = warmCodeAlloc
        /\ warmCodeAlloc' = warmCodeAlloc - (b.size - ActualSize(size))
        /\ ActualSize(size) < b.size
    BY DEF TrimLastBlock, CanTrim
  <1>2. ActualSize(size) \in Nat \ {0}
    BY ActualSizeBounds, SizesAssumption, FreeBlockAssumption
  <1>3. b \in Block /\ warmCodeAlloc \in Nat /\ coldCodeAlloc \in Nat /\ warmCodeAlloc =< coldCodeAlloc
    BY BlockFacts
  <1>4. warmCodeAlloc' \in Nat /\ b.start < warmCodeAlloc' /\ warmCodeAlloc' < warmCodeAlloc
    BY <1>1, <1>2, <1>3 DEF Block, BlockEnd
  <1>5. \A f \in freeBlocks : /\ f \in Block /\ BlockEnd(f) \in Nat /\ f.start < BlockEnd(f)
                              /\ BlockEnd(f) =< b.start \/ coldCodeAlloc =< f.start
    <2>1. \A f \in freeBlocks : f \in Block /\ BlockEnd(f) \in Nat /\ f.start < BlockEnd(f)
                                /\ (InWarm(f) \/ InCold(f)) /\ Disjoint(b, f)
      BY BlockFacts DEF HeapInv, Inv, NoOverlap, UsedBlocksNotFree
    <2> QED BY <1>1, <1>3, <2>1 DEF InWarm, InCold, Disjoint, Block
  <1>6. \A f \in freeBlocks : f.start < warmCodeAlloc <=> f.start < warmCodeAlloc'
    BY <1>3, <1>4, <1>5 DEF Block
  <1>7. WarmFree' = WarmFree
    BY <1>1, <1>6 DEF WarmFree
  <1>8. LargestExact => LargestExact'
    BY <1>1, <1>7 DEF LargestExact, MaxSize
  <1>9. Coalesced => Coalesced'
    BY <1>1, <1>6 DEF Coalesced, WarmThenCold, BlockEnd
  <1> QED BY <1>8, <1>9

\* What is left of a block taken off the list is its tail.
LEMMA LeftIsTail ==
    ASSUME HeapInv, NEW r \in Request, NEW w \in WarmChoices(r), NEW c \in ColdChoices(r)
    PROVE  \A l \in Left(w, WarmSize(r), WarmIsFree(r)) \cup Left(c, ColdSize(r), ColdIsFree(r)) :
             /\ l \in Block
             /\ \E f \in freeBlocks : f.start < l.start /\ BlockEnd(l) = BlockEnd(f)
  <1>1. ASSUME NEW l \in Left(w, WarmSize(r), WarmIsFree(r))
        PROVE  l \in Block /\ \E f \in freeBlocks : f.start < l.start /\ BlockEnd(l) = BlockEnd(f)
    <2>1. WarmIsFree(r) /\ l \in LeftBlock(w, WarmSize(r))
      BY <1>1 DEF Left
    <2>2. w \in freeBlocks /\ WarmSize(r) \in Nat /\ Aligned(WarmSize(r))
          /\ 0 < WarmSize(r) /\ WarmSize(r) =< w.size
      BY <2>1, WarmExact, SizesOfRequest, SizesAligned DEF WarmFree
    <2>3. w \in Block /\ AlignedBlock(w)
      BY <2>2, BlockFacts DEF AlignedBlock
    <2>4. l \in Block /\ BlockEnd(l) = BlockEnd(w) /\ l.start = w.start + WarmSize(r)
      BY <2>1, <2>2, <2>3, TakenBlock
    <2> QED BY <2>2, <2>3, <2>4 DEF Block
  <1>2. ASSUME NEW l \in Left(c, ColdSize(r), ColdIsFree(r))
        PROVE  l \in Block /\ \E f \in freeBlocks : f.start < l.start /\ BlockEnd(l) = BlockEnd(f)
    <2>1. ColdIsFree(r) /\ l \in LeftBlock(c, ColdSize(r))
      BY <1>2 DEF Left
    <2>2. c \in freeBlocks /\ ColdSize(r) \in Nat /\ Aligned(ColdSize(r))
          /\ 0 < ColdSize(r) /\ ColdSize(r) =< c.size
      BY <2>1, ColdExact, SizesOfRequest, SizesAligned DEF ColdFree
    <2>3. c \in Block /\ AlignedBlock(c)
      BY <2>2, BlockFacts DEF AlignedBlock
    <2>4. l \in Block /\ BlockEnd(l) = BlockEnd(c) /\ l.start = c.start + ColdSize(r)
      BY <2>1, <2>2, <2>3, TakenBlock
    <2> QED BY <2>2, <2>3, <2>4 DEF Block
  <1> QED BY <1>1, <1>2

\* A granted request keeps the list coalesced.
LEMMA AllocateKeepsCoalesced ==
    ASSUME HeapInv, Coalesced, NEW r \in Request, Allocate(r)
    PROVE  Coalesced'
  <1>1. PICK w \in WarmChoices(r), c \in ColdChoices(r) :
          freeBlocks' = (freeBlocks \ (Unlinked(w, WarmIsFree(r)) \cup Unlinked(c, ColdIsFree(r))))
                        \cup (Left(w, WarmSize(r), WarmIsFree(r))
                              \cup Left(c, ColdSize(r), ColdIsFree(r)))
    BY AllocateEffect
  <1> DEFINE left == Left(w, WarmSize(r), WarmIsFree(r)) \cup Left(c, ColdSize(r), ColdIsFree(r))
  <1>2. freeBlocks' \subseteq freeBlocks \cup left
    BY <1>1
  <1>3. \A l \in left : /\ l \in Block
                        /\ \E f \in freeBlocks : f.start < l.start /\ BlockEnd(l) = BlockEnd(f)
    BY LeftIsTail
  <1> HIDE DEF left
  <1>4. /\ warmCodeAlloc \in Nat /\ coldCodeAlloc \in Nat /\ warmCodeAlloc =< coldCodeAlloc
        /\ warmCodeAlloc' \in Nat /\ coldCodeAlloc' \in Nat
        /\ warmCodeAlloc =< warmCodeAlloc' /\ coldCodeAlloc' =< coldCodeAlloc
    <2>1. ~Refused(r) /\ ~NoRoomForCold(r)
          /\ warmCodeAlloc' = WarmAllocAfter(r) /\ coldCodeAlloc' = ColdAllocAfter(r)
      BY DEF Allocate
    <2>2. warmCodeAlloc' \in Nat /\ warmCodeAlloc =< warmCodeAlloc' /\ warmCodeAlloc' =< coldCodeAlloc
      BY <2>1, WarmPart DEF HeapInv
    <2>3. coldCodeAlloc' \in Nat /\ coldCodeAlloc' =< coldCodeAlloc
      BY <2>1, <2>2, ColdPart DEF HeapInv
    <2> QED BY <2>2, <2>3, BlockFacts
  <1>5. \A f \in freeBlocks : /\ f \in Block /\ f.start \in Nat /\ BlockEnd(f) \in Nat
                              /\ f.start < BlockEnd(f) /\ (InWarm(f) \/ InCold(f))
    BY BlockFacts DEF Block
  <1>6. \A f, g \in freeBlocks : f # g => BlockEnd(f) =< g.start \/ BlockEnd(g) =< f.start
    BY DEF HeapInv, Inv, NoOverlap, FreeBlocksDisjoint, Disjoint
  <1> SUFFICES ASSUME NEW a \in freeBlocks', NEW b \in freeBlocks', BlockEnd(a) = b.start
               PROVE  a.start < warmCodeAlloc' /\ BlockEnd(a) >= coldCodeAlloc'
    BY DEF Coalesced, WarmThenCold, BlockEnd
  <1>7. a \in Block /\ b \in Block /\ a.start \in Nat /\ b.start \in Nat
        /\ a.start < BlockEnd(a) /\ b.start < BlockEnd(b) /\ BlockEnd(b) \in Nat
    BY <1>2, <1>3, <1>5 DEF Block, BlockEnd
  <1>8. PICK f \in freeBlocks : BlockEnd(f) = BlockEnd(a) /\ (f = a \/ f.start < a.start)
    BY <1>2, <1>3
  <1>9. b \in freeBlocks
    <2> SUFFICES ASSUME b \notin freeBlocks PROVE FALSE
      OBVIOUS
    <2>1. PICK g \in freeBlocks : g.start < b.start /\ BlockEnd(b) = BlockEnd(g)
      BY <1>2, <1>3
    <2> QED BY <1>5, <1>6, <1>7, <1>8, <2>1
  <1>10. f.start < warmCodeAlloc /\ BlockEnd(f) >= coldCodeAlloc
    BY <1>8, <1>9 DEF Coalesced, WarmThenCold
  <1>11. BlockEnd(f) =< warmCodeAlloc
    BY <1>4, <1>5, <1>10 DEF InWarm, InCold
  <1> QED BY <1>4, <1>5, <1>7, <1>8, <1>10, <1>11

\* Giving bytes back keeps the list coalesced.
LEMMA GiveBackKeepsCoalesced ==
    ASSUME HeapInv, Coalesced, NEW b \in inUse, NEW from, NEW rest, GivesBack(b, from, rest)
    PROVE  Coalesced'
  <1> DEFINE end == BlockEnd(b)
  <1>1. /\ from \in Nat /\ end \in Nat /\ Aligned(from) /\ Aligned(end) /\ from < end
        /\ \A f \in freeBlocks : BlockEnd(f) =< from \/ end =< f.start
        /\ addFreeBlock2(from, end)
    BY GivenBackIsFree DEF GivesBack
  <1> HIDE DEF end
  <1>2. PICK low, high \in Nat, gone \in SUBSET freeBlocks : FreedAs(from, end, low, high, gone)
    BY <1>1, FreedBlock
  <1> DEFINE new == [start |-> low, size |-> high - low]
  <1>3. freeBlocks' = (freeBlocks \ gone) \cup {new}
        /\ warmCodeAlloc' = warmCodeAlloc /\ coldCodeAlloc' = coldCodeAlloc
    BY <1>2 DEF FreedAs, GivesBack
  <1>4. low =< from /\ end =< high /\ new.start = low /\ BlockEnd(new) = high
    BY <1>2 DEF FreedAs, BlockEnd
  <1>5. /\ low = from \/ \E g \in gone : g.start = low /\ BlockEnd(g) = from
        /\ high = end \/ \E g \in gone : g.start = end /\ BlockEnd(g) = high
        /\ \A f \in freeBlocks \ gone : BlockEnd(f) = from => WarmThenCold(f.start, from)
        /\ \A f \in freeBlocks \ gone : f.start = end => WarmThenCold(from, end)
    BY <1>2 DEF FreedAs
  <1>6. warmCodeAlloc \in Nat /\ coldCodeAlloc \in Nat
        /\ \A f \in freeBlocks : f.start \in Nat /\ BlockEnd(f) \in Nat
    BY BlockFacts DEF Block
  <1> HIDE DEF new
  <1> SUFFICES ASSUME NEW x \in freeBlocks', NEW y \in freeBlocks', BlockEnd(x) = y.start
               PROVE  WarmThenCold(x.start, BlockEnd(x))
    BY <1>3 DEF Coalesced, WarmThenCold, BlockEnd
  <1>7. CASE x \in freeBlocks /\ y \in freeBlocks
    BY <1>7 DEF Coalesced
  <1>8. CASE x = new /\ y = new
    BY <1>1, <1>4, <1>8
  <1>9. CASE x = new /\ y \in freeBlocks \ gone
    <2>1. CASE high = end
      <3>1. WarmThenCold(from, end)
        BY <1>4, <1>5, <1>9, <2>1
      <3> QED BY <1>1, <1>2, <1>4, <1>6, <1>9, <2>1, <3>1 DEF WarmThenCold
    <2>2. CASE high # end
      <3>1. PICK g \in gone : g.start = end /\ BlockEnd(g) = high
        BY <1>5, <2>2
      <3>2. WarmThenCold(g.start, high)
        BY <1>2, <1>4, <1>9, <3>1 DEF Coalesced
      <3> QED BY <1>1, <1>2, <1>4, <1>6, <1>9, <3>1, <3>2 DEF WarmThenCold
    <2> QED BY <2>1, <2>2
  <1>10. CASE x \in freeBlocks \ gone /\ y = new
    <2>1. CASE low = from
      BY <1>4, <1>5, <1>10, <2>1
    <2>2. CASE low # from
      <3>1. PICK g \in gone : g.start = low
        BY <1>5, <2>2
      <3> QED BY <1>2, <1>4, <1>10, <3>1 DEF Coalesced
    <2> QED BY <2>1, <2>2
  <1> QED BY <1>3, <1>7, <1>8, <1>9, <1>10

\* The cached sizes and the order of the list stay exact in every step.
LEMMA FreeListInductive ==
    /\ Init => FreeListExact
    /\ HeapInv /\ FreeListExact /\ [Next]_vars => FreeListExact'
  <1>1. ASSUME Init PROVE FreeListExact
    <2>1. SizesBounded({}) /\ 0 \in 0..CodeTop
      BY HeapAssumption DEF SizesBounded
    <2>2. MaxSize({}) = 0
      BY <2>1, MaxSizeUnique
    <2>3. freeBlocks = {} /\ WarmFree = {} /\ largestWarm = 0 /\ largestCold = 0
      BY <1>1 DEF Init, WarmFree
    <2> QED BY <2>2, <2>3 DEF FreeListExact, Coalesced, LargestExact
  <1>2. ASSUME HeapInv, Coalesced, LargestExact, [Next]_vars
        PROVE  Coalesced' /\ LargestExact'
    <2> USE <1>2
    <2>1. ASSUME NEW r \in Request, Allocate(r) PROVE Coalesced' /\ LargestExact'
      BY <2>1, AllocateKeepsCoalesced, AllocateKeepsLargest
    <2>2. ASSUME NEW b \in inUse, Reclaim(b) PROVE Coalesced' /\ LargestExact'
      BY <2>2, ReclaimGivesBack, GiveBackKeepsCoalesced, GiveBackKeepsLargest
    <2>3. ASSUME NEW b \in inUse, NEW size \in TrimSizes, TrimLastBlock(b, size)
          PROVE  Coalesced' /\ LargestExact'
      BY <2>3, TrimLastKeepsList
    <2>4. ASSUME NEW b \in inUse, NEW size \in TrimSizes, TrimInnerBlock(b, size)
          PROVE  Coalesced' /\ LargestExact'
      BY <2>4, TrimInnerGivesBack, GiveBackKeepsCoalesced, GiveBackKeepsLargest
    <2>5. CASE UNCHANGED vars
      BY <2>5 DEF vars, Coalesced, WarmThenCold, BlockEnd, LargestExact, WarmFree, MaxSize
    <2>6. ASSUME NEW r \in Request, AllocateRefused(r) PROVE Coalesced' /\ LargestExact'
      BY <2>5, <2>6 DEF AllocateRefused
    <2> QED BY <2>1, <2>2, <2>3, <2>4, <2>5, <2>6 DEF Next
  <1> QED BY <1>1, <1>2 DEF FreeListExact

\* The list is always coalesced, and the sizes that allocateCodeMemory
\* decides by, updated by four different operations and never recomputed, are
\* always those of the largest free blocks.
THEOREM FreeListAlwaysExact == Spec => []FreeListExact
  BY HeapInductive, FreeListInductive, PTL DEF Spec

-----------------------------------------------------------------------------
(* Requests *)

\* In an aligned heap a request that is not refused finds room for its cold
\* code, and with exact sizes a refused one could not have been placed.
LEMMA RequestsDecided ==
    ASSUME HeapInv, LargestExact
    PROVE  AllocationExact
  <1>1. warmCodeAlloc \in Nat /\ coldCodeAlloc \in Nat /\ warmCodeAlloc =< coldCodeAlloc
        /\ RoundUp(warmCodeAlloc) = warmCodeAlloc
    BY BlockFacts, RoundingAligns DEF HeapInv, AlignedHeap
  <1>2. ASSUME NEW r \in Request, ~Refused(r) PROVE ~NoRoomForCold(r)
    <2>1. WarmSize(r) \in Nat /\ ColdSize(r) \in Nat
      BY SizesOfRequest
    <2>2. ASSUME ColdFromHeap(r) PROVE ~(ColdAllocAfter(r) < WarmAllocAfter(r))
      <3>1. Aligned(coldCodeAlloc - ColdSize(r)) /\ coldCodeAlloc - ColdSize(r) \in Int
        <4>1. coldCodeAlloc \in Int /\ ColdSize(r) \in Int /\ Aligned(coldCodeAlloc) /\ Aligned(ColdSize(r))
          BY <1>1, <2>1, SizesAligned DEF HeapInv, AlignedHeap
        <4>2. Aligned(coldCodeAlloc - ColdSize(r))
          BY ONLY <4>1, AlignedSum
        <4> QED BY <4>1, <4>2
      <3>2. ColdAllocAfter(r) = coldCodeAlloc - ColdSize(r)
        BY <2>2, <3>1, RoundingAligns DEF ColdAllocAfter
      <3>3. WarmAllocAfter(r) = warmCodeAlloc + (IF WarmFromHeap(r) THEN WarmSize(r) ELSE 0)
        BY <1>1, <2>1 DEF WarmAllocAfter
      <3>4. ColdSize(r) + (IF WarmIsFree(r) THEN 0 ELSE WarmSize(r)) =< coldCodeAlloc - warmCodeAlloc
        BY <1>1, <1>2, <2>1, <2>2 DEF Refused, getFreeContiguousSpace
      <3> QED BY <1>1, <2>1, <3>2, <3>3, <3>4 DEF WarmFromHeap
    <2> QED BY <2>2 DEF NoRoomForCold
  <1>3. ASSUME Recycling, NEW r \in Request, Refused(r) PROVE ~Placeable(r)
    <2> USE <1>3
    <2>1. WarmSize(r) \in Nat /\ ColdSize(r) \in Nat
      BY SizesOfRequest
    <2>2. /\ largestWarm \in Nat /\ largestCold \in Nat
          /\ \A f \in WarmFree : f.size \in Nat /\ f.size =< largestWarm
          /\ \A f \in ColdFree : f.size \in Nat /\ f.size =< largestCold
      <3>1. largestWarm = MaxSize(WarmFree) /\ largestCold = MaxSize(ColdFree)
            /\ SizesBounded(WarmFree) /\ SizesBounded(ColdFree)
        BY WarmAndColdFree DEF LargestExact
      <3>2. /\ MaxSize(WarmFree) \in 0..CodeTop /\ \A f \in WarmFree : f.size =< MaxSize(WarmFree)
            /\ MaxSize(ColdFree) \in 0..CodeTop /\ \A f \in ColdFree : f.size =< MaxSize(ColdFree)
        BY <3>1, MaxSizeIsMax DEF SizesBounded
      <3> QED BY <3>1, <3>2, HeapAssumption DEF SizesBounded, Block
    <2> SUFFICES ASSUME NEW warmFromList \in BOOLEAN, NEW coldFromList \in BOOLEAN,
                   warmFromList => ~r.contiguous /\ \E f \in WarmFree : f.size >= WarmSize(r),
                   coldFromList => ~r.contiguous /\ \E f \in ColdFree : f.size >= ColdSize(r),
                   (IF warmFromList THEN 0 ELSE WarmSize(r)) + (IF coldFromList THEN 0 ELSE ColdSize(r))
                     =< coldCodeAlloc - warmCodeAlloc
                 PROVE  FALSE
      BY DEF Placeable, getFreeContiguousSpace
    <2>3. warmFromList => WarmSize(r) = 0 \/ WarmIsFree(r)
      BY <2>1, <2>2 DEF WarmIsFree
    <2>4. coldFromList => ColdSize(r) = 0 \/ ColdIsFree(r)
      BY <2>1, <2>2 DEF ColdIsFree
    <2>5. CASE /\ ColdFromHeap(r)
               /\ ColdSize(r) + (IF WarmIsFree(r) THEN 0 ELSE WarmSize(r)) > coldCodeAlloc - warmCodeAlloc
      BY <1>1, <2>1, <2>3, <2>4, <2>5 DEF ColdFromHeap
    <2>6. CASE WarmFromHeap(r) /\ warmCodeAlloc + WarmSize(r) > coldCodeAlloc
      BY <1>1, <2>1, <2>3, <2>6 DEF WarmFromHeap
    <2> QED BY <1>1, <2>5, <2>6 DEF Refused, getFreeContiguousSpace
  <1> QED BY <1>2, <1>3 DEF AllocationExact, ColdCodeFits, RefusedOnlyWhenFull

\* The assertion "Must be able to find space for cold code" never fails, and
\* a request is turned away only if neither list nor hole can hold it.
THEOREM RequestsAnsweredExactly == Spec => []AllocationExact
  <1>1. HeapInv /\ FreeListExact => AllocationExact
    BY RequestsDecided DEF FreeListExact
  <1> QED BY <1>1, HeapInductive, FreeListInductive, PTL DEF Spec

-----------------------------------------------------------------------------
(* The cache implements CodeStore *)

\* A set with one member has one, a union of two such sets has two at most.
LEMMA SmallSets ==
    /\ \A x : Cardinality({x}) = 1
    /\ \A S, T : (\A x, y \in S : x = y) /\ (\A x, y \in T : x = y)
                   => Cardinality(S \cup T) =< 2
  <1>1. \A x : IsFiniteSet({x}) /\ Cardinality({x}) = 1
    BY FS_Singleton
  <1>2. ASSUME NEW S, NEW T, \A x, y \in S : x = y, \A x, y \in T : x = y
        PROVE  Cardinality(S \cup T) =< 2
    <2>1. Cardinality({}) = 0
      BY FS_EmptySet
    <2>2. \A x, y : IsFiniteSet({x} \cup {y}) /\ Cardinality({x} \cup {y}) =< 2
      <3> SUFFICES ASSUME NEW x, NEW y
                   PROVE  IsFiniteSet({x} \cup {y}) /\ Cardinality({x} \cup {y}) =< 2
        OBVIOUS
      <3>1. /\ IsFiniteSet({x} \cup {y})
            /\ Cardinality({x} \cup {y}) = IF y \in {x} THEN Cardinality({x}) ELSE Cardinality({x}) + 1
        BY <1>1, FS_AddElement
      <3> QED BY <1>1, <3>1
    <2>3. CASE S = {} /\ T = {}
      <3>1. S \cup T = {}
        BY <2>3
      <3> QED BY <2>1, <3>1
    <2>4. CASE S # {} /\ T = {}
      <3>1. PICK x \in S : S \cup T = {x} \cup {x}
        BY <1>2, <2>4
      <3> QED BY <2>2, <3>1
    <2>5. CASE S = {} /\ T # {}
      <3>1. PICK x \in T : S \cup T = {x} \cup {x}
        BY <1>2, <2>5
      <3> QED BY <2>2, <3>1
    <2>6. CASE S # {} /\ T # {}
      <3>1. PICK x \in S, y \in T : S \cup T = {x} \cup {y}
        BY <1>2, <2>6
      <3> QED BY <2>2, <3>1
    <2> QED BY <2>3, <2>4, <2>5, <2>6
  <1> QED BY <1>1, <1>2

\* CodeStore counts as this module does.
LEMMA StoreCardinality == \A S : Store!Cardinality(S) = Cardinality(S)
  BY Zenon DEF Cardinality, Store!Cardinality

\* A granted request is a Grant.
LEMMA AllocateGrants ==
    ASSUME HeapInv, NEW r \in Request, Allocate(r)
    PROVE  Store!Grant
  <1>1. PICK w \in WarmChoices(r), c \in ColdChoices(r) :
          inUse' = inUse \cup (Used(w, WarmSize(r)) \cup Used(c, ColdSize(r)))
    BY AllocateEffect
  <1> DEFINE warm == Used(w, WarmSize(r))
             cold == Used(c, ColdSize(r))
             new == warm \cup cold
  <1>2. ~Refused(r) /\ ~NoRoomForCold(r) /\ WarmSize(r) + ColdSize(r) > 0
    BY DEF Allocate
  <1>3. /\ WarmAllocAfter(r) \in Nat /\ warmCodeAlloc =< WarmAllocAfter(r)
        /\ WarmAllocAfter(r) =< coldCodeAlloc
        /\ \A b \in warm : b \in Block /\ \A d \in inUse : Disjoint(b, d)
        /\ \A x, y \in warm : x = y
    BY <1>2, WarmPart DEF HeapInv
  <1>4. /\ \A b \in cold : b \in Block /\ \A d \in inUse : Disjoint(b, d)
        /\ \A x, y \in cold : x = y
    BY <1>2, <1>3, ColdPart DEF HeapInv
  <1>5. \A b \in new : AlignedBlock(b)
    BY WarmExact, ColdExact
  <1>6. new # {}
    <2>1. WarmSize(r) \in Nat /\ ColdSize(r) \in Nat
      BY SizesOfRequest
    <2>2. WarmSize(r) # 0 \/ ColdSize(r) # 0
      BY <1>2, <2>1
    <2> QED BY <2>2 DEF Used
  <1>7. Cardinality(new) =< 2
    BY <1>3, <1>4, SmallSets
  <1> HIDE DEF warm, cold
  <1>8. \A b \in new : b \notin inUse
    BY <1>3, <1>4 DEF Disjoint, Block, BlockEnd
  <1>9. inUse' = inUse \cup new /\ new = inUse' \ inUse
    BY <1>1, <1>8 DEF warm, cold
  <1> HIDE DEF new
  <1>10. \A b \in new : /\ b.start % Align = 0 /\ b.size > 0
                        /\ CodeBase =< b.start /\ b.start + b.size =< CodeTop
    <2>1. Inv'
      BY AllocateStep DEF HeapInv
    <2>2. \A b \in inUse' : b \in Block /\ (InWarm(b)' \/ InCold(b)')
      BY <2>1 DEF Inv, TypeOK, NoOverlap, BlocksOutsideHole, InWarm, InCold, BlockEnd
    <2>3. warmCodeAlloc' \in Nat /\ coldCodeAlloc' \in Nat
          /\ CodeBase =< warmCodeAlloc' /\ warmCodeAlloc' =< coldCodeAlloc' /\ coldCodeAlloc' =< CodeTop
      BY <2>1 DEF Inv, TypeOK, NoOverlap, PointersOrdered
    <2> QED BY <1>5, <1>9, <2>2, <2>3, HeapAssumption
            DEF AlignedBlock, Aligned, InWarm, InCold, BlockEnd, Block
  <1>11. \A b \in new : \A d \in inUse' : b # d => b.start + b.size =< d.start \/ d.start + d.size =< b.start
    <2>1. \A b, d \in inUse' : b # d => Disjoint(b, d)
      BY AllocateStep DEF HeapInv, Inv, NoOverlap, UsedBlocksDisjoint, Disjoint, BlockEnd
    <2> QED BY <1>9, <2>1 DEF Disjoint, BlockEnd
  <1>12. inUse \subseteq inUse'
    BY <1>9
  <1>13. /\ \A b \in new : Store!Grantable(b)
         /\ \A b \in new : \A d \in inUse' : b # d => Store!Apart(b, d)
    BY <1>10, <1>11 DEF Store!Grantable, Store!Apart, Store!BlockEnd
  <1>14. \E n \in {inUse' \ inUse} :
           /\ n # {} /\ Cardinality(n) =< 2
           /\ \A b \in n : Store!Grantable(b)
           /\ \A b \in n : \A d \in inUse' : b # d => Store!Apart(b, d)
    BY <1>6, <1>7, <1>9, <1>13, Zenon
  <1> QED BY <1>12, <1>14, StoreCardinality, Zenon DEF Store!Grant

\* A trim is a Shrink.
LEMMA TrimShrinks ==
    ASSUME HeapInv, NEW b \in inUse, NEW size \in TrimSizes,
           TrimLastBlock(b, size) \/ TrimInnerBlock(b, size)
    PROVE  Store!Shrink
  <1> DEFINE new == Trimmed(b, size)
  <1>1. b \in Block /\ ActualSize(size) \in Nat /\ ActualSize(size) > 0 /\ ActualSize(size) < b.size
    BY BlockFacts, ActualSizeBounds, SizesAssumption, FreeBlockAssumption
    DEF TrimLastBlock, TrimInnerBlock, CanTrim
  <1>2. new.start = b.start /\ new.size = ActualSize(size)
    BY <1>1 DEF Trimmed, Block
  <1>3. inUse' = (inUse \ {b}) \cup {new}
    BY DEF TrimLastBlock, TrimInnerBlock
  <1> HIDE DEF new
  <1>4. new \notin inUse
    <2>1. \A d \in inUse : d # b => Disjoint(b, d)
      BY DEF HeapInv, Inv, NoOverlap, UsedBlocksDisjoint
    <2> QED BY <1>1, <1>2, <2>1 DEF Disjoint, BlockEnd, Block
  <1>5. inUse' \ inUse = {new}
    BY <1>3, <1>4
  <1>6. Cardinality(inUse' \ inUse) = 1
    BY <1>5, SmallSets
  <1>7. \A d \in inUse' \ inUse :
           /\ d.start = b.start /\ 0 < d.size /\ d.size < b.size
           /\ inUse' = (inUse \ {b}) \cup {d}
    <2>1. \A d \in inUse' \ inUse : d = new
      BY <1>5, Zenon
    <2>2. 0 < new.size /\ new.size < b.size
      BY <1>1, <1>2
    <2> QED BY <1>2, <1>3, <2>1, <2>2
  <1> QED BY <1>6, <1>7, StoreCardinality, Zenon DEF Store!Shrink

\* The code cache keeps the promise of CodeStore: every block it hands out is
\* aligned, lies inside the cache and apart from every other, and a block in
\* use never moves or grows, whatever happens around it.
THEOREM CacheImplementsStore == Spec => ImplementsStore
  <1>1. Init => Store!Init
    BY DEF Init, Store!Init
  <1>2. ASSUME HeapInv, [Next]_vars PROVE [Store!Next]_inUse
    <2> USE <1>2
    <2>1. ASSUME NEW r \in Request, Allocate(r) PROVE Store!Next
      BY <2>1, AllocateGrants DEF Store!Next
    <2>2. ASSUME NEW b \in inUse, Reclaim(b) PROVE Store!Next
      BY <2>2 DEF Reclaim, Store!Next, Store!Release
    <2>3. ASSUME NEW b \in inUse, NEW size \in TrimSizes,
                 TrimLastBlock(b, size) \/ TrimInnerBlock(b, size)
          PROVE  Store!Next
      BY <2>3, TrimShrinks DEF Store!Next
    <2>4. CASE UNCHANGED vars
      BY <2>4 DEF vars
    <2>5. ASSUME NEW r \in Request, AllocateRefused(r) PROVE UNCHANGED inUse
      BY <2>5 DEF AllocateRefused, vars
    <2> QED BY <2>1, <2>2, <2>3, <2>4, <2>5 DEF Next
  <1> QED BY <1>1, <1>2, HeapInductive, PTL DEF Spec, ImplementsStore, Store!Spec

=============================================================================
