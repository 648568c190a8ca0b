----------------------------- MODULE CodeCache ------------------------------
(***************************************************************************)
(* The code memory of one code cache (compiler/runtime/OMRCodeCache.cpp).  *)
(*                                                                         *)
(*   CodeBase      warmCodeAlloc        coldCodeAlloc          CodeTop     *)
(*      |  warm blocks  |------- hole -------|   cold blocks      |        *)
(*                                                                         *)
(* Warm code is bump-allocated upwards, cold code downwards; a block below *)
(* warmCodeAlloc or above coldCodeAlloc is either in use or on the list of *)
(* free blocks, from which it can be allocated again.                      *)
(*                                                                         *)
(* The list is kept sorted by address, so it is modelled as the set of its *)
(* blocks: "the block before" and "the block after" an address are what    *)
(* the walk along the links finds.  Addresses and sizes are numbers.       *)
(***************************************************************************)
EXTENDS Integers, FiniteSets

CONSTANTS
    Align,           \* CodeCacheConfig::codeCacheAlignment()
    HeaderSize,      \* sizeof(CodeCacheMethodHeader)
    FreeBlockSize,   \* sizeof(CodeCacheFreeCacheBlock)
    MinSizeBlock,    \* MIN_SIZE_BLOCK
    CodeBase,        \* _warmCodeAlloc of an empty cache
    CodeTop,         \* _coldCodeAlloc of an empty cache (_CCPreLoadedCodeBase)
    Recycling,       \* CodeCacheConfig::codeCacheFreeBlockRecylingEnabled()
    RepositorySpace, \* free space of the repository when the cache is empty
    WarmSizes,       \* sizes a compilation asks for ...
    ColdSizes,       \* ... of warm and of cold code
    TrimSizes        \* sizes the code turns out to have

ASSUME AlignAssumption == Align \in Nat \ {0}
ASSUME HeaderAssumption == HeaderSize \in Nat \ {0}
\* An aligned non-empty block always has room for the list's own record, and
\* MIN_SIZE_BLOCK is larger than that record.
ASSUME FreeBlockAssumption ==
    /\ FreeBlockSize \in Nat \ {0} /\ FreeBlockSize < Align
    /\ MinSizeBlock \in Nat /\ FreeBlockSize < MinSizeBlock
\* initialize() aligns both ends: the helper alignment is the code alignment.
ASSUME HeapAssumption ==
    /\ CodeBase \in Nat /\ CodeTop \in Nat /\ CodeBase =< CodeTop
    /\ CodeBase % Align = 0 /\ CodeTop % Align = 0
ASSUME RepositoryAssumption ==
    RepositorySpace \in Nat /\ RepositorySpace >= CodeTop - CodeBase
ASSUME RecyclingAssumption == Recycling \in BOOLEAN
ASSUME SizesAssumption ==
    WarmSizes \subseteq Nat /\ ColdSizes \subseteq Nat /\ TrimSizes \subseteq Nat

VARIABLES
    warmCodeAlloc,   \* end of the warm blocks
    coldCodeAlloc,   \* start of the cold blocks
    freeBlocks,      \* the blocks of _freeBlockList: [start, size]
    largestWarm,     \* _sizeOfLargestFreeWarmBlock
    largestCold,     \* _sizeOfLargestFreeColdBlock
    inUse,           \* the blocks handed out (their headers): [start, size]
    repositoryFree   \* free space accounted to the whole repository

vars == <<warmCodeAlloc, coldCodeAlloc, freeBlocks, largestWarm, largestCold,
          inUse, repositoryFree>>

-----------------------------------------------------------------------------
\* Blocks and alignment.

RoundDown(n) == n - (n % Align)
RoundUp(n) == RoundDown(n + Align - 1)

BlockEnd(b) == b.start + b.size

\* What a compilation asks for.  Every caller asks for a method header.
Request == [warm : WarmSizes, cold : ColdSizes, contiguous : BOOLEAN]

\* performSizeAdjustments: a contiguous request moves the cold size into the
\* warm one, then each non-empty part gets its header and is aligned.
AdjustSize(size) == IF size = 0 THEN 0 ELSE RoundUp(size + HeaderSize)
WarmSize(r) == AdjustSize(r.warm + (IF r.contiguous THEN r.cold ELSE 0))
ColdSize(r) == AdjustSize(IF r.contiguous THEN 0 ELSE r.cold)

getFreeContiguousSpace == coldCodeAlloc - warmCodeAlloc

\* The free blocks a request for warm (cold) code may use.
WarmFree == {f \in freeBlocks : f.start < warmCodeAlloc}
ColdFree == {f \in freeBlocks : f.start >= coldCodeAlloc}

\* The size of the largest block, 0 when there is none.
MaxSize(blocks) ==
    CHOOSE n \in 0..CodeTop :
      /\ \A f \in blocks : f.size =< n
      /\ n = 0 \/ \E f \in blocks : f.size = n

-----------------------------------------------------------------------------
\* findFreeBlock and removeFreeBlock.

\* The smallest block that is large enough, the first one of that size.
BestFit(blocks, size) ==
    {f \in blocks :
       /\ f.size >= size
       /\ \A g \in blocks : g.size >= size =>
            f.size < g.size \/ (f.size = g.size /\ f.start =< g.start)}

\* The largest block, the last one of that size.
IsBiggest(blocks, f) ==
    \A g \in blocks : g.size < f.size \/ (g.size = f.size /\ g.start =< f.start)

\* The rest of a block stays on the list when it is not too small.
SplitsAlways(f, size) == TRUE   \* mutant: MIN_SIZE_BLOCK not respected
Splits(f, size) == f.size - size >= MinSizeBlock
LeftBlockDropped(f, size) == {}   \* mutant: the rest of a split block is not relinked
LeftBlock(f, size) ==
    IF Splits(f, size)
    THEN {[start |-> f.start + size, size |-> f.size - size]} ELSE {}
TakenSize(f, size) == IF Splits(f, size) THEN size ELSE f.size

\* mutant: the second biggest block is forgotten
LargestAfterLeftOnly(blocks, f, size, largest) ==
    IF IsBiggest(blocks, f) THEN MaxSize(LeftBlock(f, size)) ELSE largest
LargestAfter(blocks, f, size, largest) ==
    IF IsBiggest(blocks, f)
    THEN MaxSize((blocks \ {f}) \cup LeftBlock(f, size)) ELSE largest

-----------------------------------------------------------------------------
\* allocateCodeMemory.

WarmIsFree(r) == ~r.contiguous /\ WarmSize(r) > 0 /\ largestWarm >= WarmSize(r)
ColdIsFree(r) == ~r.contiguous /\ ColdSize(r) > 0 /\ largestCold >= ColdSize(r)

WarmFromHeap(r) == WarmSize(r) > 0 /\ ~WarmIsFree(r)
ColdFromHeap(r) == ColdSize(r) > 0 /\ ~ColdIsFree(r)

RefusedOffByOne(r) ==    \* mutant: code may not fill the hole completely
    \/ ColdFromHeap(r) /\ ColdSize(r) + (IF WarmIsFree(r) THEN 0 ELSE WarmSize(r)) > getFreeContiguousSpace
    \/ WarmFromHeap(r) /\ RoundUp(warmCodeAlloc) + WarmSize(r) >= coldCodeAlloc
Refused(r) ==
    \/ /\ ColdFromHeap(r)
       /\ ColdSize(r) + (IF WarmIsFree(r) THEN 0 ELSE WarmSize(r)) > getFreeContiguousSpace
    \/ /\ WarmFromHeap(r)
       /\ RoundUp(warmCodeAlloc) + WarmSize(r) > coldCodeAlloc

WarmAllocAfter(r) ==
    IF WarmFromHeap(r) THEN RoundUp(warmCodeAlloc) + WarmSize(r) ELSE warmCodeAlloc
ColdAllocAfter(r) ==
    IF ColdFromHeap(r) THEN RoundDown(coldCodeAlloc - ColdSize(r)) ELSE coldCodeAlloc

\* Where each part comes from: a block of the list or the edge of the hole.
WarmChoices(r) ==
    IF WarmIsFree(r) THEN BestFit(WarmFree, WarmSize(r))
    ELSE {[start |-> RoundUp(warmCodeAlloc), size |-> WarmSize(r)]}
ColdChoices(r) ==
    IF ColdIsFree(r) THEN BestFit(ColdFree, ColdSize(r))
    ELSE {[start |-> ColdAllocAfter(r), size |-> ColdSize(r)]}

\* A block of the list is unlinked, what is left of it stays.
UnlinkedNever(f, isFree) == {}   \* mutant: an allocated block stays on the list
Unlinked(f, isFree) == IF isFree THEN {f} ELSE {}
Left(f, size, isFree) == IF isFree THEN LeftBlock(f, size) ELSE {}

\* The block put in use for a part of the request, none when it is empty.
Used(f, size) ==
    IF size = 0 THEN {} ELSE {[start |-> f.start, size |-> TakenSize(f, size)]}

\* The assertion "Must be able to find space for cold code": the cold block
\* would reach into the warm code.
NoRoomForCold(r) == ColdFromHeap(r) /\ ColdAllocAfter(r) < WarmAllocAfter(r)

AllocateRefused(r) == Refused(r) /\ UNCHANGED vars

Allocate(r) ==
    /\ ~Refused(r) /\ ~NoRoomForCold(r)
    /\ WarmSize(r) + ColdSize(r) > 0
    /\ \E w \in WarmChoices(r), c \in ColdChoices(r) :
         /\ freeBlocks' = (freeBlocks \ (Unlinked(w, WarmIsFree(r)) \cup Unlinked(c, ColdIsFree(r))))
                          \cup Left(w, WarmSize(r), WarmIsFree(r))
                          \cup Left(c, ColdSize(r), ColdIsFree(r))
         /\ largestWarm' = IF WarmIsFree(r)
                           THEN LargestAfter(WarmFree, w, WarmSize(r), largestWarm)
                           ELSE largestWarm
         /\ largestCold' = IF ColdIsFree(r)
                           THEN LargestAfter(ColdFree, c, ColdSize(r), largestCold)
                           ELSE largestCold
         /\ inUse' = inUse \cup Used(w, WarmSize(r)) \cup Used(c, ColdSize(r))
    /\ warmCodeAlloc' = WarmAllocAfter(r)
    /\ coldCodeAlloc' = ColdAllocAfter(r)
    /\ repositoryFree' = repositoryFree - (WarmAllocAfter(r) - warmCodeAlloc)
                                        - (coldCodeAlloc - ColdAllocAfter(r))

-----------------------------------------------------------------------------
\* addFreeBlock2WithCallSite: the new block is joined with the blocks before
\* and after it when the gap is too small to be a block, but a warm block is
\* never joined with a cold one.

BlockBefore(start) ==
    {f \in freeBlocks : f.start < start /\ \A g \in freeBlocks : g.start < start => g.start =< f.start}
BlockAfter(start) ==
    {f \in freeBlocks : f.start >= start /\ \A g \in freeBlocks : g.start >= start => f.start =< g.start}

WarmThenCold(low, high) == low < warmCodeAlloc /\ high >= coldCodeAlloc

JoinedBeforeAnyGap(start) ==   \* mutant: the gap is not looked at
    {f \in BlockBefore(start) : ~WarmThenCold(f.start, start)}
JoinedBefore(start) ==
    {f \in BlockBefore(start) : /\ start - BlockEnd(f) \in 0..(FreeBlockSize - 1)
                                /\ ~WarmThenCold(f.start, start)}
JoinedAfter(start, end) ==
    {f \in BlockAfter(start) : /\ f.start - end \in 0..(FreeBlockSize - 1)
                               /\ ~WarmThenCold(start, f.start)}

\* The block that ends up on the list.
JoinedBlock(start, end) ==
    LET low  == IF JoinedBefore(start) = {} THEN start
                ELSE (CHOOSE f \in JoinedBefore(start) : TRUE).start
        high == IF JoinedAfter(start, end) = {} THEN end
                ELSE BlockEnd(CHOOSE f \in JoinedAfter(start, end) : TRUE)
    IN [start |-> low, size |-> high - low]

\* updateMaxSizeOfFreeBlocks.
updateMaxSizeOfFreeBlocks(b) ==
    /\ largestWarm' = IF Recycling /\ b.start < warmCodeAlloc /\ b.size > largestWarm
                      THEN b.size ELSE largestWarm
    /\ largestCold' = IF Recycling /\ b.start >= warmCodeAlloc /\ b.size > largestCold
                      THEN b.size ELSE largestCold

addFreeBlock2(from, end) ==
    LET start == RoundUp(from)
        block == JoinedBlock(start, end)
    IN IF end =< start + FreeBlockSize
       THEN UNCHANGED <<freeBlocks, largestWarm, largestCold>>
       ELSE /\ freeBlocks' = (freeBlocks \ (JoinedBefore(start) \cup JoinedAfter(start, end)))
                             \cup {block}
            /\ updateMaxSizeOfFreeBlocks(block)

-----------------------------------------------------------------------------
\* trimCodeMemoryAllocation: the code generator gives back the bytes it did
\* not need at the end of block b.

ActualSize(size) == RoundUp(size + HeaderSize)

Trimmed(b, size) == [b EXCEPT !.size = ActualSize(size)]

CanTrim(b, size) == size > 0 /\ ActualSize(size) < b.size

\* The last warm block: the hole grows.
TrimLastBlockUnaccounted(b, size) ==   \* mutant: the repository does not learn of it
    /\ CanTrim(b, size) /\ BlockEnd(b) = warmCodeAlloc
    /\ warmCodeAlloc' = b.start + ActualSize(size)
    /\ inUse' = (inUse \ {b}) \cup {Trimmed(b, size)}
    /\ UNCHANGED <<coldCodeAlloc, freeBlocks, largestWarm, largestCold, repositoryFree>>
TrimLastBlock(b, size) ==
    LET shrinkage == b.size - ActualSize(size)
    IN /\ CanTrim(b, size) /\ BlockEnd(b) = warmCodeAlloc
       /\ warmCodeAlloc' = warmCodeAlloc - shrinkage
       /\ repositoryFree' = repositoryFree + shrinkage
       /\ inUse' = (inUse \ {b}) \cup {Trimmed(b, size)}
       /\ UNCHANGED <<coldCodeAlloc, freeBlocks, largestWarm, largestCold>>

\* Any other block: the tail goes to the list unless it is too small.
TrimInnerBlock(b, size) ==
    /\ CanTrim(b, size) /\ BlockEnd(b) # warmCodeAlloc
    /\ b.size - ActualSize(size) >= MinSizeBlock
    /\ addFreeBlock2(b.start + ActualSize(size), BlockEnd(b))
    /\ inUse' = (inUse \ {b}) \cup {Trimmed(b, size)}
    /\ UNCHANGED <<warmCodeAlloc, coldCodeAlloc, repositoryFree>>

\* A whole block is given back through addFreeBlock2, as the hook
\* addFreeBlock(metaData) is there for.
Reclaim(b) ==
    /\ addFreeBlock2(b.start, BlockEnd(b))
    /\ inUse' = inUse \ {b}
    /\ UNCHANGED <<warmCodeAlloc, coldCodeAlloc, repositoryFree>>

-----------------------------------------------------------------------------
\* initialize: an empty cache.
Init ==
    /\ warmCodeAlloc = CodeBase /\ coldCodeAlloc = CodeTop
    /\ freeBlocks = {} /\ largestWarm = 0 /\ largestCold = 0
    /\ inUse = {} /\ repositoryFree = RepositorySpace

Next ==
    \/ \E r \in Request : Allocate(r) \/ AllocateRefused(r)
    \/ \E b \in inUse : Reclaim(b)
    \/ \E b \in inUse, size \in TrimSizes : TrimLastBlock(b, size) \/ TrimInnerBlock(b, size)

Spec == Init /\ [][Next]_vars

-----------------------------------------------------------------------------
(* Properties *)

Block == [start : Nat, size : Nat \ {0}]

\* Every variable has its type; no block is empty.
TypeOK ==
    /\ warmCodeAlloc \in Nat /\ coldCodeAlloc \in Nat
    /\ freeBlocks \subseteq Block
    /\ inUse \subseteq Block
    /\ largestWarm \in Nat /\ largestCold \in Nat
    /\ repositoryFree \in Int

Disjoint(a, b) == BlockEnd(a) =< b.start \/ BlockEnd(b) =< a.start

InWarm(b) == CodeBase =< b.start /\ BlockEnd(b) =< warmCodeAlloc
InCold(b) == coldCodeAlloc =< b.start /\ BlockEnd(b) =< CodeTop

\* The two bump pointers never cross, although warm and cold code, trims and
\* recycled blocks move them independently (allocateCodeMemory).
PointersOrdered ==
    CodeBase =< warmCodeAlloc /\ warmCodeAlloc =< coldCodeAlloc /\ coldCodeAlloc =< CodeTop

\* No byte of the hole belongs to a block, used or free: a block handed out
\* at either edge of the hole can never be one that is still in use.
BlocksOutsideHole ==
    \A b \in freeBlocks \cup inUse : InWarm(b) \/ InCold(b)

\* Free blocks do not overlap: checkForErrors "next block should come after
\* end of current one".
FreeBlocksDisjoint == \A a, b \in freeBlocks : a # b => Disjoint(a, b)

\* Two compiled bodies never share a byte.
UsedBlocksDisjoint == \A a, b \in inUse : a # b => Disjoint(a, b)

\* No compiled body lies on the free list, not even partly: the next
\* allocation from the list would overwrite running code.
UsedBlocksNotFree == \A a \in inUse, b \in freeBlocks : Disjoint(a, b)

NoOverlap ==
    PointersOrdered /\ BlocksOutsideHole
    /\ FreeBlocksDisjoint /\ UsedBlocksDisjoint /\ UsedBlocksNotFree

\* Nothing is lost: every byte of the code area is in the hole, in use or on
\* the free list, after any sequence of splits, merges and trims.
NothingLost ==
    \A a \in CodeBase..(CodeTop - 1) :
      \/ warmCodeAlloc =< a /\ a < coldCodeAlloc
      \/ \E b \in freeBlocks \cup inUse : b.start =< a /\ a < BlockEnd(b)

\* checkForErrors "missed freed block coalescing opportunity": two free
\* blocks are adjacent only where the warm code meets the cold code.
Coalesced ==
    \A a, b \in freeBlocks :
      BlockEnd(a) = b.start => WarmThenCold(a.start, BlockEnd(a))

\* The cached sizes are those of the largest warm and cold free blocks, as
\* findFreeBlock asserts and allocateCodeMemory relies on.
LargestExact ==
    Recycling => /\ largestWarm = MaxSize(WarmFree)
                 /\ largestCold = MaxSize(freeBlocks \ WarmFree)

\* What allocations decide by is true of the free list: it is coalesced, and
\* the cached sizes are exact (addFreeBlock2, findFreeBlock).
FreeListExact == Coalesced /\ LargestExact

\* allocateCodeMemory asserts "Must be able to find space for cold code": a
\* request that passed the first check can always be placed.  (On the path
\* behind the assertion a recycled warm block would be lost.)
ColdCodeFits == \A r \in Request : ~Refused(r) => ~NoRoomForCold(r)

\* A request is turned away only when no combination of list and hole can
\* hold it; a contiguous request may only use the hole.
Placeable(r) ==
    \E warmFromList, coldFromList \in BOOLEAN :
      /\ warmFromList => ~r.contiguous /\ \E f \in WarmFree : f.size >= WarmSize(r)
      /\ coldFromList => ~r.contiguous /\ \E f \in ColdFree : f.size >= ColdSize(r)
      /\ (IF warmFromList THEN 0 ELSE WarmSize(r)) + (IF coldFromList THEN 0 ELSE ColdSize(r))
           =< getFreeContiguousSpace
RefusedOnlyWhenFull ==
    Recycling => \A r \in Request : Refused(r) => ~Placeable(r)

\* A request is accepted if and only if there is a way to place it.
AllocationExact == ColdCodeFits /\ RefusedOnlyWhenFull

\* The repository's free space follows the hole of the cache: what increase-
\* and decreaseFreeSpaceInCodeCacheRepository keep is "the value of free
\* space in the entire repository".
RepositoryFollowsHole ==
    repositoryFree = RepositorySpace - (CodeTop - CodeBase) + getFreeContiguousSpace

\* The cache keeps the promise of CodeStore.
Store == INSTANCE CodeStore
ImplementsStore == Store!Spec
=============================================================================
