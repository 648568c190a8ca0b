------------------------------ MODULE Regions -------------------------------
(***************************************************************************)
(* Scratch memory of one compilation: regions carve allocations from       *)
(* segments (Region.cpp), which they get from a pool of segments           *)
(* (SegmentPool.cpp) in front of a provider: the system's                  *)
(* (SystemSegmentProvider.cpp) or the one for debugging, which never       *)
(* reuses memory (DebugSegmentProvider.cpp).  Stack regions nest; a region *)
(* may also be an object inside another region, destroyed with it.         *)
(* Destruction is modelled step by step, one destructor or one segment at  *)
(* a time.  Without a pool (segmentPoolSize = 0) regions reach the provider*)
(* directly, as in compileMethodFromDetails.                               *)
(***************************************************************************)
EXTENDS Integers, Sequences, FiniteSets, FiniteSetsExt

CONSTANTS
  Areas,         \* addresses at which memory for a segment may lie
  DefaultSize,   \* defaultSegmentSize()
  InitialSize,   \* INITIAL_SEGMENT_SIZE
  RegionSize,    \* size of a region created inside another one
  PoolSizes,     \* what _poolSize may be, 0 without a pool
  Round,         \* 16: allocations are rounded to a multiple of it
  Sizes,         \* sizes that are asked for
  Garbage,       \* what an uninitialized counter may contain
  MaxRegions     \* bound: regions constructed

ASSUME AreasAssumption == IsFiniteSet(Areas) /\ "initial" \notin Areas
ASSUME SizesAssumption ==
  /\ Round \in Nat \ {0} /\ Sizes \subseteq Nat \ {0}
  /\ DefaultSize \in Nat \ {0} /\ InitialSize \in Nat /\ RegionSize \in Nat \ {0}
  /\ DefaultSize % Round = 0 /\ InitialSize % Round = 0
  /\ PoolSizes \subseteq Nat /\ MaxRegions \in Nat \ {0}
ASSUME GarbageAssumption == 0 \in Garbage /\ Garbage \subseteq Nat

VARIABLES
  debug,            \* the provider is the one for debugging
  segmentPoolSize,  \* _poolSize
  segments,         \* _segments of the provider: [size, allocated] by area
  noAccess,         \* areas whose pages the debug provider has closed
  currentBytes,     \* _currentBytesAllocated, _bytesAllocated of "debug"
  highWaterMark,    \* _highWaterMark
  segmentStack,     \* _segmentStack of the pool, top last
  storedSegments,   \* _storedSegments
  regions,          \* the regions constructed, by number
  stackRegions,     \* live stack regions, the one TR_Memory uses last
  dying,            \* regions being destroyed, the innermost last
  closing,          \* the pool is being destroyed
  granted           \* memory in use: [region, area, from, to]

options == << debug, segmentPoolSize >>
provider == << segments, noAccess, currentBytes, highWaterMark >>
segmentPool == << segmentStack, storedSegments >>
vars == << options, provider, segmentPool, regions, stackRegions, dying, closing, granted >>

Initial == "initial"   \* the segment inside a region object

Rounded(n) == ((n + Round - 1) \div Round) * Round
ToDefault(n) == ((n + DefaultSize - 1) \div DefaultSize) * DefaultSize
Max2(m, n) == IF m < n THEN n ELSE m
Top(s) == s[Len(s)]
Pop(s) == SubSeq(s, 1, Len(s) - 1)
Elements(s) == {s[i] : i \in 1 .. Len(s)}

Live == {r \in 1 .. Len(regions) : regions[r].live}
Busy == dying # << >> \/ closing

-----------------------------------------------------------------------------
\* The provider

\* Areas malloc or mmap may return.
FreeAreas == Areas \ DOMAIN segments

\* Mutant: the first allocation in a new segment is not counted.
NewSegmentUncounted(a, size, take) ==
  [b \in DOMAIN segments \cup {a} |->
     IF b = a THEN [size |-> size, allocated |-> 0] ELSE segments[b]]

\* _segments with a new one at area a, of which take bytes are allocated at
\* once by the region that asked for it.
NewSegment(a, size, take) ==
  [b \in DOMAIN segments \cup {a} |->
     IF b = a THEN [size |-> size, allocated |-> take] ELSE segments[b]]

\* SystemSegmentProvider::request(n), on its success.
SystemRequest(a, n, take) ==
  /\ segments' = NewSegment(a, ToDefault(n), take)
  /\ currentBytes' = currentBytes + ToDefault(n)
  /\ highWaterMark' = Max2(currentBytes', highWaterMark)
  /\ UNCHANGED noAccess

\* DebugSegmentProvider::request(n), on its success.
DebugRequest(a, n, take) ==
  /\ segments' = NewSegment(a, ToDefault(n), take)
  /\ currentBytes' = currentBytes + ToDefault(n)
  /\ UNCHANGED << noAccess, highWaterMark >>

ProviderRequest(a, n, take) ==
  IF debug THEN DebugRequest(a, n, take) ELSE SystemRequest(a, n, take)

\* Mutant: the counter is not taken back.
SystemReleaseUncounted(a) ==
  /\ segments' = [b \in DOMAIN segments \ {a} |-> segments[b]]
  /\ UNCHANGED << noAccess, currentBytes, highWaterMark >>

\* SystemSegmentProvider::release.
SystemRelease(a) ==
  /\ segments' = [b \in DOMAIN segments \ {a} |-> segments[b]]
  /\ currentBytes' = currentBytes - segments[a].size
  /\ UNCHANGED << noAccess, highWaterMark >>

\* DebugSegmentProvider::release.
DebugRelease(a) ==
  /\ noAccess' = noAccess \cup {a}
  /\ UNCHANGED << segments, currentBytes, highWaterMark >>

ProviderRelease(a) ==
  IF debug THEN DebugRelease(a) ELSE SystemRelease(a)

-----------------------------------------------------------------------------
\* The pool in front of it

\* May a request of n bytes be served from the pool?
FromPool(n) == n =< DefaultSize /\ segmentStack # << >>

\* SegmentPool::request(n), and the allocation of take bytes in the segment.
Recycle(take) ==
  /\ segments' = [segments EXCEPT ![Top(segmentStack)].allocated = take]
  /\ segmentStack' = Pop(segmentStack)
  /\ storedSegments' = storedSegments - 1
  /\ UNCHANGED << noAccess, currentBytes, highWaterMark >>

\* Does the pool keep a segment that is released?
PoolKeeps(a) == segments[a].size = DefaultSize /\ storedSegments < segmentPoolSize

\* SegmentPool::release; the push may find no memory.
PoolRelease(a) ==
  \/ /\ PoolKeeps(a)
     /\ segmentStack' = Append(segmentStack, a)
     /\ storedSegments' = storedSegments + 1
     /\ UNCHANGED provider
  \/ ProviderRelease(a) /\ UNCHANGED segmentPool

-----------------------------------------------------------------------------
\* Regions

NewRegion == [live |-> TRUE, chain |-> << >>, initial |-> 0, bytesAllocated |-> 0,
              objects |-> << >>]

Grant(r, a, from, n) ==
  granted' = granted \cup {[region |-> r, area |-> a, from |-> from, to |-> from + n]}

\* _currentSegment has room for n bytes.
HasRoom(r, n) ==
  LET chain == regions[r].chain
  IN  IF chain = << >> THEN InitialSize - regions[r].initial >= n
      ELSE segments[Head(chain)].size - segments[Head(chain)].allocated >= n

\* The region r after an allocation of n bytes, from a new segment a or, if a
\* is Initial, from its current one; object is what it now has to destroy.
Region(r, n, a, object) ==
  [regions[r] EXCEPT
     !.bytesAllocated = @ + n,
     !.initial = IF regions[r].chain = << >> /\ a = Initial THEN @ + n ELSE @,
     !.chain = IF a = Initial THEN @ ELSE << a >> \o @,
     !.objects = @ \o object]

\* Region::allocate in the current segment.
AllocateCurrent(r, n) ==
  LET chain == regions[r].chain
  IN  /\ HasRoom(r, n)
      /\ IF chain = << >>
         THEN /\ Grant(r, Initial, regions[r].initial, n)
              /\ UNCHANGED segments
         ELSE /\ Grant(r, Head(chain), segments[Head(chain)].allocated, n)
              /\ segments' = [segments EXCEPT ![Head(chain)].allocated = @ + n]
      /\ UNCHANGED << noAccess, currentBytes, highWaterMark, segmentPool >>

\* Region::allocate in a new segment a.
AllocateNew(r, n, a) ==
  /\ ~HasRoom(r, n)
  /\ \/ /\ FromPool(n)
        /\ a = Top(segmentStack)
        /\ Recycle(n)
     \/ /\ ~FromPool(n)
        /\ a \in FreeAreas
        /\ ProviderRequest(a, n, n)
        /\ UNCHANGED segmentPool
  /\ Grant(r, a, 0, n)

\* allocate, or create of an object that needs no destructor of its own; an
\* exception thrown by the provider changes nothing.
Allocate(r, size) ==
  /\ ~Busy
  /\ LET n == Rounded(size)
     IN  \/ /\ AllocateCurrent(r, n)
            /\ regions' = [regions EXCEPT ![r] = Region(r, n, Initial, << >>)]
         \/ \E a \in Areas :
              /\ AllocateNew(r, n, a)
              /\ regions' = [regions EXCEPT ![r] = Region(r, n, a, << >>)]
  /\ UNCHANGED << stackRegions, dying, closing >>

\* create of a Region inside region r.
CreateRegion(r) ==
  /\ ~Busy
  /\ Len(regions) < MaxRegions
  /\ LET n == Rounded(RegionSize)
         object == << Len(regions) + 1 >>
     IN  \/ /\ AllocateCurrent(r, n)
            /\ regions' = Append([regions EXCEPT ![r] = Region(r, n, Initial, object)],
                                 NewRegion)
         \/ \E a \in Areas :
              /\ AllocateNew(r, n, a)
              /\ regions' = Append([regions EXCEPT ![r] = Region(r, n, a, object)],
                                   NewRegion)
  /\ UNCHANGED << stackRegions, dying, closing >>

\* The constructor of StackMemoryRegion.
EnterStackRegion ==
  /\ ~Busy
  /\ Len(regions) < MaxRegions
  /\ regions' = Append(regions, NewRegion)
  /\ stackRegions' = Append(stackRegions, Len(regions) + 1)
  /\ UNCHANGED << provider, segmentPool, dying, closing, granted >>

\* Its destructor: unregister, then ~Region begins.
LeaveStackRegion ==
  /\ ~Busy
  /\ stackRegions # << >>
  /\ dying' = << Top(stackRegions) >>
  /\ stackRegions' = Pop(stackRegions)
  /\ UNCHANGED << provider, segmentPool, regions, closing, granted >>

\* Mutant: the objects of a region are not destroyed.
DestroyObjectsNone ==
  /\ dying # << >>
  /\ regions[Top(dying)].objects # << >>
  /\ regions' = [regions EXCEPT ![Top(dying)].objects = << >>]
  /\ UNCHANGED << provider, segmentPool, stackRegions, dying, closing, granted >>

\* ~Region: the destructor of the object created last, here a region.
DestroyObject ==
  LET r == Top(dying)
  IN  /\ dying # << >>
      /\ regions[r].objects # << >>
      /\ regions' = [regions EXCEPT ![r].objects = Pop(@)]
      /\ dying' = Append(dying, Top(regions[r].objects))
      /\ UNCHANGED << provider, segmentPool, stackRegions, closing, granted >>

\* ~Region: unlink the latest segment and release it.
ReleaseSegment ==
  LET r == Top(dying)
  IN  /\ dying # << >>
      /\ regions[r].objects = << >>
      /\ regions[r].chain # << >>
      /\ regions' = [regions EXCEPT ![r].chain = Tail(@)]
      /\ PoolRelease(Head(regions[r].chain))
      /\ granted' = {g \in granted : g.region # r \/ g.area # Head(regions[r].chain)}
      /\ UNCHANGED << stackRegions, dying, closing >>

\* ~Region has returned.
EndDestroy ==
  LET r == Top(dying)
  IN  /\ dying # << >>
      /\ regions[r].objects = << >>
      /\ regions[r].chain = << >>
      /\ regions' = [regions EXCEPT ![r] = [NewRegion EXCEPT !.live = FALSE]]
      /\ dying' = Pop(dying)
      /\ granted' = {g \in granted : g.region # r}
      /\ UNCHANGED << provider, segmentPool, stackRegions, closing >>

\* ~SegmentPool, at the end of the compilation.
ClosePool ==
  /\ dying = << >>
  /\ stackRegions = << >>
  /\ closing' = TRUE
  /\ IF segmentStack # << >>
     THEN /\ ProviderRelease(Top(segmentStack))
          /\ segmentStack' = Pop(segmentStack)
          /\ storedSegments' = storedSegments - 1
     ELSE UNCHANGED << provider, segmentPool >>
  /\ UNCHANGED << regions, stackRegions, dying, granted >>

\* ~DebugSegmentProvider, after the regions' scope has ended: one segment at a
\* time is unmapped, closed or not.
UnmapSegment ==
  /\ debug /\ closing
  /\ \E a \in DOMAIN segments :
       /\ segments' = [b \in DOMAIN segments \ {a} |-> segments[b]]
       /\ noAccess' = noAccess \ {a}
  /\ UNCHANGED << currentBytes, highWaterMark, segmentPool, regions, stackRegions, dying,
                  closing, granted >>

Init ==
  /\ segments = << >>
  /\ noAccess = {}
  /\ debug \in BOOLEAN
  /\ segmentPoolSize \in IF debug THEN {0} ELSE PoolSizes
  /\ currentBytes \in IF debug THEN Garbage ELSE {0}
  /\ highWaterMark = 0
  /\ segmentStack = << >>
  /\ storedSegments = 0
  /\ regions = << NewRegion >>
  /\ stackRegions = << 1 >>
  /\ dying = << >>
  /\ closing = FALSE
  /\ granted = {}

Next ==
  /\ \/ \E r \in Live, n \in Sizes : Allocate(r, n)
     \/ \E r \in Live : CreateRegion(r)
     \/ EnterStackRegion \/ LeaveStackRegion
     \/ DestroyObject \/ ReleaseSegment \/ EndDestroy
     \/ ClosePool \/ UnmapSegment
  /\ UNCHANGED options

Spec == Init /\ [][Next]_vars

-----------------------------------------------------------------------------
\* The memory handed out and not yet released, of the provider's segments.
InUse == DOMAIN segments \ noAccess

\* Counters, segments, chains and stacks keep their types; no counter goes
\* below zero.
TypeOK ==
  /\ DOMAIN segments \subseteq Areas
  /\ noAccess \subseteq DOMAIN segments
  /\ \A a \in DOMAIN segments : segments[a].allocated \in 0 .. segments[a].size
  /\ currentBytes \in Nat /\ highWaterMark \in Nat
  /\ segmentStack \in Seq(Areas) /\ storedSegments = Len(segmentStack)
  /\ storedSegments =< segmentPoolSize
  /\ \A r \in 1 .. Len(regions) : /\ regions[r].initial \in 0 .. InitialSize
                                  /\ regions[r].chain \in Seq(Areas)
                                  /\ regions[r].bytesAllocated \in Nat
  /\ Elements(stackRegions) \cup Elements(dying) \subseteq Live

\* Holders of segments: the regions and the pool.
Chains == [r \in 0 .. Len(regions) |-> IF r = 0 THEN segmentStack ELSE regions[r].chain]

\* Every segment that the provider has handed out is in the chain of exactly
\* one region, once, or in the pool, and no chain has a segment that was
\* given back; every region is on the stack, being destroyed or an object of
\* such a region.  So nothing leaks and nothing is used after its release,
\* also when regions live inside regions.
SegmentsHeldOnce ==
  /\ UNION {Elements(Chains[r]) : r \in DOMAIN Chains} = InUse
  /\ \A r \in DOMAIN Chains : Cardinality(Elements(Chains[r])) = Len(Chains[r])
  /\ \A r, s \in DOMAIN Chains : r # s => Elements(Chains[r]) \cap Elements(Chains[s]) = {}
  /\ \A r \in Live : \/ r \in Elements(stackRegions) \cup Elements(dying)
                    \/ \E s \in Live : r \in Elements(regions[s].objects)

\* The regions, the pool and the provider agree on every segment (Region.cpp,
\* SegmentPool.cpp).
SegmentsSound == TypeOK /\ SegmentsHeldOnce

\* Memory that a live region has handed out is handed out once and lies inside
\* what is allocated of a segment that this region holds.
MemoryUnshared ==
  /\ \A g \in granted :
       IF g.area = Initial THEN g.to =< InitialSize
       ELSE /\ g.area \in Elements(regions[g.region].chain)
            /\ g.to =< segments[g.area].allocated
  /\ \A g, h \in granted :
       g # h /\ g.area = h.area /\ (g.area = Initial => g.region = h.region)
         => g.to =< h.from \/ h.to =< g.from

SegmentBytes == MapThenSumSet(LAMBDA a : segments[a].size, DOMAIN segments)

\* _currentBytesAllocated of the system provider is the size of its segments,
\* whatever the order of requests and releases, and the high water mark that
\* is reported is never below it.
BytesExact ==
  ~debug => currentBytes = SegmentBytes /\ highWaterMark >= currentBytes

\* "_system bytes_ refers to the total amount of big segments of memory
\* allocated" (MemoryManager.md): what systemBytesAllocated of the provider for
\* debugging returns is the size of its segments, once it has any and as long as
\* it lives.
DebugBytesExact ==
  debug /\ ~closing /\ DOMAIN segments # {} => currentBytes = SegmentBytes
=============================================================================
