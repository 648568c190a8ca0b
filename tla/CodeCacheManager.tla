-------------------------- MODULE CodeCacheManager --------------------------
(***************************************************************************)
(* The code cache manager (OMRCodeCacheManager.cpp) as the threads of a    *)
(* process drive it while they compile: compileMethodFromDetails reserves  *)
(* a cache, allocates code memory in it, possibly moving to another cache, *)
(* trims the last allocation and gives the cache back.                     *)
(*                                                                         *)
(* A step is what the code does under one monitor, or one access to shared *)
(* state outside of any monitor.  Caches are carved from the repository    *)
(* and named by the address of their segment.  A cache's heap is reduced   *)
(* to the size of its hole (module CodeCache has the heap); addresses and  *)
(* sizes are in units of the size of a pointer.                            *)
(*                                                                         *)
(* The calls are those of OMRCodeGenerator.cpp: no size estimate, no       *)
(* contiguity, thread identifier 0 for everybody.  Then almostFull, which  *)
(* only contiguity or method trampolines make a difference of, is left     *)
(* out, and so are free blocks: only a trim of an inner block makes one.   *)
(***************************************************************************)
EXTENDS Integers, Sequences, FiniteSets

CONSTANTS
  Threads,          \* threads of the embedding program that compile
  NoThread,
  NoCache,          \* the null TR::CodeCache pointer
  RepositorySize,   \* config.codeCacheTotalKB
  CodeCacheSize,    \* config.codeCacheKB
  MaxCaches,        \* config._maxNumberOfCodeCaches
  Retries,          \* config.codeCacheMethodBodyAllocRetries
  Align,            \* config.codeCacheAlignment
  Header,           \* sizeof(CodeCacheMethodHeader)
  Helpers,          \* space of the helper trampolines and preloaded code
  Sizes,            \* code sizes a compilation may ask for
  TrimSizes,        \* what a compilation may give back of its last request
  InitMayFail       \* a new cache may find no memory for its own tables

ASSUME ThreadsAssumption ==
  IsFiniteSet(Threads) /\ Threads # {} /\ NoThread \notin Threads
ASSUME SizesAssumption ==
  /\ RepositorySize \in Nat /\ CodeCacheSize \in Nat /\ MaxCaches \in Nat \ {0}
  /\ Retries \in Nat /\ Align \in Nat \ {0} /\ Header \in Nat /\ Helpers \in Nat
  /\ Sizes \subseteq Nat \ {0} /\ TrimSizes \subseteq Nat /\ InitMayFail \in BOOLEAN
ASSUME FirstCacheFits ==
  /\ CodeCacheSize =< RepositorySize
  /\ 2 * Align + Helpers + 1 =< CodeCacheSize
ASSUME NoCacheAssumption ==
  /\ NoCache \notin 0 .. RepositorySize
  /\ NoCache \notin [base : 0 .. RepositorySize, top : 0 .. RepositorySize]

VARIABLES
  segmentAlloc,       \* _codeCacheRepositorySegment: first address not carved
  codeCacheList,      \* _codeCacheList: cache addresses, head first
  curNumberOfCodeCaches,
  codeCaches,         \* the TR::CodeCache objects, by address of their segment
  reserved,           \* caches whose _reserved is set
  codeCacheFull,      \* _codeCacheFull
  hasFailed,          \* _hasFailedCodeCacheAllocation
  pc,                 \* where each thread is
  cache,              \* *codeCache_pp, the code generator's cache
  found,              \* codeCache: the cache about to be switched to
  segment,            \* segment carved by a thread, not yet a cache
  tid,                \* compThreadID read from or written to a cache
  retries,            \* allocationRetries
  size,               \* size of the request
  numReserved         \* numCachesAlreadyReserved of the last scan

shared == << segmentAlloc, codeCacheList, curNumberOfCodeCaches, codeCaches,
             reserved, codeCacheFull, hasFailed >>
locals == << cache, found, segment, tid, retries, size, numReserved >>
vars   == << shared, pc, locals >>

PointerSize == 1
NotReserving == -2    \* "do not reserve", and the mark of an unreserved cache
compThreadID == 0     \* OMRCodeGenerator.cpp passes 0 on every thread

Max(m, n) == IF m < n THEN n ELSE m
RoundUp(n) == ((n + Align - 1) \div Align) * Align
RoundDown(n) == (n \div Align) * Align

\* performSizeAdjustments for a request without cold code.
Adjusted(n) == RoundUp(n + Header)

-----------------------------------------------------------------------------
(***************************************************************************)
(* Caches.                                                                 *)
(***************************************************************************)

\* getFreeContiguousSpace of a cache just initialized on segment s.
Capacity(s) == RoundDown(s.top - Helpers) - RoundUp(s.base + PointerSize)

\* CodeCache::initialize, on its success.
NewCodeCache(s) == [top |-> s.top, hole |-> Capacity(s),
                    reservingCompThreadID |-> NotReserving,
                    lastAllocatedBlock |-> NoThread]

\* The first cache of the list among those of S, or NoCache.
FirstCache(S) ==
  IF \E i \in 1 .. Len(codeCacheList) : codeCacheList[i] \in S
  THEN codeCacheList[CHOOSE i \in 1 .. Len(codeCacheList) :
         /\ codeCacheList[i] \in S
         /\ \A j \in 1 .. i - 1 : codeCacheList[j] \notin S]
  ELSE NoCache

\* Is a an address of cache c?  The test includes the address after its end.
Encompasses(c, a) == c =< a /\ a =< codeCaches[c].top

findCodeCacheFromPC(a) == FirstCache({c \in DOMAIN codeCaches : Encompasses(c, a)})

NumReserved == Cardinality({i \in 1 .. Len(codeCacheList) :
                              codeCacheList[i] \in reserved})

\* Mutant: one cache too many.
canAddOneTooMany == curNumberOfCodeCaches =< MaxCaches

canAddNewCodeCache == curNumberOfCodeCaches < MaxCaches

\* CodeCache::reserve and CodeCache::unreserve under the list monitor.
reserve(c, id) == /\ reserved' = reserved \cup {c}
                  /\ codeCaches' = [codeCaches EXCEPT ![c].reservingCompThreadID = id]
\* Mutant: only the thread recorded in the cache may unreserve it.
unreserveIfRecorded(c) ==
  /\ reserved' = IF codeCaches[c].reservingCompThreadID = NotReserving
                 THEN reserved ELSE reserved \ {c}
  /\ codeCaches' = [codeCaches EXCEPT ![c].reservingCompThreadID = NotReserving]

unreserve(c) == /\ reserved' = reserved \ {c}
                /\ codeCaches' = [codeCaches EXCEPT ![c].reservingCompThreadID = NotReserving]

-----------------------------------------------------------------------------
(***************************************************************************)
(* reserveCodeCache.                                                       *)
(***************************************************************************)

Goto(t, label) == pc' = [pc EXCEPT ![t] = label]

\* A thread of the embedding program calls compileMethodFromDetails.
StartCompile(t) ==
  /\ pc[t] = "idle"
  /\ Goto(t, "reserve")
  /\ UNCHANGED << shared, locals >>

\* Mutant: reserved caches are not skipped.
EligibleAll == DOMAIN codeCaches

\* Nobody may use a cache that is reserved.
Eligible == DOMAIN codeCaches \ reserved

\* The scan of the list, with its reservation, is one critical section.
ReserveScan(t) ==
  /\ pc[t] = "reserve"
  /\ LET c == FirstCache(Eligible)
     IN  IF c # NoCache
         THEN /\ reserve(c, compThreadID)
              /\ cache' = [cache EXCEPT ![t] = c]
              /\ Goto(t, "compile")
              /\ UNCHANGED numReserved
         ELSE /\ numReserved' = [numReserved EXCEPT ![t] = NumReserved]
              /\ Goto(t, "reserveGrow")
              /\ UNCHANGED << reserved, codeCaches, cache >>
  /\ UNCHANGED << segmentAlloc, codeCacheList, curNumberOfCodeCaches,
                  codeCacheFull, hasFailed, found, segment, tid, retries, size >>

\* Outside of any monitor: may there be a new cache?  If not, the
\* compilation fails without a cache (the code generator throws).
ReserveGrow(t) ==
  /\ pc[t] = "reserveGrow"
  /\ IF canAddNewCodeCache
     THEN /\ tid' = [tid EXCEPT ![t] = compThreadID]
          /\ Goto(t, "carve")
          /\ UNCHANGED << hasFailed, codeCacheFull >>
     ELSE /\ hasFailed' = (hasFailed \/ numReserved[t] > 0)
          /\ codeCacheFull' = (codeCacheFull \/ numReserved[t] = 0)
          /\ Goto(t, "unreserve")
          /\ UNCHANGED tid
  /\ UNCHANGED << segmentAlloc, codeCacheList, curNumberOfCodeCaches, codeCaches,
                  reserved, cache, found, segment, retries, size, numReserved >>

-----------------------------------------------------------------------------
(***************************************************************************)
(* allocateCodeCacheFromNewSegment, called with a cache (from              *)
(* allocateCodeMemoryWithRetries) or without (from reserveCodeCache).      *)
(***************************************************************************)

\* Mutant: just the request and the helpers.
SegmentSizeOnce(t) ==
  IF cache[t] # NoCache /\ CodeCacheSize < size[t] + Helpers
  THEN RoundUp(size[t] + Helpers)
  ELSE CodeCacheSize

\* The size of the segment a thread asks for.
SegmentSize(t) ==
  LET allocateSize == 2 * (size[t] + Helpers)
  IN  IF cache[t] # NoCache /\ CodeCacheSize < allocateSize
      THEN RoundUp(allocateSize)
      ELSE CodeCacheSize

\* The repository begins with a pointer: the first segment is shorter.
CarvedSize(t) == IF segmentAlloc = PointerSize
                 THEN SegmentSize(t) - PointerSize ELSE SegmentSize(t)

\* carveCodeCacheSpaceFromRepository, under the repository monitor.
Carve(t) ==
  /\ pc[t] = "carve"
  /\ IF RepositorySize - segmentAlloc >= CarvedSize(t)
     THEN /\ segment' = [segment EXCEPT ![t] =
                           [base |-> segmentAlloc, top |-> segmentAlloc + CarvedSize(t)]]
          /\ segmentAlloc' = segmentAlloc + CarvedSize(t)
          /\ Goto(t, "construct")
     ELSE /\ Goto(t, "noNewCache")
          /\ UNCHANGED << segment, segmentAlloc >>
  /\ UNCHANGED << codeCacheList, curNumberOfCodeCaches, codeCaches, reserved,
                  codeCacheFull, hasFailed, cache, found, tid, retries, size,
                  numReserved >>

\* allocateCodeCacheObject succeeds; the cache, which no other thread sees
\* yet, is marked reserved if a thread is to reserve it.
Construct(t) ==
  /\ pc[t] = "construct"
  /\ LET c == segment[t].base
         reserves == tid[t] >= -1
     IN  /\ codeCaches' = [d \in DOMAIN codeCaches \cup {c} |->
              IF d = c
              THEN [NewCodeCache(segment[t]) EXCEPT !.reservingCompThreadID =
                      IF reserves THEN tid[t] ELSE NotReserving]
              ELSE codeCaches[d]]
         /\ reserved' = IF reserves THEN reserved \cup {c} ELSE reserved
         /\ found' = [found EXCEPT ![t] = c]
  /\ segment' = [segment EXCEPT ![t] = NoCache]
  /\ Goto(t, "link")
  /\ UNCHANGED << segmentAlloc, codeCacheList, curNumberOfCodeCaches, codeCacheFull,
                  hasFailed, cache, tid, retries, size, numReserved >>

\* allocateCodeCacheObject finds no memory.
ConstructFails(t) ==
  /\ pc[t] = "construct"
  /\ InitMayFail
  /\ Goto(t, "undoCarving")
  /\ UNCHANGED << shared, locals >>

\* Mutant: the carving is undone whatever lies on top of it.
IsOnTopUnchecked(s) == segmentAlloc >= s.top

\* undoCarvingFromRepository, under the repository monitor: the space is
\* lost if somebody has carved on top of it in between.
IsOnTop(s) == segmentAlloc = s.top

UndoCarving(t) ==
  /\ pc[t] = "undoCarving"
  /\ segmentAlloc' = IF IsOnTop(segment[t])
                     THEN segmentAlloc - (segment[t].top - segment[t].base)
                     ELSE segmentAlloc
  /\ segment' = [segment EXCEPT ![t] = NoCache]
  /\ Goto(t, "noNewCache")
  /\ UNCHANGED << codeCacheList, curNumberOfCodeCaches, codeCaches, reserved,
                  codeCacheFull, hasFailed, cache, found, tid, retries, size,
                  numReserved >>

\* addCodeCache, under the list monitor.
Link(t) ==
  /\ pc[t] = "link"
  /\ codeCacheList' = << found[t] >> \o codeCacheList
  /\ curNumberOfCodeCaches' = curNumberOfCodeCaches + 1
  /\ IF cache[t] = NoCache
     THEN /\ cache' = [cache EXCEPT ![t] = found[t]]
          /\ found' = [found EXCEPT ![t] = NoCache]
          /\ Goto(t, "compile")
     ELSE /\ Goto(t, "switch")
          /\ UNCHANGED << cache, found >>
  /\ UNCHANGED << segmentAlloc, codeCaches, reserved, codeCacheFull, hasFailed,
                  segment, tid, retries, size, numReserved >>

\* No new cache: both callers give up, reserveCodeCache declares the code
\* caches full only if it has seen no reserved one.
NoNewCache(t) ==
  /\ pc[t] = "noNewCache"
  /\ codeCacheFull' = (codeCacheFull \/ cache[t] # NoCache \/ numReserved[t] = 0)
  /\ Goto(t, "unreserve")
  /\ UNCHANGED << segmentAlloc, codeCacheList, curNumberOfCodeCaches, codeCaches,
                  reserved, hasFailed, locals >>

-----------------------------------------------------------------------------
(***************************************************************************)
(* allocateCodeMemoryWithRetries.                                          *)
(***************************************************************************)

\* The code generator asks for n units.
Request(t) ==
  /\ pc[t] = "compile"
  /\ \E n \in Sizes : size' = [size EXCEPT ![t] = n]
  /\ retries' = [retries EXCEPT ![t] = Retries]
  /\ Goto(t, "attempt")
  /\ UNCHANGED << shared, cache, found, segment, tid, numReserved >>

\* Entry of the routine: the bound on retries, and the identifier of the
\* compilation thread, read back from the cache outside of any monitor.
Attempt(t) ==
  /\ pc[t] = "attempt"
  /\ IF retries[t] < 0
     THEN /\ Goto(t, "unreserve")
          /\ UNCHANGED << retries, tid >>
     ELSE /\ retries' = [retries EXCEPT ![t] = @ - 1]
          /\ tid' = [tid EXCEPT ![t] = codeCaches[cache[t]].reservingCompThreadID]
          /\ Goto(t, "allocate")
  /\ UNCHANGED << shared, cache, found, segment, size, numReserved >>

Fits(c, n) == codeCaches[c].hole >= Adjusted(n)

\* allocateCodeMemory of the cache, under the cache's monitor.  On the last
\* trial the list is not scanned, and no reserved cache is counted.
Allocate(t) ==
  /\ pc[t] = "allocate"
  /\ IF Fits(cache[t], size[t])
     THEN /\ codeCaches' = [codeCaches EXCEPT
               ![cache[t]].hole = @ - Adjusted(size[t]),
               ![cache[t]].lastAllocatedBlock = t]
          /\ Goto(t, "allocated")
          /\ UNCHANGED numReserved
     ELSE /\ numReserved' = [numReserved EXCEPT ![t] = 0]
          /\ Goto(t, IF retries[t] > 0 THEN "scan" ELSE "grow")
          /\ UNCHANGED codeCaches
  /\ UNCHANGED << segmentAlloc, codeCacheList, curNumberOfCodeCaches, reserved,
                  codeCacheFull, hasFailed, cache, found, segment, tid, retries, size >>

\* What the scan looks for: strictly more room than the request needs.
HasRoom(c, n) == codeCaches[c].hole > Adjusted(n)

\* Mutant: the scan ends at the first cache of the list.
FirstWithRoomAtHead(n) ==
  IF codeCacheList # << >> /\ codeCacheList[1] \in Eligible /\ HasRoom(codeCacheList[1], n)
  THEN codeCacheList[1] ELSE NoCache

FirstWithRoom(n) == FirstCache({c \in Eligible : HasRoom(c, n)})

\* The scan of the list, with its reservation, is one critical section.
Scan(t) ==
  /\ pc[t] = "scan"
  /\ LET c == FirstWithRoom(size[t])
     IN  IF c # NoCache
         THEN /\ reserve(c, tid[t])
              /\ found' = [found EXCEPT ![t] = c]
              /\ Goto(t, "switch")
              /\ UNCHANGED numReserved
         ELSE /\ numReserved' = [numReserved EXCEPT ![t] = NumReserved]
              /\ Goto(t, "grow")
              /\ UNCHANGED << reserved, codeCaches, found >>
  /\ UNCHANGED << segmentAlloc, codeCacheList, curNumberOfCodeCaches, codeCacheFull,
                  hasFailed, cache, segment, tid, retries, size >>

\* Mutant: the old cache stays reserved.
SwitchKeepsOld(t) ==
  /\ pc[t] = "switch"
  /\ Goto(t, "switched")
  /\ UNCHANGED << shared, locals >>

\* The old cache is unreserved by two writes outside of any monitor.
SwitchReleases(t) ==
  /\ pc[t] = "switch"
  /\ reserved' = reserved \ {cache[t]}
  /\ Goto(t, "switched")
  /\ UNCHANGED << segmentAlloc, codeCacheList, curNumberOfCodeCaches, codeCaches,
                  codeCacheFull, hasFailed, locals >>

SwitchForgets(t) ==
  /\ pc[t] = "switched"
  /\ codeCaches' = [codeCaches EXCEPT ![cache[t]].reservingCompThreadID = NotReserving]
  /\ cache' = [cache EXCEPT ![t] = found[t]]
  /\ found' = [found EXCEPT ![t] = NoCache]
  /\ Goto(t, "attempt")
  /\ UNCHANGED << segmentAlloc, codeCacheList, curNumberOfCodeCaches, reserved,
                  codeCacheFull, hasFailed, segment, tid, retries, size, numReserved >>

\* No existing cache will do: may there be a new one?  One reserved cache
\* is the thread's own.
Grow(t) ==
  /\ pc[t] = "grow"
  /\ IF canAddNewCodeCache
     THEN /\ Goto(t, "carve")
          /\ UNCHANGED << hasFailed, codeCacheFull >>
     ELSE /\ hasFailed' = (hasFailed \/ numReserved[t] > 1)
          /\ codeCacheFull' = (codeCacheFull \/ ~ numReserved[t] > 1)
          /\ Goto(t, "unreserve")
  /\ UNCHANGED << segmentAlloc, codeCacheList, curNumberOfCodeCaches, codeCaches,
                  reserved, locals >>

-----------------------------------------------------------------------------
(***************************************************************************)
(* The rest of the compilation.                                            *)
(***************************************************************************)

\* More code memory is needed (a table before the method body).
Continue(t) ==
  /\ pc[t] = "allocated"
  /\ Goto(t, "compile")
  /\ UNCHANGED << shared, locals >>

\* trimCodeMemoryToActualSize, outside of any monitor: the hole grows if the
\* block is still the last one.  Test and assignment are one step: of a cache
\* this module keeps only the room that is left.
Trim(t) ==
  /\ pc[t] = "allocated"
  /\ \E n \in TrimSizes :
       codeCaches' = IF codeCaches[cache[t]].lastAllocatedBlock = t
                     THEN [codeCaches EXCEPT ![cache[t]].hole =
                             @ + Adjusted(size[t]) - Adjusted(Max(size[t] - n, 0))]
                     ELSE codeCaches
  /\ Goto(t, "unreserve")
  /\ UNCHANGED << segmentAlloc, codeCacheList, curNumberOfCodeCaches, reserved,
                  codeCacheFull, hasFailed, locals >>

\* An exception ends the compilation between two of its requests.
Abort(t) ==
  /\ pc[t] \in {"compile", "allocated"}
  /\ Goto(t, "unreserve")
  /\ UNCHANGED << shared, locals >>

\* unreserveCodeCache, under the list monitor: on every way out.
Unreserve(t) ==
  /\ pc[t] = "unreserve"
  /\ IF cache[t] = NoCache THEN UNCHANGED << reserved, codeCaches >>
                           ELSE unreserve(cache[t])
  /\ cache' = [cache EXCEPT ![t] = NoCache]
  /\ tid' = [tid EXCEPT ![t] = compThreadID]
  /\ retries' = [retries EXCEPT ![t] = Retries]
  /\ size' = [size EXCEPT ![t] = 0]
  /\ numReserved' = [numReserved EXCEPT ![t] = 0]
  /\ Goto(t, "idle")
  /\ UNCHANGED << segmentAlloc, codeCacheList, curNumberOfCodeCaches, codeCacheFull,
                  hasFailed, found, segment >>

-----------------------------------------------------------------------------
\* initialize(true, 1): the repository with one cache that nobody reserves.
\* The counter is set to 1 even if that cache could not be created.
FirstSegment == [base |-> PointerSize, top |-> CodeCacheSize]

Init ==
  /\ \/ /\ segmentAlloc = CodeCacheSize
        /\ codeCacheList = << PointerSize >>
        /\ codeCaches = [c \in {PointerSize} |-> NewCodeCache(FirstSegment)]
     \/ /\ InitMayFail
        /\ segmentAlloc = PointerSize
        /\ codeCacheList = << >>
        /\ codeCaches = [c \in {} |-> NewCodeCache(FirstSegment)]
  /\ curNumberOfCodeCaches = 1
  /\ reserved = {}
  /\ codeCacheFull = FALSE
  /\ hasFailed = FALSE
  /\ pc = [t \in Threads |-> "idle"]
  /\ cache = [t \in Threads |-> NoCache]
  /\ found = [t \in Threads |-> NoCache]
  /\ segment = [t \in Threads |-> NoCache]
  /\ tid = [t \in Threads |-> compThreadID]
  /\ retries = [t \in Threads |-> Retries]
  /\ size = [t \in Threads |-> 0]
  /\ numReserved = [t \in Threads |-> 0]

\* The steps of a compilation once it has begun.
Compile(t) ==
  \/ ReserveScan(t) \/ ReserveGrow(t)
  \/ Carve(t) \/ Construct(t) \/ ConstructFails(t) \/ UndoCarving(t) \/ Link(t)
  \/ NoNewCache(t)
  \/ Request(t) \/ Attempt(t) \/ Allocate(t) \/ Scan(t)
  \/ SwitchReleases(t) \/ SwitchForgets(t) \/ Grow(t)
  \/ Continue(t) \/ Trim(t) \/ Abort(t) \/ Unreserve(t)

Next == \E t \in Threads : StartCompile(t) \/ Compile(t)

\* A thread inside a compilation keeps running: every monitor is held for a
\* bounded time, and none is held while another thread is waited for.
Fairness == \A t \in Threads : WF_vars(Compile(t))

Spec == Init /\ [][Next]_vars /\ Fairness

-----------------------------------------------------------------------------
(***************************************************************************)
(* Properties.                                                             *)
(***************************************************************************)
Caches == DOMAIN codeCaches
Segments == [base : 0 .. RepositorySize, top : 0 .. RepositorySize]

\* Type correctness of the manager's state and of the threads' locals.
TypeOK ==
  /\ segmentAlloc \in 0 .. RepositorySize
  /\ Caches \subseteq 0 .. RepositorySize
  /\ codeCacheList \in Seq(Caches)
  /\ curNumberOfCodeCaches \in Nat
  /\ codeCaches \in [Caches -> [top : 0 .. RepositorySize,
                                hole : 0 .. RepositorySize,
                                reservingCompThreadID : {NotReserving, compThreadID},
                                lastAllocatedBlock : Threads \cup {NoThread}]]
  /\ reserved \subseteq Caches
  /\ codeCacheFull \in BOOLEAN /\ hasFailed \in BOOLEAN
  /\ pc \in [Threads -> {"idle", "reserve", "reserveGrow", "carve", "construct",
                         "undoCarving", "link", "noNewCache", "compile", "attempt",
                         "allocate", "scan", "switch", "switched", "grow",
                         "allocated", "unreserve"}]
  /\ cache \in [Threads -> Caches \cup {NoCache}]
  /\ found \in [Threads -> Caches \cup {NoCache}]
  /\ segment \in [Threads -> Segments \cup {NoCache}]
  /\ tid \in [Threads -> {NotReserving, compThreadID}]
  /\ retries \in [Threads -> -1 .. Retries]
  /\ size \in [Threads -> Sizes \cup {0}]
  /\ numReserved \in [Threads -> Nat]

\* The address ranges of the caches, and of the segments that threads have
\* carved and not yet made a cache of or given back.
CarvedByThread == {segment[t] : t \in {u \in Threads : segment[u] # NoCache}}
CacheSegments == {[base |-> c, top |-> codeCaches[c].top] : c \in Caches}

\* Carving and undoing of carvings by several threads, in any order, never
\* hand the same addresses out twice: segments are apart, and lie in the
\* part of the repository that is carved.
SegmentsDisjoint ==
  /\ \A s \in CacheSegments \cup CarvedByThread :
       PointerSize =< s.base /\ s.base =< s.top /\ s.top =< segmentAlloc
  /\ \A r, s \in CacheSegments \cup CarvedByThread :
       r # s => r.top =< s.base \/ s.top =< r.base
  /\ \A t, u \in Threads : t # u /\ segment[t] # NoCache => segment[t] # segment[u]
  /\ \A t \in Threads : segment[t] \notin CacheSegments

\* The cache found for an address of code is the one that contains it, in
\* whichever order threads have carved and linked the caches, although the
\* search takes the address after the end of a cache for one of its own: it is
\* the next cache's pointer to itself, never code.
LookupFindsOwner ==
  \A i \in 1 .. Len(codeCacheList) :
    LET c == codeCacheList[i]
    IN  \A a \in c + PointerSize .. codeCaches[c].top - 1 : findCodeCacheFromPC(a) = c

\* The memory of the repository is divided soundly whatever threads do and
\* undo: every address belongs to one cache, and lookup finds it
\* (carveCodeCacheSpaceFromRepository, undoCarvingFromRepository).
SegmentsSound == TypeOK /\ SegmentsDisjoint /\ LookupFindsOwner

\* The caches a thread has reserved or works with.
Holds(t) == {cache[t], found[t]} \ {NoCache}

\* No reservation outlives the compilation that made it, on whichever path
\* the compilation ends: a reserved cache is one that some thread holds.
NoLeakedReservation == \A c \in reserved : \E t \in Threads : c \in Holds(t)

\* canAddNewCodeCache is evaluated outside of any monitor and acted upon
\* later: the caches may exceed the configured maximum ("how many code
\* caches allowed to have", OMRCodeCacheConfig.hpp), by no more than one for
\* every thread but one.
OvershootBounded == Len(codeCacheList) =< MaxCaches + Cardinality(Threads) - 1

\* The caches a thread takes for its own: between the two writes that give
\* up the old cache, only the new one.
Owns(t) == (IF pc[t] = "switched" THEN {found[t]} ELSE Holds(t)) \ {NoCache}

\* Reservation is there "to enforce mutually exclusive ownership"
\* (OMRCodeCache.hpp): two threads never own the same cache.
ExclusiveOwnership ==
  \A t, u \in Threads : t # u => Owns(t) \cap Owns(u) = {}

\* Thread t declares the code caches full.
DeclaresFull(t) == ~ codeCacheFull /\ codeCacheFull' /\ pc'[t] # pc[t]

=============================================================================
