----------------------- MODULE CodeCacheManagerProofs -----------------------
(***************************************************************************)
(* Proofs about the code cache manager for any number of threads, caches   *)
(* and sizes: carving and undoing never hand an address out twice, lookup  *)
(* finds the owner of an address, no reservation leaks, the number of      *)
(* caches exceeds its maximum by a bounded amount, and ownership is        *)
(* exclusive until a request has to leave its cache.                       *)
(***************************************************************************)
EXTENDS MCCodeCacheManager, FiniteSetTheorems, SequenceTheorems, NaturalsInduction,
        WellFoundedInduction, TLAPS

-----------------------------------------------------------------------------
(***************************************************************************)
(* The inductive invariant                                                 *)
(***************************************************************************)

\* What a thread has in hand at each point of a compilation.
AtWork == {"compile", "attempt", "allocate", "scan", "switch", "switched", "grow",
           "allocated"}
Control ==
  \A t \in Threads :
    /\ found[t] # NoCache <=> pc[t] \in {"link", "switch", "switched"}
    /\ segment[t] # NoCache <=> pc[t] \in {"construct", "undoCarving"}
    /\ pc[t] \in {"idle", "reserve", "reserveGrow"} => cache[t] = NoCache
    /\ pc[t] \in AtWork => cache[t] # NoCache

\* The block that a thread may trim was cut from the hole of its cache, and
\* fits back into it.
TrimFits ==
  \A t \in Threads :
    pc[t] = "allocated" /\ codeCaches[cache[t]].lastAllocatedBlock = t =>
      codeCaches[cache[t]].hole + Adjusted(size[t]) =< RepositorySize

\* The segments of caches and threads have the size of a code cache, short of
\* the pointer at most.
AllSegments == CacheSegments \cup CarvedByThread
SegmentsLarge == \A s \in AllSegments : s.top - s.base >= CodeCacheSize - PointerSize

\* The repository's own pointer is never carved.
AllocStarted == PointerSize =< segmentAlloc

\* A reserved cache is owned by a thread, even while a thread is between the
\* two writes that give up its old cache.
ReservedOwned == \A c \in reserved : \E t \in Threads : c \in Owns(t)

\* The threads that have found room for one more cache, and have not yet
\* linked it.
Growing == {t \in Threads : pc[t] \in {"carve", "construct", "undoCarving", "link"}}

\* Every cache linked or about to be linked was allowed when there were fewer
\* than MaxCaches.
CountInv ==
  /\ Len(codeCacheList) =< curNumberOfCodeCaches
  /\ curNumberOfCodeCaches + Cardinality(Growing) =< MaxCaches + Cardinality(Threads) - 1

Inv ==
  /\ TypeOK
  /\ Control
  /\ TrimFits
  /\ SegmentsDisjoint
  /\ SegmentsLarge
  /\ AllocStarted
  /\ ReservedOwned
  /\ CountInv

\* Until a request has to leave its cache, no thread is on the paths that do,
\* a new cache is for a thread without one, who reserves it, and every cache
\* in a thread's hands is reserved, by that thread alone.
BeforeSwitch ==
  /\ \A t \in Threads :
       /\ pc[t] \notin {"scan", "grow", "switch", "switched"}
       /\ t \in Growing => cache[t] = NoCache /\ tid[t] = compThreadID
       /\ Owns(t) \subseteq reserved
  /\ ExclusiveOwnership

SwitchInv == ~ switching => BeforeSwitch

-----------------------------------------------------------------------------
(***************************************************************************)
(* Sizes                                                                   *)
(***************************************************************************)

\* Division by the alignment.
LEMMA Division ==
    ASSUME NEW n \in Int
    PROVE  /\ n \div Align \in Int
           /\ (n \div Align) * Align =< n
           /\ n < (n \div Align) * Align + Align
  <1>1. Align \in Nat \ {0}
    BY SizesAssumption
  <1>2. /\ n \div Align \in Int /\ n % Align \in 0 .. Align - 1
        /\ n = Align * (n \div Align) + (n % Align)
    BY <1>1
  <1> QED BY <1>1, <1>2

\* RoundUp adds, and RoundDown takes away, less than one alignment unit.
LEMMA Rounding ==
    ASSUME NEW n \in Int
    PROVE  /\ RoundUp(n) \in Int /\ n =< RoundUp(n) /\ RoundUp(n) =< n + Align - 1
           /\ RoundDown(n) \in Int /\ RoundDown(n) =< n /\ n - Align + 1 =< RoundDown(n)
  <1>1. Align \in Nat \ {0} /\ n + Align - 1 \in Int
    BY SizesAssumption
  <1>2. RoundDown(n) \in Int /\ RoundDown(n) =< n /\ n < RoundDown(n) + Align
    BY <1>1, Division DEF RoundDown
  <1>3. RoundUp(n) \in Int /\ RoundUp(n) =< n + Align - 1 /\ n + Align - 1 < RoundUp(n) + Align
    <2>1. RoundUp(n) = RoundDown(n + Align - 1)
      BY DEF RoundUp, RoundDown
    <2> QED BY <1>1, <2>1, Division DEF RoundDown
  <1> QED BY <1>1, <1>2, <1>3

\* Rounding keeps the order.
LEMMA RoundingMonotone ==
    ASSUME NEW m \in Int, NEW n \in Int, m =< n
    PROVE  RoundUp(m) =< RoundUp(n)
  <1> DEFINE p == (m + Align - 1) \div Align
             q == (n + Align - 1) \div Align
  <1>1. Align \in Nat \ {0} /\ m + Align - 1 \in Int /\ n + Align - 1 \in Int
    BY SizesAssumption
  <1>2. /\ p \in Int /\ q \in Int
        /\ p * Align =< m + Align - 1 /\ n + Align - 1 < q * Align + Align
    BY <1>1, Division
  <1>3. RoundUp(m) = p * Align /\ RoundUp(n) = q * Align
    BY DEF RoundUp
  <1> HIDE DEF p, q
  <1>4. p * Align < (q + 1) * Align
    BY <1>1, <1>2
  <1>5. p < q + 1
    <2>1. SUFFICES ASSUME p >= q + 1 PROVE FALSE
      BY <1>2
    <2>2. p * Align >= (q + 1) * Align
      BY <1>1, <1>2, <2>1
    <2> QED BY <1>1, <1>2, <1>4, <2>2
  <1>6. p * Align =< q * Align
    BY <1>1, <1>2, <1>5
  <1> QED BY <1>3, <1>6

\* The space a request takes.
LEMMA AdjustedSize ==
    ASSUME NEW n \in Nat
    PROVE  /\ Adjusted(n) \in Nat
           /\ \A m \in Nat : m =< n => Adjusted(m) =< Adjusted(n)
  <1>1. Header \in Nat
    BY SizesAssumption
  <1>2. Adjusted(n) \in Nat
    <2>1. n + Header \in Int /\ n + Header >= 0
      BY <1>1
    <2> QED BY <2>1, Rounding DEF Adjusted
  <1>3. ASSUME NEW m \in Nat, m =< n PROVE Adjusted(m) =< Adjusted(n)
    <2>1. m + Header \in Int /\ n + Header \in Int /\ m + Header =< n + Header
      BY <1>1, <1>3
    <2> QED BY ONLY <2>1, RoundingMonotone DEF Adjusted
  <1> QED BY <1>2, <1>3

\* What a trim gives back is at most what was allocated.
LEMMA TrimmedSize ==
    ASSUME NEW n \in Nat, NEW k \in Nat
    PROVE  /\ Adjusted(n) - Adjusted(Max(n - k, 0)) >= 0
           /\ Adjusted(n) - Adjusted(Max(n - k, 0)) =< Adjusted(n)
           /\ Adjusted(n) \in Nat /\ Adjusted(Max(n - k, 0)) \in Nat
  <1>1. Max(n - k, 0) \in Nat /\ Max(n - k, 0) =< n
    BY DEF Max
  <1> QED BY <1>1, AdjustedSize

\* A segment of the size of a code cache, short of the pointer at most, has a
\* hole of its own.
LEMMA CapacityRange ==
    ASSUME NEW s \in Segments, s.top - s.base >= CodeCacheSize - PointerSize
    PROVE  Capacity(s) \in 0 .. RepositorySize
  <1>1. /\ s.top \in Int /\ s.base \in Int /\ s.base >= 0 /\ s.top =< RepositorySize
        /\ s.top - Helpers \in Int /\ s.base + PointerSize \in Int
    BY SizesAssumption DEF Segments, PointerSize
  <1>2. /\ RoundDown(s.top - Helpers) \in Int
        /\ RoundDown(s.top - Helpers) =< s.top - Helpers
        /\ s.top - Helpers - Align + 1 =< RoundDown(s.top - Helpers)
    BY <1>1, Rounding
  <1>3. /\ RoundUp(s.base + PointerSize) \in Int
        /\ s.base + PointerSize =< RoundUp(s.base + PointerSize)
        /\ RoundUp(s.base + PointerSize) =< s.base + PointerSize + Align - 1
    BY <1>1, Rounding
  <1> QED BY <1>1, <1>2, <1>3, SizesAssumption, FirstCacheFits DEF Capacity, PointerSize

\* The size of a request, 0 without one, is a natural number.
LEMMA SizeNatural ==
    ASSUME TypeOK, NEW t \in Threads
    PROVE  size[t] \in Nat
  <1>1. Sizes \cup {0} \subseteq Nat
    BY SizesAssumption
  <1>2. size[t] \in Sizes \cup {0}
    BY DEF TypeOK
  <1> QED BY ONLY <1>1, <1>2, Zenon

\* A thread carves a segment of that size at least.
LEMMA CarvedSizeLarge ==
    ASSUME TypeOK, NEW t \in Threads
    PROVE  /\ CarvedSize(t) \in Nat /\ CarvedSize(t) >= 1
           /\ CarvedSize(t) >= CodeCacheSize - PointerSize
  <1> DEFINE a == 2 * (size[t] + Helpers)
  <1>1. size[t] \in Nat /\ a \in Int
    <2>1. size[t] \in Nat
      BY SizeNatural
    <2>2. Helpers \in Nat
      BY SizesAssumption
    <2> QED BY <2>1, <2>2
  <1>2. RoundUp(a) \in Int /\ a =< RoundUp(a)
    BY <1>1, Rounding
  <1>3. SegmentSize(t) \in Int /\ SegmentSize(t) >= CodeCacheSize
    <2>1. CASE cache[t] # NoCache /\ CodeCacheSize < a
      <3>1. SegmentSize(t) = RoundUp(a)
        BY <2>1 DEF SegmentSize
      <3> HIDE DEF a
      <3> QED BY <1>1, <1>2, <2>1, <3>1, SizesAssumption
    <2>2. CASE ~(cache[t] # NoCache /\ CodeCacheSize < a)
      BY <2>2, SizesAssumption DEF SegmentSize
    <2> QED BY <2>1, <2>2
  <1>4. CodeCacheSize >= 3
    BY SizesAssumption, FirstCacheFits
  <1> QED BY <1>3, <1>4, SizesAssumption DEF CarvedSize, PointerSize

-----------------------------------------------------------------------------
(***************************************************************************)
(* The caches                                                              *)
(***************************************************************************)

CacheRecord == [top : 0 .. RepositorySize, hole : 0 .. RepositorySize,
                reservingCompThreadID : {NotReserving, compThreadID},
                lastAllocatedBlock : Threads \cup {NoThread}]

\* A step that creates no cache and moves none.
CachesKept ==
  /\ Caches' = Caches
  /\ codeCaches' \in [Caches -> CacheRecord]
  /\ \A d \in Caches : codeCaches'[d].top = codeCaches[d].top

\* A step that allocates nothing and gives nothing back.
HolesKept ==
  \A d \in Caches :
    /\ codeCaches'[d].hole = codeCaches[d].hole
    /\ codeCaches'[d].lastAllocatedBlock = codeCaches[d].lastAllocatedBlock

\* Segments change only with the caches.
LEMMA KeptSegments ==
    ASSUME CachesKept
    PROVE  CacheSegments' = CacheSegments
  BY DEF CachesKept, CacheSegments

\* Writing the mark of the reserving thread touches nothing else.
LEMMA MarkWritten ==
    ASSUME TypeOK, NEW c \in Caches, NEW id \in {NotReserving, compThreadID},
           codeCaches' = [codeCaches EXCEPT ![c].reservingCompThreadID = id]
    PROVE  CachesKept /\ HolesKept
  <1>1. codeCaches \in [Caches -> CacheRecord]
    BY DEF TypeOK, CacheRecord
  <1>2. codeCaches[c] \in CacheRecord
    BY <1>1
  <1>3. [codeCaches[c] EXCEPT !.reservingCompThreadID = id] \in CacheRecord
    BY <1>2 DEF CacheRecord
  <1>4. Caches' = Caches /\ codeCaches' \in [Caches -> CacheRecord]
    BY <1>1, <1>3 DEF Caches
  <1>5. ASSUME NEW d \in Caches
        PROVE  /\ codeCaches'[d].top = codeCaches[d].top
               /\ codeCaches'[d].hole = codeCaches[d].hole
               /\ codeCaches'[d].lastAllocatedBlock = codeCaches[d].lastAllocatedBlock
    <2>1. CASE d = c
      <3>1. codeCaches'[c] = [codeCaches[c] EXCEPT !.reservingCompThreadID = id]
        BY <1>1
      <3> QED BY <1>2, <2>1, <3>1 DEF CacheRecord
    <2>2. CASE d # c
      BY <1>1, <2>2
    <2> QED BY <2>1, <2>2
  <1> QED BY <1>4, <1>5 DEF CachesKept, HolesKept

\* The first cache of the list among those of a set is one of the set, and
\* is found if the list has any.
LEMMA FirstCacheFound ==
    ASSUME TypeOK, NEW S
    PROVE  \/ /\ FirstCache(S) = NoCache
              /\ \A i \in 1 .. Len(codeCacheList) : codeCacheList[i] \notin S
           \/ FirstCache(S) \in S /\ FirstCache(S) \in Caches
  <1> DEFINE I == {i \in 1 .. Len(codeCacheList) : codeCacheList[i] \in S}
  <1>1. CASE I = {}
    BY <1>1 DEF FirstCache
  <1>2. CASE I # {}
    <2>1. I \in SUBSET Nat
      OBVIOUS
    <2>2. PICK i \in I : \A j \in I : ~(<< j, i >> \in OpToRel(<, Nat))
      <3> HIDE DEF I
      <3> QED BY <1>2, <2>1, NatLessThanWellFounded, WFMin
    <2>3. \A j \in I : ~(j < i)
      BY <2>1, <2>2 DEF OpToRel
    <2> DEFINE P(k) == /\ codeCacheList[k] \in S
                       /\ \A j \in 1 .. k - 1 : codeCacheList[j] \notin S
               k == CHOOSE k \in 1 .. Len(codeCacheList) : P(k)
    <2>4. i \in 1 .. Len(codeCacheList) /\ Len(codeCacheList) \in Nat
      BY LenProperties DEF TypeOK
    <2>5. P(i)
      BY <2>3, <2>4
    <2>6. k \in 1 .. Len(codeCacheList) /\ P(k)
      <3> HIDE DEF P
      <3> QED BY <2>4, <2>5
    <2>7. FirstCache(S) = codeCacheList[k]
      BY <1>2 DEF FirstCache
    <2>8. codeCacheList[k] \in Caches
      <3> HIDE DEF k
      <3> QED BY <2>6, ElementOfSeq DEF TypeOK
    <2> QED BY <2>6, <2>7, <2>8
  <1> QED BY <1>1, <1>2

-----------------------------------------------------------------------------
(***************************************************************************)
(* Types and control                                                       *)
(***************************************************************************)

\* Counting reserved caches yields a number.
LEMMA NumReservedNatural ==
    ASSUME TypeOK
    PROVE  NumReserved \in Nat
  <1> DEFINE I == {i \in 1 .. Len(codeCacheList) : codeCacheList[i] \in reserved}
  <1>1. Len(codeCacheList) \in Nat
    BY LenProperties DEF TypeOK
  <1>2. IsFiniteSet(1 .. Len(codeCacheList)) /\ I \in SUBSET (1 .. Len(codeCacheList))
    BY <1>1, FS_Interval
  <1>3. IsFiniteSet(I)
    BY <1>2, FS_Subset
  <1> QED BY <1>3, FS_CardinalityType DEF NumReserved

\* A step that keeps the caches keeps the types that depend on them, if the
\* variables that hold caches keep theirs.
LEMMA CachesTyped ==
    ASSUME TypeOK, CachesKept
    PROVE  /\ Caches' \subseteq 0 .. RepositorySize
           /\ codeCaches' \in [Caches' -> [top : 0 .. RepositorySize,
                hole : 0 .. RepositorySize,
                reservingCompThreadID : {NotReserving, compThreadID},
                lastAllocatedBlock : Threads \cup {NoThread}]]
  BY DEF TypeOK, CachesKept, CacheRecord

\* The steps that change neither the caches nor the repository keep the types.
LEMMA QuietTypes ==
    ASSUME Inv, NEW t \in Threads,
           \/ StartCompile(t) \/ ReserveGrow(t) \/ ConstructFails(t) \/ NoNewCache(t)
           \/ Request(t) \/ Attempt(t) \/ Grow(t) \/ Continue(t) \/ Abort(t)
           \/ SwitchReleases(t)
    PROVE  TypeOK'
  <1> USE DEF shared, locals, Goto, Caches
  <1>1. CASE StartCompile(t)
    BY <1>1 DEF StartCompile, Inv, TypeOK
  <1>2. CASE ReserveGrow(t)
    BY <1>2 DEF ReserveGrow, Inv, TypeOK
  <1>3. CASE ConstructFails(t)
    BY <1>3 DEF ConstructFails, Inv, TypeOK
  <1>4. CASE NoNewCache(t)
    BY <1>4 DEF NoNewCache, Inv, TypeOK
  <1>5. CASE Request(t)
    <2>1. PICK n \in Sizes : size' = [size EXCEPT ![t] = n]
      BY <1>5 DEF Request
    <2>2. Retries \in -1 .. Retries
      BY SizesAssumption
    <2>3. retries' \in [Threads -> -1 .. Retries] /\ size' \in [Threads -> Sizes \cup {0}]
      BY <1>5, <2>1, <2>2 DEF Request, Inv, TypeOK
    <2> QED BY <1>5, <2>3 DEF Request, Inv, TypeOK
  <1>6. CASE Attempt(t)
    <2>1. cache[t] \in Caches
      BY <1>6 DEF Attempt, Inv, TypeOK, Control, AtWork
    <2>2. codeCaches[cache[t]].reservingCompThreadID \in {NotReserving, compThreadID}
      BY <2>1 DEF Inv, TypeOK
    <2>3. tid' \in [Threads -> {NotReserving, compThreadID}]
      BY <1>6, <2>2 DEF Attempt, Inv, TypeOK
    <2>4. retries' \in [Threads -> -1 .. Retries]
      <3>1. retries \in [Threads -> -1 .. Retries]
        BY DEF Inv, TypeOK
      <3>2. CASE retries[t] < 0
        BY <1>6, <3>1, <3>2 DEF Attempt
      <3>3. CASE ~(retries[t] < 0)
        <4>1. retries' = [retries EXCEPT ![t] = retries[t] - 1]
          BY <1>6, <3>3 DEF Attempt
        <4>2. retries[t] - 1 \in -1 .. Retries
          BY <3>1, <3>3, SizesAssumption
        <4> QED BY <3>1, <4>1, <4>2
      <3> QED BY <3>2, <3>3
    <2>5. pc' = [pc EXCEPT ![t] = "unreserve"] \/ pc' = [pc EXCEPT ![t] = "allocate"]
      BY <1>6 DEF Attempt
    <2> QED BY <1>6, <2>3, <2>4, <2>5 DEF Attempt, Inv, TypeOK
  <1>7. CASE Grow(t)
    BY <1>7 DEF Grow, Inv, TypeOK
  <1>8. CASE Continue(t)
    BY <1>8 DEF Continue, Inv, TypeOK
  <1>9. CASE Abort(t)
    BY <1>9 DEF Abort, Inv, TypeOK
  <1>10. CASE SwitchReleases(t)
    BY <1>10 DEF SwitchReleases, Inv, TypeOK
  <1> QED BY <1>1, <1>2, <1>3, <1>4, <1>5, <1>6, <1>7, <1>8, <1>9, <1>10

\* reserve and unreserve mark a cache and nothing else.
LEMMA ReserveMarks ==
    ASSUME TypeOK, NEW c \in Caches
    PROVE  /\ \A id \in {NotReserving, compThreadID} :
                reserve(c, id) => /\ CachesKept /\ HolesKept
                                  /\ reserved' = reserved \cup {c}
                                  /\ reserved' \subseteq Caches
           /\ unreserve(c) => /\ CachesKept /\ HolesKept
                              /\ reserved' = reserved \ {c}
                              /\ reserved' \subseteq Caches
  <1>1. reserved \subseteq Caches
    BY DEF TypeOK
  <1>2. ASSUME NEW id \in {NotReserving, compThreadID}, reserve(c, id)
        PROVE  CachesKept /\ HolesKept
    BY <1>2, MarkWritten DEF reserve
  <1>3. ASSUME unreserve(c) PROVE CachesKept /\ HolesKept
    BY <1>3, MarkWritten DEF unreserve
  <1> QED BY <1>1, <1>2, <1>3 DEF reserve, unreserve

\* The scans reserve a cache that was not reserved, or reserve nothing.
LEMMA ScanOutcome ==
    ASSUME Inv, NEW t \in Threads, ReserveScan(t) \/ Scan(t)
    PROVE  \/ \E c \in Caches \ reserved :
                /\ CachesKept /\ HolesKept
                /\ reserved' = reserved \cup {c}
                /\ \/ /\ ReserveScan(t) /\ cache' = [cache EXCEPT ![t] = c]
                      /\ pc' = [pc EXCEPT ![t] = "compile"] /\ UNCHANGED found
                   \/ /\ Scan(t) /\ found' = [found EXCEPT ![t] = c]
                      /\ pc' = [pc EXCEPT ![t] = "switch"] /\ UNCHANGED cache
                /\ UNCHANGED numReserved
           \/ /\ UNCHANGED << reserved, codeCaches, cache, found >>
              /\ numReserved' = [numReserved EXCEPT ![t] = NumReserved]
              /\ pc' = [pc EXCEPT ![t] = IF ReserveScan(t) THEN "reserveGrow" ELSE "grow"]
  <1>1. TypeOK /\ tid[t] \in {NotReserving, compThreadID}
    BY DEF Inv, TypeOK
  <1>2. CASE ReserveScan(t)
    <2> DEFINE c == FirstCache(Eligible)
    <2>1. c = NoCache \/ c \in Caches \ reserved
      BY <1>1, FirstCacheFound DEF Eligible, Caches
    <2>2. CASE c = NoCache
      BY <1>2, <2>2 DEF ReserveScan, Goto
    <2>3. CASE c \in Caches \ reserved
      <3>1. c # NoCache
        BY <1>1, <2>3, NoCacheAssumption DEF TypeOK
      <3>2. /\ reserve(c, compThreadID) /\ cache' = [cache EXCEPT ![t] = c]
            /\ pc' = [pc EXCEPT ![t] = "compile"] /\ UNCHANGED << numReserved, found >>
        BY <1>2, <3>1 DEF ReserveScan, Goto
      <3> HIDE DEF c
      <3>3. CachesKept /\ HolesKept /\ reserved' = reserved \cup {c}
        BY <1>1, <2>3, <3>2, ReserveMarks
      <3> QED BY <1>2, <2>3, <3>2, <3>3
    <2> QED BY <2>1, <2>2, <2>3
  <1>3. CASE Scan(t)
    <2> DEFINE c == FirstWithRoom(size[t])
    <2>1. c = NoCache \/ c \in Caches \ reserved
      BY <1>1, FirstCacheFound DEF FirstWithRoom, Eligible, Caches
    <2>0. ~ReserveScan(t)
      BY <1>3 DEF ReserveScan, Scan
    <2>2. CASE c = NoCache
      BY <1>3, <2>0, <2>2 DEF Scan, Goto
    <2>3. CASE c \in Caches \ reserved
      <3>1. c # NoCache
        BY <1>1, <2>3, NoCacheAssumption DEF TypeOK
      <3>2. /\ reserve(c, tid[t]) /\ found' = [found EXCEPT ![t] = c]
            /\ pc' = [pc EXCEPT ![t] = "switch"] /\ UNCHANGED << numReserved, cache >>
        BY <1>3, <3>1 DEF Scan, Goto
      <3> HIDE DEF c
      <3>3. CachesKept /\ HolesKept /\ reserved' = reserved \cup {c}
        BY <1>1, <2>3, <3>2, ReserveMarks
      <3> QED BY <1>3, <2>3, <3>2, <3>3
    <2> QED BY <2>1, <2>2, <2>3
  <1> QED BY <1>2, <1>3

\* The segment in a thread's hands lies in the carved part of the repository.
LEMMA SegmentInHand ==
    ASSUME Inv, NEW t \in Threads, pc[t] \in {"construct", "undoCarving"}
    PROVE  /\ segment[t] \in Segments
           /\ segment[t] \in CarvedByThread
           /\ PointerSize =< segment[t].base /\ segment[t].base < segment[t].top
           /\ segment[t].top =< segmentAlloc
           /\ segment[t].top - segment[t].base >= CodeCacheSize - PointerSize
  <1>1. segment[t] # NoCache /\ segment[t] \in Segments
    BY DEF Inv, TypeOK, Control
  <1>2. segment[t] \in CarvedByThread
    BY <1>1 DEF CarvedByThread
  <1>3. PointerSize =< segment[t].base /\ segment[t].top =< segmentAlloc
    BY <1>2 DEF Inv, SegmentsDisjoint
  <1>4. segment[t].top - segment[t].base >= CodeCacheSize - PointerSize
    BY <1>2 DEF Inv, SegmentsLarge, AllSegments
  <1>5. segment[t].base \in Int /\ segment[t].top \in Int
    BY <1>1, SizesAssumption DEF Segments
  <1> QED BY <1>1, <1>2, <1>3, <1>4, <1>5, SizesAssumption, FirstCacheFits DEF PointerSize

\* allocateCodeCacheObject turns the segment of the thread into a cache.
LEMMA ConstructEffect ==
    ASSUME Inv, NEW t \in Threads, Construct(t)
    PROVE  /\ segment[t].base \in 0 .. RepositorySize \ Caches
           /\ Caches' = Caches \cup {segment[t].base}
           /\ codeCaches' \in [Caches' -> CacheRecord]
           /\ \A d \in Caches : codeCaches'[d] = codeCaches[d]
           /\ codeCaches'[segment[t].base].top = segment[t].top
           /\ codeCaches'[segment[t].base].hole = Capacity(segment[t])
           /\ reserved' = IF tid[t] >= -1 THEN reserved \cup {segment[t].base} ELSE reserved
           /\ found' = [found EXCEPT ![t] = segment[t].base]
           /\ segment' = [segment EXCEPT ![t] = NoCache]
           /\ pc' = [pc EXCEPT ![t] = "link"]
  <1> DEFINE c == segment[t].base
  <1>1. pc[t] = "construct"
    BY DEF Construct
  <1>2. /\ segment[t] \in Segments /\ segment[t] \in CarvedByThread
        /\ segment[t].top - segment[t].base >= CodeCacheSize - PointerSize
        /\ segment[t].base < segment[t].top
    BY <1>1, SegmentInHand
  <1>3. c \in 0 .. RepositorySize /\ segment[t].top \in 0 .. RepositorySize
    BY <1>2 DEF Segments
  <1>4. c \notin Caches
    <2>1. SUFFICES ASSUME c \in Caches PROVE FALSE
      OBVIOUS
    <2> DEFINE s == [base |-> c, top |-> codeCaches[c].top]
    <2>2. s \in CacheSegments
      BY <2>1 DEF CacheSegments
    <2>3. segment[t] # s
      BY <2>2 DEF Inv, SegmentsDisjoint
    <2>4. segment[t].top =< s.base \/ s.top =< segment[t].base
      BY <1>2, <2>2, <2>3 DEF Inv, SegmentsDisjoint
    <2>5. s.top - s.base >= CodeCacheSize - PointerSize
      BY <2>2 DEF Inv, SegmentsLarge, AllSegments
    <2>6. s.top \in Int /\ s.base = c
      <3>1. codeCaches[c] \in CacheRecord
        BY <2>1 DEF Inv, TypeOK, CacheRecord
      <3>2. codeCaches[c].top \in Int
        BY <3>1, SizesAssumption DEF CacheRecord
      <3> QED BY <3>2
    <2> QED BY <1>2, <1>3, <2>4, <2>5, <2>6, SizesAssumption, FirstCacheFits DEF PointerSize
  <1>5. Capacity(segment[t]) \in 0 .. RepositorySize
    BY <1>2, CapacityRange
  <1> DEFINE id == IF tid[t] >= -1 THEN tid[t] ELSE NotReserving
             new == [NewCodeCache(segment[t]) EXCEPT !.reservingCompThreadID = id]
  <1>6. id \in {NotReserving, compThreadID}
    BY DEF Inv, TypeOK
  <1>7. new \in CacheRecord /\ new.top = segment[t].top /\ new.hole = Capacity(segment[t])
    BY <1>3, <1>5, <1>6 DEF NewCodeCache, CacheRecord
  <1>8. codeCaches' = [d \in Caches \cup {c} |-> IF d = c THEN new ELSE codeCaches[d]]
    BY DEF Construct, Caches
  <1>9. /\ reserved' = IF tid[t] >= -1 THEN reserved \cup {c} ELSE reserved
        /\ found' = [found EXCEPT ![t] = c]
        /\ segment' = [segment EXCEPT ![t] = NoCache]
        /\ pc' = [pc EXCEPT ![t] = "link"]
    BY DEF Construct, Goto
  <1>10. codeCaches \in [Caches -> CacheRecord]
    BY DEF Inv, TypeOK, CacheRecord
  <1> HIDE DEF c, new, id
  <1>11. Caches' = Caches \cup {c}
    BY <1>8 DEF Caches
  <1>12. codeCaches' \in [Caches' -> CacheRecord]
    BY <1>7, <1>8, <1>10, <1>11
  <1>13. \A d \in Caches : codeCaches'[d] = codeCaches[d]
    BY <1>4, <1>8
  <1>14. codeCaches'[c].top = segment[t].top /\ codeCaches'[c].hole = Capacity(segment[t])
    BY <1>7, <1>8
  <1> QED BY <1>3, <1>4, <1>9, <1>11, <1>12, <1>13, <1>14 DEF c

\* allocateCodeMemory takes the request from the hole of the cache.
LEMMA AllocateEffect ==
    ASSUME Inv, NEW t \in Threads, Allocate(t)
    PROVE  /\ CachesKept
           /\ \A d \in Caches : d # cache[t] => codeCaches'[d] = codeCaches[d]
           /\ \/ /\ Fits(cache[t], size[t])
                 /\ codeCaches'[cache[t]].hole + Adjusted(size[t]) = codeCaches[cache[t]].hole
                 /\ codeCaches'[cache[t]].lastAllocatedBlock = t
                 /\ pc' = [pc EXCEPT ![t] = "allocated"]
                 /\ UNCHANGED numReserved
              \/ /\ UNCHANGED codeCaches
                 /\ numReserved' = [numReserved EXCEPT ![t] = 0]
                 /\ \/ pc' = [pc EXCEPT ![t] = "scan"]
                    \/ pc' = [pc EXCEPT ![t] = "grow"]
  <1> DEFINE c == cache[t]
  <1>1. c \in Caches /\ codeCaches \in [Caches -> CacheRecord]
    BY DEF Allocate, Inv, TypeOK, Control, AtWork, CacheRecord
  <1>2. codeCaches[c] \in CacheRecord
    BY <1>1
  <1>3. size[t] \in Nat
    BY SizeNatural DEF Inv
  <1>4. Adjusted(size[t]) \in Nat
    BY <1>3, AdjustedSize
  <1>5. CASE Fits(c, size[t])
    <2> DEFINE h == codeCaches[c].hole - Adjusted(size[t])
               new == [codeCaches[c] EXCEPT !.hole = h, !.lastAllocatedBlock = t]
    <2>1. h \in 0 .. RepositorySize /\ h + Adjusted(size[t]) = codeCaches[c].hole
      BY <1>2, <1>4, <1>5, SizesAssumption DEF Fits, CacheRecord
    <2>2. /\ new \in CacheRecord /\ new.hole = h /\ new.lastAllocatedBlock = t
          /\ new.top = codeCaches[c].top
      BY <1>2, <2>1 DEF CacheRecord
    <2>3. codeCaches' = [codeCaches EXCEPT ![c] = new]
      BY <1>1, <1>2, <1>5 DEF Allocate, CacheRecord
    <2>4. pc' = [pc EXCEPT ![t] = "allocated"] /\ UNCHANGED numReserved
      BY <1>5 DEF Allocate, Goto
    <2> HIDE DEF c, h, new
    <2>5. codeCaches'[c] = new /\ \A d \in Caches : d # c => codeCaches'[d] = codeCaches[d]
      BY <1>1, <2>3
    <2>6. Caches' = Caches /\ codeCaches' \in [Caches -> CacheRecord]
      BY <1>1, <2>2, <2>3 DEF Caches
    <2>7. CachesKept
      BY <2>2, <2>5, <2>6 DEF CachesKept
    <2> QED BY <1>5, <2>1, <2>2, <2>4, <2>5, <2>7 DEF c
  <1>6. CASE ~Fits(c, size[t])
    <2>1. UNCHANGED codeCaches /\ numReserved' = [numReserved EXCEPT ![t] = 0]
          /\ pc' = [pc EXCEPT ![t] = IF retries[t] > 0 THEN "scan" ELSE "grow"]
      BY <1>6 DEF Allocate, Goto
    <2>2. CachesKept
      BY <1>1, <2>1 DEF CachesKept, Caches
    <2>3. pc' = [pc EXCEPT ![t] = "scan"] \/ pc' = [pc EXCEPT ![t] = "grow"]
      BY <2>1
    <2> QED BY <2>1, <2>2, <2>3
  <1> QED BY <1>5, <1>6

\* trimCodeMemoryToActualSize gives back part of the thread's own last block
\* to the hole, or nothing.
LEMMA TrimEffect ==
    ASSUME Inv, NEW t \in Threads, Trim(t)
    PROVE  /\ CachesKept
           /\ \A d \in Caches :
                codeCaches'[d].lastAllocatedBlock = codeCaches[d].lastAllocatedBlock
           /\ \A d \in Caches :
                \/ codeCaches'[d].hole = codeCaches[d].hole
                \/ codeCaches[d].lastAllocatedBlock = t
           /\ pc' = [pc EXCEPT ![t] = "unreserve"]
  <1> DEFINE c == cache[t]
  <1>1. c \in Caches /\ codeCaches \in [Caches -> CacheRecord] /\ pc[t] = "allocated"
    BY DEF Trim, Inv, TypeOK, Control, AtWork, CacheRecord
  <1>2. codeCaches[c] \in CacheRecord
    BY <1>1
  <1>3. size[t] \in Nat /\ TrimSizes \subseteq Nat
    BY SizeNatural, SizesAssumption DEF Inv
  <1>4. PICK n \in TrimSizes :
          codeCaches' = IF codeCaches[c].lastAllocatedBlock = t
                        THEN [codeCaches EXCEPT ![c].hole =
                                @ + Adjusted(size[t]) - Adjusted(Max(size[t] - n, 0))]
                        ELSE codeCaches
    BY DEF Trim
  <1>5. pc' = [pc EXCEPT ![t] = "unreserve"]
    BY DEF Trim, Goto
  <1>6. CASE codeCaches[c].lastAllocatedBlock = t
    <2> DEFINE h == codeCaches[c].hole + Adjusted(size[t]) - Adjusted(Max(size[t] - n, 0))
               new == [codeCaches[c] EXCEPT !.hole = h]
    <2>1. n \in Nat
      BY <1>3
    <2>2. /\ Adjusted(size[t]) - Adjusted(Max(size[t] - n, 0)) >= 0
          /\ Adjusted(size[t]) - Adjusted(Max(size[t] - n, 0)) =< Adjusted(size[t])
          /\ Adjusted(size[t]) \in Nat /\ Adjusted(Max(size[t] - n, 0)) \in Nat
      BY <1>3, <2>1, TrimmedSize
    <2>3. codeCaches[c].hole + Adjusted(size[t]) =< RepositorySize
      BY <1>1, <1>6 DEF Inv, TrimFits
    <2>4. codeCaches[c].hole \in 0 .. RepositorySize
      BY <1>2 DEF CacheRecord
    <2>5. h \in 0 .. RepositorySize
      BY <2>2, <2>3, <2>4, SizesAssumption
    <2> HIDE DEF h
    <2>6. /\ new \in CacheRecord /\ new.top = codeCaches[c].top
          /\ new.lastAllocatedBlock = codeCaches[c].lastAllocatedBlock
      BY <1>2, <2>5 DEF CacheRecord
    <2>7. codeCaches' = [codeCaches EXCEPT ![c] = new]
      BY <1>1, <1>4, <1>6 DEF h
    <2> HIDE DEF c, new
    <2>8. codeCaches'[c] = new /\ \A d \in Caches : d # c => codeCaches'[d] = codeCaches[d]
      BY <1>1, <2>7
    <2>9. Caches' = Caches /\ codeCaches' \in [Caches -> CacheRecord]
      BY <1>1, <2>6, <2>7 DEF Caches
    <2>10. CachesKept
      BY <2>6, <2>8, <2>9 DEF CachesKept
    <2> QED BY <1>5, <1>6, <2>6, <2>8, <2>10
  <1>7. CASE codeCaches[c].lastAllocatedBlock # t
    <2>1. codeCaches' = codeCaches
      BY <1>4, <1>7
    <2> QED BY <1>1, <1>5, <2>1 DEF CachesKept, Caches
  <1> QED BY <1>6, <1>7

\* Every step of a thread keeps the types.
LEMMA TypesKept ==
    ASSUME Inv, NEW t \in Threads, StartCompile(t) \/ Compile(t)
    PROVE  TypeOK'
  <1> USE DEF locals, shared
  <1>1. TypeOK /\ codeCaches \in [Caches -> CacheRecord]
    BY DEF Inv, TypeOK, CacheRecord
  <1>2. CASE ReserveScan(t) \/ Scan(t)
    <2>1. UNCHANGED << segmentAlloc, codeCacheList, curNumberOfCodeCaches, codeCacheFull,
                       hasFailed, segment, tid, retries, size >>
      BY <1>2 DEF ReserveScan, Scan
    <2>2. NumReserved \in Nat
      BY <1>1, NumReservedNatural
    <2>3. ASSUME NEW c \in Caches \ reserved, CachesKept,
                 reserved' = reserved \cup {c}, UNCHANGED numReserved,
                 \/ /\ cache' = [cache EXCEPT ![t] = c]
                    /\ pc' = [pc EXCEPT ![t] = "compile"] /\ UNCHANGED found
                 \/ /\ found' = [found EXCEPT ![t] = c]
                    /\ pc' = [pc EXCEPT ![t] = "switch"] /\ UNCHANGED cache
          PROVE  TypeOK'
      <3>1. Caches' = Caches
        BY <2>3 DEF CachesKept
      <3>2. reserved' \subseteq Caches'
        BY <1>1, <2>3, <3>1 DEF TypeOK
      <3>3. /\ cache' \in [Threads -> Caches' \cup {NoCache}]
            /\ found' \in [Threads -> Caches' \cup {NoCache}]
        <4>1. /\ cache \in [Threads -> Caches \cup {NoCache}]
              /\ found \in [Threads -> Caches \cup {NoCache}]
          BY <1>1 DEF TypeOK
        <4>2. /\ cache' = [cache EXCEPT ![t] = c] \/ cache' = cache
              /\ found' = [found EXCEPT ![t] = c] \/ found' = found
          BY <2>3
        <4>3. cache' \in [Threads -> Caches \cup {NoCache}]
          BY <4>1, <4>2
        <4>4. found' \in [Threads -> Caches \cup {NoCache}]
          BY <4>1, <4>2
        <4> QED BY <3>1, <4>3, <4>4
      <3> QED BY <1>1, <2>1, <2>3, <3>1, <3>2, <3>3, CachesTyped DEF TypeOK
    <2>4. ASSUME UNCHANGED << reserved, codeCaches, cache, found >>,
                 numReserved' = [numReserved EXCEPT ![t] = NumReserved],
                 pc' = [pc EXCEPT ![t] = IF ReserveScan(t) THEN "reserveGrow" ELSE "grow"]
          PROVE  TypeOK'
      <3>1. numReserved' \in [Threads -> Nat]
        BY <1>1, <2>2, <2>4 DEF TypeOK
      <3> QED BY <1>1, <2>1, <2>4, <3>1 DEF TypeOK, Caches
    <2> QED BY <1>2, <2>3, <2>4, ScanOutcome
  <1>3. CASE Carve(t)
    <2>1. CarvedSize(t) \in Nat
      BY <1>1, CarvedSizeLarge
    <2>2. CASE RepositorySize - segmentAlloc >= CarvedSize(t)
      <3> DEFINE s == [base |-> segmentAlloc, top |-> segmentAlloc + CarvedSize(t)]
      <3>1. /\ segment' = [segment EXCEPT ![t] = s]
            /\ segmentAlloc' = segmentAlloc + CarvedSize(t)
            /\ pc' = [pc EXCEPT ![t] = "construct"]
        BY <1>3, <2>2 DEF Carve, Goto
      <3>2. segmentAlloc + CarvedSize(t) \in 0 .. RepositorySize
        BY <1>1, <2>1, <2>2, SizesAssumption DEF TypeOK
      <3>3. s \in Segments
        BY <1>1, <3>2 DEF Segments, TypeOK
      <3> HIDE DEF s
      <3> QED BY <1>1, <1>3, <3>1, <3>2, <3>3 DEF Carve, TypeOK, Caches
    <2>3. CASE ~(RepositorySize - segmentAlloc >= CarvedSize(t))
      BY <1>1, <1>3, <2>3 DEF Carve, Goto, TypeOK, Caches
    <2> QED BY <2>2, <2>3
  <1>4. CASE Construct(t)
    <2> DEFINE c == segment[t].base
    <2>1. /\ c \in 0 .. RepositorySize /\ Caches' = Caches \cup {c}
          /\ codeCaches' \in [Caches' -> CacheRecord]
          /\ reserved' \subseteq reserved \cup {c}
          /\ found' = [found EXCEPT ![t] = c]
          /\ segment' = [segment EXCEPT ![t] = NoCache]
          /\ pc' = [pc EXCEPT ![t] = "link"]
      BY <1>4, ConstructEffect
    <2> HIDE DEF c
    <2>2. Caches' \subseteq 0 .. RepositorySize /\ reserved' \subseteq Caches'
      BY <1>1, <2>1 DEF TypeOK
    <2>3. /\ cache' = cache /\ codeCacheList' = codeCacheList
          /\ UNCHANGED << segmentAlloc, curNumberOfCodeCaches, codeCacheFull, hasFailed,
                          tid, retries, size, numReserved >>
      BY <1>4 DEF Construct
    <2>4. codeCacheList' \in Seq(Caches')
      BY <1>1, <2>1, <2>3, SeqMonotonic DEF TypeOK
    <2>5. /\ cache' \in [Threads -> Caches' \cup {NoCache}]
          /\ found' \in [Threads -> Caches' \cup {NoCache}]
      BY <1>1, <2>1, <2>3 DEF TypeOK
    <2>6. /\ segment' \in [Threads -> Segments \cup {NoCache}]
      BY <1>1, <2>1 DEF TypeOK
    <2> QED BY <1>1, <2>1, <2>2, <2>3, <2>4, <2>5, <2>6 DEF TypeOK, CacheRecord
  <1>5. CASE UndoCarving(t)
    <2>1. /\ segment[t] \in Segments /\ PointerSize =< segment[t].base
          /\ segment[t].base < segment[t].top /\ segment[t].top =< segmentAlloc
      BY <1>5, SegmentInHand DEF UndoCarving
    <2>2. segmentAlloc' \in 0 .. RepositorySize
      BY <1>1, <1>5, <2>1, SizesAssumption
         DEF UndoCarving, TypeOK, Segments, PointerSize
    <2>3. segment' \in [Threads -> Segments \cup {NoCache}]
      BY <1>1, <1>5 DEF UndoCarving, TypeOK
    <2> QED BY <1>1, <1>5, <2>2, <2>3 DEF UndoCarving, Goto, TypeOK, Caches
  <1>6. CASE Link(t)
    <2>1. found[t] \in Caches
      BY <1>1, <1>6 DEF Link, Inv, TypeOK, Control
    <2>2. << found[t] >> \in Seq(Caches) /\ codeCacheList \in Seq(Caches)
      BY <1>1, <2>1 DEF TypeOK
    <2>3. << found[t] >> \o codeCacheList \in Seq(Caches)
      BY <2>2, ConcatProperties
    <2>4. codeCacheList' \in Seq(Caches')
      BY <1>6, <2>3 DEF Link, Caches
    <2>5. curNumberOfCodeCaches' \in Nat
      BY <1>1, <1>6 DEF Link, TypeOK
    <2>6. /\ cache' \in [Threads -> Caches \cup {NoCache}]
          /\ found' \in [Threads -> Caches \cup {NoCache}]
      BY <1>1, <1>6, <2>1 DEF Link, TypeOK
    <2>7. pc' = [pc EXCEPT ![t] = "compile"] \/ pc' = [pc EXCEPT ![t] = "switch"]
      BY <1>6 DEF Link, Goto
    <2>8. /\ UNCHANGED << segmentAlloc, codeCaches, reserved, codeCacheFull, hasFailed,
                          segment, tid, retries, size, numReserved >>
      BY <1>6 DEF Link
    <2> QED BY <1>1, <2>4, <2>5, <2>6, <2>7, <2>8 DEF TypeOK, Caches
  <1>7. CASE Allocate(t)
    <2>1. CachesKept
      BY <1>7, AllocateEffect
    <2>2. /\ numReserved' = numReserved \/ numReserved' = [numReserved EXCEPT ![t] = 0]
          /\ \/ pc' = [pc EXCEPT ![t] = "allocated"] \/ pc' = [pc EXCEPT ![t] = "scan"]
             \/ pc' = [pc EXCEPT ![t] = "grow"]
      BY <1>7, AllocateEffect
    <2>3. numReserved' \in [Threads -> Nat]
      BY <1>1, <2>2 DEF TypeOK
    <2>4. Caches' = Caches
      BY <2>1 DEF CachesKept
    <2> QED BY <1>1, <1>7, <2>1, <2>2, <2>3, <2>4, CachesTyped DEF Allocate, TypeOK
  <1>8. CASE SwitchForgets(t)
    <2>1. cache[t] \in Caches /\ found[t] \in Caches
      BY <1>1, <1>8 DEF SwitchForgets, Inv, TypeOK, Control, AtWork
    <2>2. CachesKept
      BY <1>1, <1>8, <2>1, MarkWritten DEF SwitchForgets
    <2>3. Caches' = Caches
      BY <2>2 DEF CachesKept
    <2>4. /\ cache' \in [Threads -> Caches \cup {NoCache}]
          /\ found' \in [Threads -> Caches \cup {NoCache}]
      BY <1>1, <1>8, <2>1 DEF SwitchForgets, TypeOK
    <2> QED BY <1>1, <1>8, <2>2, <2>3, <2>4, CachesTyped DEF SwitchForgets, Goto, TypeOK
  <1>9. CASE Trim(t)
    <2>1. CachesKept /\ pc' = [pc EXCEPT ![t] = "unreserve"]
      BY <1>9, TrimEffect
    <2>2. Caches' = Caches
      BY <2>1 DEF CachesKept
    <2> QED BY <1>1, <1>9, <2>1, <2>2, CachesTyped DEF Trim, TypeOK
  <1>10. CASE Unreserve(t)
    <2>1. CachesKept /\ reserved' \subseteq Caches
      <3>1. CASE cache[t] = NoCache
        BY <1>1, <1>10, <3>1 DEF Unreserve, CachesKept, Caches, TypeOK
      <3>2. CASE cache[t] # NoCache
        <4>1. cache[t] \in Caches /\ unreserve(cache[t])
          BY <1>1, <1>10, <3>2 DEF Unreserve, TypeOK
        <4> QED BY <1>1, <4>1, ReserveMarks
      <3> QED BY <3>1, <3>2
    <2>2. Caches' = Caches
      BY <2>1 DEF CachesKept
    <2>3. Retries \in -1 .. Retries
      BY SizesAssumption
    <2>4. /\ cache' \in [Threads -> Caches \cup {NoCache}]
          /\ tid' \in [Threads -> {NotReserving, compThreadID}]
          /\ retries' \in [Threads -> -1 .. Retries]
          /\ size' \in [Threads -> Sizes \cup {0}]
          /\ numReserved' \in [Threads -> Nat]
          /\ pc' = [pc EXCEPT ![t] = "idle"]
      BY <1>1, <1>10, <2>3 DEF Unreserve, Goto, TypeOK
    <2> QED BY <1>1, <1>10, <2>1, <2>2, <2>4, CachesTyped DEF Unreserve, TypeOK
  <1> QED BY <1>2, <1>3, <1>4, <1>5, <1>6, <1>7, <1>8, <1>9, <1>10, QuietTypes DEF Compile

\* Every step of a thread leaves it with what it needs at its next point, and
\* takes nothing from the others.
LEMMA ControlKept ==
    ASSUME Inv, NEW t \in Threads, StartCompile(t) \/ Compile(t)
    PROVE  Control'
  <1> USE DEF locals, shared, Goto, AtWork
  <1>1. /\ pc = [u \in Threads |-> pc[u]] /\ cache = [u \in Threads |-> cache[u]]
        /\ found = [u \in Threads |-> found[u]] /\ segment = [u \in Threads |-> segment[u]]
    BY DEF Inv, TypeOK
  <1>2. Control /\ NoCache \notin Caches /\ NoCache \notin 0 .. RepositorySize
    BY NoCacheAssumption DEF Inv, TypeOK
  <1>3. CASE ReserveScan(t) \/ Scan(t)
    <2>1. pc[t] \in {"reserve", "scan"} /\ segment' = segment
      BY <1>3 DEF ReserveScan, Scan
    <2>2. ReserveScan(t) => pc[t] = "reserve"
      BY DEF ReserveScan
    <2>3. Scan(t) => pc[t] = "scan"
      BY DEF Scan
    <2> QED BY <1>1, <1>2, <1>3, <2>1, <2>2, <2>3, ScanOutcome DEF Control
  <1>4. CASE Construct(t)
    <2>1. /\ pc[t] = "construct" /\ cache' = cache
          /\ segment[t].base \in 0 .. RepositorySize
          /\ found' = [found EXCEPT ![t] = segment[t].base]
          /\ segment' = [segment EXCEPT ![t] = NoCache]
          /\ pc' = [pc EXCEPT ![t] = "link"]
      BY <1>4, ConstructEffect DEF Construct
    <2> QED BY <1>1, <1>2, <2>1 DEF Control
  <1>5. CASE Carve(t)
    <2>1. CASE RepositorySize - segmentAlloc >= CarvedSize(t)
      <3> DEFINE s == [base |-> segmentAlloc, top |-> segmentAlloc + CarvedSize(t)]
      <3>1. /\ segment' = [segment EXCEPT ![t] = s]
            /\ pc' = [pc EXCEPT ![t] = "construct"] /\ UNCHANGED << cache, found >>
        BY <1>5, <2>1 DEF Carve
      <3>2. s # NoCache
        <4>1. CarvedSize(t) \in Nat /\ segmentAlloc \in 0 .. RepositorySize
          BY CarvedSizeLarge DEF Inv, TypeOK
        <4>2. segmentAlloc + CarvedSize(t) \in 0 .. RepositorySize
          BY <2>1, <4>1, SizesAssumption
        <4>3. s \in [base : 0 .. RepositorySize, top : 0 .. RepositorySize]
          BY <4>1, <4>2
        <4> QED BY <4>3, NoCacheAssumption
      <3>3. pc[t] = "carve"
        BY <1>5 DEF Carve
      <3> HIDE DEF s
      <3> QED BY <1>1, <1>2, <3>1, <3>2, <3>3 DEF Control
    <2>2. CASE ~(RepositorySize - segmentAlloc >= CarvedSize(t))
      BY <1>1, <1>2, <1>5, <2>2 DEF Carve, Control
    <2> QED BY <2>1, <2>2
  <1>6. CASE StartCompile(t) \/ ReserveGrow(t) \/ ConstructFails(t) \/ NoNewCache(t)
    BY <1>1, <1>2, <1>6 DEF StartCompile, ReserveGrow, ConstructFails, NoNewCache, Control
  <1>7. CASE Request(t) \/ Attempt(t) \/ Grow(t) \/ Continue(t) \/ Abort(t)
    BY <1>1, <1>2, <1>7 DEF Request, Attempt, Grow, Continue, Abort, Control
  <1>8. CASE UndoCarving(t) \/ Link(t)
    BY <1>1, <1>2, <1>8 DEF UndoCarving, Link, Control
  <1>9. CASE Allocate(t) \/ Trim(t)
    BY <1>1, <1>2, <1>9 DEF Allocate, Trim, Control
  <1>10. CASE SwitchReleases(t) \/ SwitchForgets(t) \/ Unreserve(t)
    BY <1>1, <1>2, <1>10 DEF SwitchReleases, SwitchForgets, Unreserve, Control
  <1> QED BY <1>3, <1>4, <1>5, <1>6, <1>7, <1>8, <1>9, <1>10 DEF Compile

\* Only the construction of a cache changes which caches there are and where.
LEMMA CachesKeptUnless ==
    ASSUME Inv, NEW t \in Threads, StartCompile(t) \/ Compile(t), ~Construct(t)
    PROVE  CachesKept
  <1> USE DEF locals, shared
  <1>1. TypeOK /\ codeCaches \in [Caches -> CacheRecord]
    BY DEF Inv, TypeOK, CacheRecord
  <1>2. UNCHANGED codeCaches => CachesKept
    BY <1>1 DEF CachesKept, Caches
  <1>3. CASE ReserveScan(t) \/ Scan(t)
    BY <1>2, <1>3, ScanOutcome
  <1>4. CASE Allocate(t)
    BY <1>4, AllocateEffect
  <1>5. CASE Trim(t)
    BY <1>5, TrimEffect
  <1>6. CASE SwitchForgets(t)
    <2>1. cache[t] \in Caches
      BY <1>1, <1>6 DEF SwitchForgets, Inv, TypeOK, Control, AtWork
    <2> QED BY <1>1, <1>6, <2>1, MarkWritten DEF SwitchForgets
  <1>7. CASE Unreserve(t)
    <2>1. CASE cache[t] = NoCache
      BY <1>2, <1>7, <2>1 DEF Unreserve
    <2>2. CASE cache[t] # NoCache
      <3>1. cache[t] \in Caches /\ unreserve(cache[t])
        BY <1>1, <1>7, <2>2 DEF Unreserve, TypeOK
      <3> QED BY <1>1, <3>1, ReserveMarks
    <2> QED BY <2>1, <2>2
  <1>8. CASE StartCompile(t) \/ ReserveGrow(t) \/ ConstructFails(t) \/ NoNewCache(t) \/ Carve(t)
    BY <1>2, <1>8 DEF StartCompile, ReserveGrow, ConstructFails, NoNewCache, Carve
  <1>9. CASE Request(t) \/ Attempt(t) \/ Grow(t) \/ Continue(t) \/ Abort(t)
    BY <1>2, <1>9 DEF Request, Attempt, Grow, Continue, Abort
  <1>10. CASE UndoCarving(t) \/ Link(t) \/ SwitchReleases(t)
    BY <1>2, <1>10 DEF UndoCarving, Link, SwitchReleases
  <1> QED BY <1>3, <1>4, <1>5, <1>6, <1>7, <1>8, <1>9, <1>10 DEF Compile

\* A step of one thread leaves the others where they are.
LEMMA OthersStay ==
    ASSUME Inv, NEW t \in Threads, StartCompile(t) \/ Compile(t), NEW u \in Threads \ {t}
    PROVE  /\ pc'[u] = pc[u] /\ cache'[u] = cache[u] /\ found'[u] = found[u]
           /\ segment'[u] = segment[u] /\ tid'[u] = tid[u] /\ size'[u] = size[u]
  <1> USE DEF locals, shared, Goto
  <1>1. /\ pc = [v \in Threads |-> pc[v]] /\ cache = [v \in Threads |-> cache[v]]
        /\ found = [v \in Threads |-> found[v]] /\ segment = [v \in Threads |-> segment[v]]
        /\ tid = [v \in Threads |-> tid[v]] /\ size = [v \in Threads |-> size[v]]
    BY DEF Inv, TypeOK
  <1>2. CASE StartCompile(t) \/ ReserveGrow(t) \/ ConstructFails(t) \/ NoNewCache(t) \/ Carve(t)
    BY <1>1, <1>2 DEF StartCompile, ReserveGrow, ConstructFails, NoNewCache, Carve
  <1>3. CASE Request(t) \/ Attempt(t) \/ Grow(t) \/ Continue(t) \/ Abort(t)
    BY <1>1, <1>3 DEF Request, Attempt, Grow, Continue, Abort
  <1>4. CASE UndoCarving(t) \/ Link(t) \/ SwitchReleases(t) \/ Construct(t)
    BY <1>1, <1>4 DEF UndoCarving, Link, SwitchReleases, Construct
  <1>5. CASE Allocate(t) \/ Trim(t) \/ SwitchForgets(t) \/ Unreserve(t)
    BY <1>1, <1>5 DEF Allocate, Trim, SwitchForgets, Unreserve
  <1>6. CASE ReserveScan(t) \/ Scan(t)
    BY <1>1, <1>6 DEF ReserveScan, Scan
  <1> QED BY <1>2, <1>3, <1>4, <1>5, <1>6 DEF Compile

\* A block that may be trimmed still fits back into the hole after any step.
LEMMA TrimFitsKept ==
    ASSUME Inv, NEW t \in Threads, StartCompile(t) \/ Compile(t)
    PROVE  TrimFits'
  <1> USE DEF locals, shared, Goto
  <1>1. TypeOK /\ TrimFits /\ Control /\ pc = [v \in Threads |-> pc[v]]
    BY DEF Inv, TypeOK
  <1>2. \A u \in Threads : pc[u] = "allocated" => cache[u] \in Caches
    BY <1>1 DEF TypeOK, Control, AtWork
  <1>3. \A u \in Threads \ {t} :
          pc'[u] = pc[u] /\ cache'[u] = cache[u] /\ size'[u] = size[u]
    BY OthersStay
  <1>4. ASSUME HolesKept, pc'[t] # "allocated" PROVE TrimFits'
    BY <1>1, <1>2, <1>3, <1>4 DEF TrimFits, HolesKept
  <1>5. UNCHANGED codeCaches => HolesKept
    BY DEF HolesKept
  <1>6. CASE ReserveScan(t) \/ Scan(t)
    <2>1. HolesKept
      BY <1>5, <1>6, ScanOutcome
    <2>2. pc'[t] # "allocated"
      BY <1>1, <1>6 DEF ReserveScan, Scan
    <2> QED BY <1>4, <2>1, <2>2
  <1>7. CASE Allocate(t)
    <2>1. \A d \in Caches : d # cache[t] => codeCaches'[d] = codeCaches[d]
      BY <1>7, AllocateEffect
    <2>2. cache[t] \in Caches /\ cache' = cache /\ size' = size
      BY <1>1, <1>7 DEF Allocate, TypeOK, Control, AtWork
    <2>3. codeCaches[cache[t]].hole \in 0 .. RepositorySize
      BY <1>1, <2>2 DEF TypeOK
    <2>4. CASE /\ codeCaches'[cache[t]].hole + Adjusted(size[t]) = codeCaches[cache[t]].hole
               /\ codeCaches'[cache[t]].lastAllocatedBlock = t
      BY <1>1, <1>2, <1>3, <2>1, <2>2, <2>3, <2>4, SizesAssumption DEF TrimFits
    <2>5. CASE UNCHANGED codeCaches /\ pc'[t] # "allocated"
      BY <1>4, <1>5, <2>5
    <2> QED BY <1>1, <1>7, <2>4, <2>5, AllocateEffect
  <1>8. CASE Trim(t)
    <2>1. /\ \A d \in Caches :
               codeCaches'[d].lastAllocatedBlock = codeCaches[d].lastAllocatedBlock
          /\ \A d \in Caches :
               codeCaches'[d].hole = codeCaches[d].hole \/ codeCaches[d].lastAllocatedBlock = t
          /\ pc'[t] # "allocated"
      BY <1>1, <1>8, TrimEffect
    <2> QED BY <1>1, <1>2, <1>3, <2>1 DEF TrimFits
  <1>9. CASE Construct(t)
    <2>1. HolesKept
      BY <1>9, ConstructEffect DEF HolesKept
    <2>2. pc'[t] # "allocated"
      BY <1>1, <1>9 DEF Construct
    <2> QED BY <1>4, <2>1, <2>2
  <1>10. CASE SwitchForgets(t)
    <2>1. cache[t] \in Caches
      BY <1>1, <1>10 DEF SwitchForgets, TypeOK, Control, AtWork
    <2>2. HolesKept
      BY <1>1, <1>10, <2>1, MarkWritten DEF SwitchForgets
    <2>3. pc'[t] # "allocated"
      BY <1>1, <1>10 DEF SwitchForgets
    <2> QED BY <1>4, <2>2, <2>3
  <1>11. CASE Unreserve(t)
    <2>1. HolesKept
      <3>1. CASE cache[t] = NoCache
        BY <1>5, <1>11, <3>1 DEF Unreserve
      <3>2. CASE cache[t] # NoCache
        <4>1. cache[t] \in Caches /\ unreserve(cache[t])
          BY <1>1, <1>11, <3>2 DEF Unreserve, TypeOK
        <4> QED BY <1>1, <4>1, ReserveMarks
      <3> QED BY <3>1, <3>2
    <2>2. pc'[t] # "allocated"
      BY <1>1, <1>11 DEF Unreserve
    <2> QED BY <1>4, <2>1, <2>2
  <1>12. CASE StartCompile(t) \/ ReserveGrow(t) \/ ConstructFails(t) \/ NoNewCache(t) \/ Carve(t)
    BY <1>1, <1>4, <1>5, <1>12 DEF StartCompile, ReserveGrow, ConstructFails, NoNewCache, Carve
  <1>13. CASE Request(t) \/ Attempt(t) \/ Grow(t) \/ Continue(t) \/ Abort(t)
    BY <1>1, <1>4, <1>5, <1>13 DEF Request, Attempt, Grow, Continue, Abort
  <1>14. CASE UndoCarving(t) \/ Link(t) \/ SwitchReleases(t)
    BY <1>1, <1>4, <1>5, <1>14 DEF UndoCarving, Link, SwitchReleases
  <1> QED BY <1>6, <1>7, <1>8, <1>9, <1>10, <1>11, <1>12, <1>13, <1>14 DEF Compile

-----------------------------------------------------------------------------
(***************************************************************************)
(* Segments                                                                *)
(***************************************************************************)

\* The ends of the segments are addresses of the repository.
LEMMA SegmentsTyped ==
    ASSUME TypeOK, NEW s \in AllSegments
    PROVE  s \in Segments /\ s.base \in Int /\ s.top \in Int
  <1>1. CASE s \in CacheSegments
    <2>1. PICK c \in Caches : s = [base |-> c, top |-> codeCaches[c].top]
      BY <1>1 DEF CacheSegments
    <2>2. c \in 0 .. RepositorySize /\ codeCaches[c].top \in 0 .. RepositorySize
      BY DEF TypeOK
    <2> QED BY <2>1, <2>2, SizesAssumption DEF Segments
  <1>2. CASE s \in CarvedByThread
    <2>1. s \in Segments
      BY <1>2 DEF CarvedByThread, TypeOK
    <2> QED BY <2>1, SizesAssumption DEF Segments
  <1> QED BY <1>1, <1>2 DEF AllSegments

\* The four parts of SegmentsDisjoint.
LEMMA DisjointParts ==
    SegmentsDisjoint <=>
      /\ \A s \in AllSegments : PointerSize =< s.base /\ s.base =< s.top /\ s.top =< segmentAlloc
      /\ \A r, s \in AllSegments : r # s => r.top =< s.base \/ s.top =< r.base
      /\ \A t, u \in Threads : t # u /\ segment[t] # NoCache => segment[t] # segment[u]
      /\ \A t \in Threads : segment[t] \notin CacheSegments
  BY DEF SegmentsDisjoint, AllSegments

\* carveCodeCacheSpaceFromRepository takes the addresses above all others.
LEMMA CarveKeepsSegments ==
    ASSUME Inv, NEW t \in Threads, Carve(t)
    PROVE  SegmentsDisjoint' /\ SegmentsLarge'
  <1>1. TypeOK /\ CacheSegments' = CacheSegments
    <2>1. ~Construct(t)
      BY DEF Carve, Construct
    <2> QED BY <2>1, CachesKeptUnless, KeptSegments DEF Compile, Inv
  <1>2. segment[t] = NoCache /\ segment \in [Threads -> Segments \cup {NoCache}]
    BY DEF Carve, Inv, TypeOK, Control
  <1>3. CASE ~(RepositorySize - segmentAlloc >= CarvedSize(t))
    <2>1. UNCHANGED << segment, segmentAlloc >>
      BY <1>3 DEF Carve
    <2>2. CarvedByThread' = CarvedByThread
      BY <2>1 DEF CarvedByThread
    <2> QED BY <1>1, <2>1, <2>2 DEF Inv, SegmentsDisjoint, SegmentsLarge, AllSegments
  <1>4. CASE RepositorySize - segmentAlloc >= CarvedSize(t)
    <2> DEFINE s == [base |-> segmentAlloc, top |-> segmentAlloc + CarvedSize(t)]
    <2>1. segment' = [segment EXCEPT ![t] = s] /\ segmentAlloc' = segmentAlloc + CarvedSize(t)
      BY <1>4 DEF Carve
    <2>2. /\ CarvedSize(t) \in Nat /\ CarvedSize(t) >= 1
          /\ CarvedSize(t) >= CodeCacheSize - PointerSize
      BY <1>1, CarvedSizeLarge
    <2>3. segmentAlloc \in 0 .. RepositorySize /\ segmentAlloc + CarvedSize(t) \in 0 .. RepositorySize
      BY <1>1, <1>4, <2>2, SizesAssumption DEF TypeOK
    <2>4. s # NoCache
      <3>1. s \in [base : 0 .. RepositorySize, top : 0 .. RepositorySize]
        BY <2>3
      <3> QED BY <3>1, NoCacheAssumption
    <2>5. /\ s.base = segmentAlloc /\ s.top = segmentAlloc + CarvedSize(t)
          /\ s.top = segmentAlloc' /\ s.base \in Int /\ s.top \in Int
      BY <2>1, <2>2, <2>3, SizesAssumption
    <2> HIDE DEF s
    <2>6. CarvedByThread' = CarvedByThread \cup {s}
      BY <1>2, <2>1, <2>4 DEF CarvedByThread
    <2>7. AllSegments' = AllSegments \cup {s}
      BY <1>1, <2>6 DEF AllSegments
    <2>8. \A r \in AllSegments : /\ r.base \in Int /\ r.top \in Int
                                 /\ PointerSize =< r.base /\ r.base =< r.top
                                 /\ r.top =< segmentAlloc
      BY <1>1, SegmentsTyped, DisjointParts DEF Inv
    <2>9. s \notin AllSegments
      BY <2>2, <2>3, <2>5, <2>8, SizesAssumption
    <2>10. PointerSize =< segmentAlloc
      BY <1>1 DEF Inv, AllocStarted
    <2>11. \A r \in AllSegments' : PointerSize =< r.base /\ r.base =< r.top /\ r.top =< segmentAlloc'
      BY <2>1, <2>2, <2>3, <2>5, <2>7, <2>8, <2>10, SizesAssumption DEF PointerSize
    <2>12. \A q, r \in AllSegments' : q # r => q.top =< r.base \/ r.top =< q.base
      BY <2>5, <2>7, <2>8, DisjointParts DEF Inv
    <2>13. /\ \A v \in Threads : segment[v] # NoCache => segment[v] \in AllSegments
           /\ CacheSegments \subseteq AllSegments
      BY DEF AllSegments, CarvedByThread
    <2>14. segment'[t] = s /\ \A v \in Threads \ {t} : segment'[v] = segment[v]
      BY <1>2, <2>1
    <2>15. \A v, u \in Threads : v # u /\ segment'[v] # NoCache => segment'[v] # segment'[u]
      BY <2>4, <2>9, <2>13, <2>14, DisjointParts DEF Inv
    <2>16. \A v \in Threads : segment'[v] \notin CacheSegments'
      BY <1>1, <2>9, <2>13, <2>14, DisjointParts DEF Inv
    <2>17. SegmentsDisjoint'
      BY <2>11, <2>12, <2>15, <2>16, DisjointParts DEF SegmentsDisjoint, AllSegments
    <2>18. SegmentsLarge'
      BY <2>2, <2>3, <2>5, <2>7, SizesAssumption DEF Inv, SegmentsLarge
    <2> QED BY <2>17, <2>18
  <1> QED BY <1>3, <1>4

\* Without a thread's segment, the others' are as they were.
LEMMA SegmentLeaves ==
    ASSUME Inv, NEW t \in Threads, segment[t] # NoCache,
           segment' = [segment EXCEPT ![t] = NoCache]
    PROVE  /\ CarvedByThread' = CarvedByThread \ {segment[t]}
           /\ \A u, v \in Threads : u # v /\ segment'[u] # NoCache => segment'[u] # segment'[v]
  <1>1. segment \in [Threads -> Segments \cup {NoCache}]
    BY DEF Inv, TypeOK
  <1>2. segment'[t] = NoCache /\ \A u \in Threads \ {t} : segment'[u] = segment[u]
    BY <1>1
  <1>3. \A u, v \in Threads : u # v /\ segment[u] # NoCache => segment[u] # segment[v]
    BY DisjointParts DEF Inv
  <1>4. CarvedByThread' = CarvedByThread \ {segment[t]}
    BY <1>2, <1>3 DEF CarvedByThread
  <1>5. \A u, v \in Threads : u # v /\ segment'[u] # NoCache => segment'[u] # segment'[v]
    BY <1>2, <1>3
  <1> QED BY <1>4, <1>5

\* undoCarvingFromRepository gives the addresses back only if nothing has been
\* carved on top of them since, so that all segments stay below.
LEMMA UndoKeepsSegments ==
    ASSUME Inv, NEW t \in Threads, UndoCarving(t)
    PROVE  SegmentsDisjoint' /\ SegmentsLarge'
  <1> DEFINE s == segment[t]
  <1>1. TypeOK /\ CacheSegments' = CacheSegments
    <2>1. ~Construct(t)
      BY DEF UndoCarving, Construct
    <2> QED BY <2>1, CachesKeptUnless, KeptSegments DEF Compile, Inv
  <1>2. /\ s # NoCache /\ s \in CarvedByThread /\ s.base < s.top /\ s.top =< segmentAlloc
        /\ s \in Segments
    BY SegmentInHand DEF UndoCarving, Inv, Control
  <1>3. segment' = [segment EXCEPT ![t] = NoCache]
    BY DEF UndoCarving
  <1>4. /\ CarvedByThread' = CarvedByThread \ {s}
        /\ \A u, v \in Threads : u # v /\ segment'[u] # NoCache => segment'[u] # segment'[v]
    BY <1>2, <1>3, SegmentLeaves
  <1>5. s \notin CacheSegments
    BY DisjointParts DEF Inv
  <1>6. AllSegments' = AllSegments \ {s} /\ s \in AllSegments
    BY <1>1, <1>2, <1>4, <1>5 DEF AllSegments
  <1>7. \A r \in AllSegments : /\ r.base \in Int /\ r.top \in Int
                               /\ PointerSize =< r.base /\ r.base < r.top
                               /\ r.top =< segmentAlloc
    <2>1. \A r \in AllSegments : r.base \in Int /\ r.top \in Int
      BY <1>1, SegmentsTyped
    <2>2. \A r \in AllSegments : r.top - r.base >= CodeCacheSize - PointerSize
      BY DEF Inv, SegmentsLarge
    <2>3. CodeCacheSize - PointerSize >= 1
      BY SizesAssumption, FirstCacheFits DEF PointerSize
    <2>4. CodeCacheSize - PointerSize \in Int
      BY SizesAssumption DEF PointerSize
    <2>5. \A r \in AllSegments : r.base < r.top
      BY <2>1, <2>2, <2>3, <2>4
    <2> QED BY <2>1, <2>5, DisjointParts DEF Inv
  <1>8. \A r \in AllSegments : r # s => r.top =< s.base \/ s.top =< r.base
    BY <1>6, DisjointParts DEF Inv
  <1>9. \A r \in AllSegments' : r.top =< segmentAlloc'
    <2>1. CASE IsOnTop(s)
      <3>1. segmentAlloc = s.top /\ segmentAlloc' = segmentAlloc - (s.top - s.base)
        BY <2>1 DEF UndoCarving, IsOnTop
      <3>2. segmentAlloc' = s.base
        BY <1>6, <1>7, <3>1
      <3> HIDE DEF s
      <3> QED BY <1>6, <1>7, <1>8, <3>1, <3>2
    <2>2. CASE ~IsOnTop(s)
      <3>1. segmentAlloc' = segmentAlloc
        BY <2>2 DEF UndoCarving
      <3> QED BY <1>6, <1>7, <3>1
    <2> QED BY <2>1, <2>2
  <1>10. \A v \in Threads : segment'[v] \notin CacheSegments'
    <2>1. \A v \in Threads : segment'[v] = NoCache \/ segment'[v] = segment[v]
      BY <1>3 DEF Inv, TypeOK
    <2>2. NoCache \notin CacheSegments
      <3>1. \A r \in CacheSegments : r \in [base : 0 .. RepositorySize, top : 0 .. RepositorySize]
        BY <1>1, SegmentsTyped DEF AllSegments, Segments
      <3> QED BY <3>1, NoCacheAssumption
    <2> QED BY <1>1, <2>1, <2>2, DisjointParts DEF Inv
  <1>11. \A r \in AllSegments' : PointerSize =< r.base /\ r.base =< r.top
    BY <1>6, <1>7
  <1>12. \A q, r \in AllSegments' : q # r => q.top =< r.base \/ r.top =< q.base
    BY <1>6, DisjointParts DEF Inv
  <1>13. SegmentsLarge'
    BY <1>6 DEF Inv, SegmentsLarge
  <1> HIDE DEF s
  <1> QED BY <1>4, <1>9, <1>10, <1>11, <1>12, <1>13 DEF SegmentsDisjoint, AllSegments

\* Making a cache of a segment changes its owner only.
LEMMA ConstructKeepsSegments ==
    ASSUME Inv, NEW t \in Threads, Construct(t)
    PROVE  SegmentsDisjoint' /\ SegmentsLarge'
  <1> DEFINE s == segment[t]
             c == s.base
  <1>1. TypeOK /\ UNCHANGED segmentAlloc
    BY DEF Inv, Construct
  <1>2. s # NoCache /\ s \in CarvedByThread /\ s \in Segments
    BY SegmentInHand DEF Construct, Inv, Control
  <1>3. /\ c \notin Caches /\ Caches' = Caches \cup {c}
        /\ \A d \in Caches : codeCaches'[d] = codeCaches[d]
        /\ codeCaches'[c].top = s.top
        /\ segment' = [segment EXCEPT ![t] = NoCache]
    BY ConstructEffect
  <1>4. s = [base |-> c, top |-> s.top]
    BY <1>2 DEF Segments
  <1>5. CacheSegments' = CacheSegments \cup {s}
    <2> HIDE DEF s, c
    <2> QED BY <1>3, <1>4 DEF CacheSegments
  <1>6. /\ CarvedByThread' = CarvedByThread \ {s}
        /\ \A u, v \in Threads : u # v /\ segment'[u] # NoCache => segment'[u] # segment'[v]
    BY <1>2, <1>3, SegmentLeaves
  <1>7. AllSegments' = AllSegments
    BY <1>2, <1>5, <1>6 DEF AllSegments
  <1>8. \A v \in Threads : segment'[v] \notin CacheSegments'
    <2>1. segment'[t] = NoCache /\ \A v \in Threads \ {t} : segment'[v] = segment[v]
      BY <1>3 DEF Inv, TypeOK
    <2>2. \A v \in Threads \ {t} : segment[v] # s
      BY <1>2, DisjointParts DEF Inv
    <2>3. NoCache \notin CacheSegments
      <3>1. \A r \in CacheSegments : r \in [base : 0 .. RepositorySize, top : 0 .. RepositorySize]
        BY <1>1, SegmentsTyped DEF AllSegments, Segments
      <3> QED BY <3>1, NoCacheAssumption
    <2> QED BY <1>2, <1>5, <2>1, <2>2, <2>3, DisjointParts DEF Inv
  <1>9. SegmentsLarge'
    BY <1>7 DEF Inv, SegmentsLarge
  <1>10. /\ \A r \in AllSegments : PointerSize =< r.base /\ r.base =< r.top /\ r.top =< segmentAlloc
         /\ \A q, r \in AllSegments : q # r => q.top =< r.base \/ r.top =< q.base
    BY DisjointParts DEF Inv
  <1> HIDE DEF s, c
  <1>11. /\ \A r \in AllSegments' : PointerSize =< r.base /\ r.base =< r.top /\ r.top =< segmentAlloc'
         /\ \A q, r \in AllSegments' : q # r => q.top =< r.base \/ r.top =< q.base
    BY <1>1, <1>7, <1>10
  <1> QED BY <1>6, <1>8, <1>9, <1>11 DEF SegmentsDisjoint, AllSegments

\* Every step keeps the segments apart and large.
LEMMA SegmentsKept ==
    ASSUME Inv, NEW t \in Threads, StartCompile(t) \/ Compile(t)
    PROVE  SegmentsDisjoint' /\ SegmentsLarge'
  <1> USE DEF locals, shared
  <1>1. CASE Carve(t) \/ UndoCarving(t) \/ Construct(t)
    BY <1>1, CarveKeepsSegments, UndoKeepsSegments, ConstructKeepsSegments
  <1>2. CASE ~Carve(t) /\ ~UndoCarving(t) /\ ~Construct(t)
    <2>1. UNCHANGED << segmentAlloc, segment >>
      BY <1>2 DEF StartCompile, Compile, ReserveScan, ReserveGrow, ConstructFails, Link,
         NoNewCache, Request, Attempt, Allocate, Scan, SwitchReleases, SwitchForgets, Grow,
         Continue, Trim, Abort, Unreserve
    <2>2. CacheSegments' = CacheSegments
      BY <1>2, CachesKeptUnless, KeptSegments
    <2>3. CarvedByThread' = CarvedByThread
      BY <2>1 DEF CarvedByThread
    <2>4. AllSegments' = AllSegments
      BY <2>2, <2>3 DEF AllSegments
    <2>5. SegmentsLarge'
      BY <2>4 DEF Inv, SegmentsLarge
    <2>6. SegmentsDisjoint'
      BY <2>1, <2>2, <2>3 DEF Inv, SegmentsDisjoint
    <2> QED BY <2>5, <2>6
  <1> QED BY <1>1, <1>2

\* The repository's pointer stays in front of everything carved.
LEMMA AllocStartedKept ==
    ASSUME Inv, NEW t \in Threads, StartCompile(t) \/ Compile(t)
    PROVE  AllocStarted'
  <1> USE DEF locals, shared
  <1>1. segmentAlloc \in Int /\ 1 =< segmentAlloc
    BY SizesAssumption DEF Inv, TypeOK, AllocStarted, PointerSize
  <1>2. CASE Carve(t)
    <2>1. CarvedSize(t) \in Nat
      BY CarvedSizeLarge DEF Inv
    <2>2. segmentAlloc' = segmentAlloc + CarvedSize(t) \/ segmentAlloc' = segmentAlloc
      BY <1>2 DEF Carve
    <2> QED BY <1>1, <2>1, <2>2 DEF AllocStarted, PointerSize
  <1>3. CASE UndoCarving(t)
    <2>1. pc[t] = "undoCarving"
      BY <1>3 DEF UndoCarving
    <2>2. /\ segment[t] \in Segments
          /\ 1 =< segment[t].base /\ segment[t].base < segment[t].top
      BY <2>1, SegmentInHand DEF PointerSize
    <2>3. segment[t].base \in Int /\ segment[t].top \in Int
      BY <2>2, SizesAssumption DEF Segments
    <2>4. \/ segmentAlloc' = segmentAlloc
          \/ /\ segmentAlloc = segment[t].top
             /\ segmentAlloc' = segmentAlloc - (segment[t].top - segment[t].base)
      BY <1>3 DEF UndoCarving, IsOnTop
    <2> QED BY <1>1, <2>2, <2>3, <2>4 DEF AllocStarted, PointerSize
  <1>4. CASE ~Carve(t) /\ ~UndoCarving(t)
    <2>1. segmentAlloc' = segmentAlloc
      BY <1>4 DEF StartCompile, Compile, ReserveScan, ReserveGrow, Construct, ConstructFails,
         Link, NoNewCache, Request, Attempt, Allocate, Scan, SwitchReleases, SwitchForgets,
         Grow, Continue, Trim, Abort, Unreserve
    <2> QED BY <2>1 DEF Inv, AllocStarted
  <1> QED BY <1>2, <1>3, <1>4

-----------------------------------------------------------------------------
(***************************************************************************)
(* Reservations                                                            *)
(***************************************************************************)

\* What a step may do to reservations and to what its thread owns: a
\* reservation stays with its owner, or is the thread's to end; what the
\* thread comes to own was reserved by nobody.
OwnershipStep(t) ==
  /\ \A c \in reserved' : c \in Owns(t)' \/ c \in reserved \ Owns(t)
  /\ \A c \in Owns(t)' : c \in Owns(t) \/ c \notin reserved
  /\ \A c \in reserved \ Owns(t) : c \in reserved'

\* Every step is such a step.
LEMMA OwnershipSteps ==
    ASSUME Inv, NEW t \in Threads, StartCompile(t) \/ Compile(t)
    PROVE  OwnershipStep(t)
  <1> USE DEF locals, shared, Goto
  <1>1. /\ pc = [v \in Threads |-> pc[v]] /\ cache = [v \in Threads |-> cache[v]]
        /\ found = [v \in Threads |-> found[v]]
    BY DEF Inv, TypeOK
  <1>2. Control /\ NoCache \notin Caches /\ reserved \subseteq Caches
    BY NoCacheAssumption DEF Inv, TypeOK
  <1>3. ASSUME UNCHANGED << reserved, cache, found >>,
               pc[t] # "switched" /\ pc'[t] # "switched"
        PROVE  OwnershipStep(t)
    BY <1>3 DEF OwnershipStep, Owns, Holds
  <1>4. CASE ReserveScan(t)
    <2>1. pc[t] = "reserve" /\ cache[t] = NoCache /\ found[t] = NoCache
      BY <1>2, <1>4 DEF ReserveScan, Control
    <2>2. CASE \E c \in Caches \ reserved :
                 /\ reserved' = reserved \cup {c} /\ cache' = [cache EXCEPT ![t] = c]
                 /\ pc' = [pc EXCEPT ![t] = "compile"] /\ UNCHANGED found
      BY <1>1, <1>2, <2>1, <2>2 DEF OwnershipStep, Owns, Holds
    <2>3. CASE /\ UNCHANGED << reserved, cache, found >>
               /\ pc' = [pc EXCEPT ![t] = "reserveGrow"]
      BY <1>1, <1>3, <2>1, <2>3
    <2>4. ~Scan(t)
      BY <2>1 DEF Scan
    <2> QED BY <1>4, <2>2, <2>3, <2>4, ScanOutcome
  <1>5. CASE Scan(t)
    <2>1. pc[t] = "scan" /\ found[t] = NoCache
      BY <1>2, <1>5 DEF Scan, Control
    <2>2. CASE \E c \in Caches \ reserved :
                 /\ reserved' = reserved \cup {c} /\ found' = [found EXCEPT ![t] = c]
                 /\ pc' = [pc EXCEPT ![t] = "switch"] /\ UNCHANGED cache
      BY <1>1, <1>2, <2>1, <2>2 DEF OwnershipStep, Owns, Holds
    <2>3. CASE /\ UNCHANGED << reserved, cache, found >>
               /\ pc' = [pc EXCEPT ![t] = "grow"]
      BY <1>1, <1>3, <2>1, <2>3
    <2>4. ~ReserveScan(t)
      BY <2>1 DEF ReserveScan
    <2> QED BY <1>5, <2>2, <2>3, <2>4, ScanOutcome
  <1>6. CASE Construct(t)
    <2>1. pc[t] = "construct" /\ found[t] = NoCache /\ cache' = cache
      BY <1>2, <1>6 DEF Construct, Control
    <2> DEFINE c == segment[t].base
    <2>2. /\ c \notin Caches /\ c \in 0 .. RepositorySize
          /\ reserved' = reserved \cup {c} \/ reserved' = reserved
          /\ found' = [found EXCEPT ![t] = c] /\ pc' = [pc EXCEPT ![t] = "link"]
      BY <1>6, ConstructEffect
    <2>3. c # NoCache
      BY <2>2, NoCacheAssumption
    <2> HIDE DEF c
    <2> QED BY <1>1, <1>2, <2>1, <2>2, <2>3 DEF OwnershipStep, Owns, Holds
  <1>7. CASE Link(t)
    BY <1>1, <1>2, <1>7 DEF Link, Control, OwnershipStep, Owns, Holds
  <1>8. CASE SwitchReleases(t)
    BY <1>1, <1>2, <1>8 DEF SwitchReleases, OwnershipStep, Owns, Holds
  <1>9. CASE SwitchForgets(t)
    BY <1>1, <1>2, <1>9 DEF SwitchForgets, Control, OwnershipStep, Owns, Holds
  <1>10. CASE Unreserve(t)
    <2>1. pc[t] = "unreserve" /\ found[t] = NoCache /\ found' = found
      BY <1>2, <1>10 DEF Unreserve, Control
    <2>2. reserved' = reserved \ {cache[t]}
      BY <1>2, <1>10 DEF Unreserve, unreserve
    <2> QED BY <1>1, <1>10, <2>1, <2>2 DEF Unreserve, OwnershipStep, Owns, Holds
  <1>11. CASE StartCompile(t) \/ ReserveGrow(t) \/ ConstructFails(t) \/ NoNewCache(t) \/ Carve(t)
              \/ UndoCarving(t)
    BY <1>1, <1>3, <1>11 DEF StartCompile, ReserveGrow, ConstructFails, NoNewCache, Carve,
       UndoCarving
  <1>12. CASE Request(t) \/ Attempt(t) \/ Grow(t) \/ Continue(t) \/ Abort(t)
    BY <1>1, <1>3, <1>12 DEF Request, Attempt, Grow, Continue, Abort
  <1>13. CASE Allocate(t) \/ Trim(t)
    BY <1>1, <1>3, <1>13 DEF Allocate, Trim
  <1> QED BY <1>4, <1>5, <1>6, <1>7, <1>8, <1>9, <1>10, <1>11, <1>12, <1>13 DEF Compile

\* The other threads own what they owned.
LEMMA OthersOwn ==
    ASSUME Inv, NEW t \in Threads, StartCompile(t) \/ Compile(t), NEW u \in Threads \ {t}
    PROVE  Owns(u)' = Owns(u)
  BY OthersStay DEF Owns, Holds

\* Every step leaves each reservation with an owner.
LEMMA ReservedOwnedKept ==
    ASSUME Inv, NEW t \in Threads, StartCompile(t) \/ Compile(t)
    PROVE  ReservedOwned'
  <1>1. OwnershipStep(t)
    BY OwnershipSteps
  <1>2. \A u \in Threads \ {t} : Owns(u)' = Owns(u)
    BY OthersOwn
  <1>3. ASSUME NEW c \in reserved', c \notin Owns(t)'
        PROVE  \E u \in Threads : c \in Owns(u)'
    <2>1. c \in reserved \ Owns(t)
      BY <1>1, <1>3 DEF OwnershipStep
    <2>2. PICK u \in Threads : c \in Owns(u)
      BY <2>1 DEF Inv, ReservedOwned
    <2> QED BY <1>2, <2>1, <2>2
  <1> QED BY <1>3 DEF ReservedOwned

-----------------------------------------------------------------------------
(***************************************************************************)
(* The number of caches                                                    *)
(***************************************************************************)

\* Which threads are on their way to a new cache, after a step of t.
LEMMA GrowingStep ==
    ASSUME Inv, NEW t \in Threads, StartCompile(t) \/ Compile(t)
    PROVE  \/ Growing' = Growing /\ UNCHANGED << codeCacheList, curNumberOfCodeCaches >>
           \/ /\ Growing' = Growing \ {t} /\ t \in Growing
              /\ UNCHANGED << codeCacheList, curNumberOfCodeCaches >>
           \/ /\ curNumberOfCodeCaches < MaxCaches
              /\ UNCHANGED << codeCacheList, curNumberOfCodeCaches >>
           \/ /\ Growing' = Growing \ {t} /\ t \in Growing
              /\ Len(codeCacheList') = Len(codeCacheList) + 1
              /\ curNumberOfCodeCaches' = curNumberOfCodeCaches + 1
  <1> USE DEF locals, shared, Goto
  <1>1. pc = [v \in Threads |-> pc[v]]
    BY DEF Inv, TypeOK
  <1>2. \A u \in Threads \ {t} : pc'[u] = pc[u]
    BY OthersStay
  <1>3. CASE Link(t)
    <2>1. pc[t] = "link" /\ pc'[t] \in {"compile", "switch"}
      BY <1>1, <1>3 DEF Link
    <2>2. Len(codeCacheList') = Len(codeCacheList) + 1
      <3>1. /\ codeCacheList \in Seq(Caches)
            /\ found[t] \in Caches
        BY <2>1 DEF Inv, TypeOK, Control
      <3>2. << found[t] >> \in Seq(Caches) /\ Len(<< found[t] >>) = 1
        BY <3>1
      <3>3. codeCacheList' = << found[t] >> \o codeCacheList
        BY <1>3 DEF Link
      <3>4. Len(codeCacheList) \in Nat
        BY <3>1, LenProperties
      <3> QED BY <3>1, <3>2, <3>3, <3>4, ConcatProperties
    <2> QED BY <1>2, <1>3, <2>1, <2>2 DEF Link, Growing
  <1>4. CASE Carve(t) \/ UndoCarving(t) \/ Construct(t) \/ ConstructFails(t)
    <2>1. UNCHANGED << codeCacheList, curNumberOfCodeCaches >>
      BY <1>4 DEF Carve, UndoCarving, Construct, ConstructFails
    <2>2. /\ pc[t] \in {"carve", "construct", "undoCarving"}
          /\ pc'[t] \in {"construct", "undoCarving", "link", "noNewCache"}
      BY <1>1, <1>4 DEF Carve, UndoCarving, Construct, ConstructFails
    <2> QED BY <1>2, <2>1, <2>2 DEF Growing
  <1>5. CASE ReserveGrow(t) \/ Grow(t)
    <2>1. UNCHANGED << codeCacheList, curNumberOfCodeCaches >>
      BY <1>5 DEF ReserveGrow, Grow
    <2>2. CASE ~canAddNewCodeCache
      <3>1. pc[t] \in {"reserveGrow", "grow"} /\ pc'[t] = "unreserve"
        BY <1>1, <1>5, <2>2 DEF ReserveGrow, Grow
      <3> QED BY <1>2, <2>1, <3>1 DEF Growing
    <2> QED BY <2>1, <2>2 DEF canAddNewCodeCache
  <1>6. CASE ReserveScan(t) \/ Scan(t)
    <2>1. UNCHANGED << codeCacheList, curNumberOfCodeCaches >>
      BY <1>6 DEF ReserveScan, Scan
    <2>2. pc[t] \in {"reserve", "scan"} /\ pc'[t] \in {"compile", "reserveGrow", "switch", "grow"}
      BY <1>1, <1>6 DEF ReserveScan, Scan
    <2> QED BY <1>2, <2>1, <2>2 DEF Growing
  <1>7. CASE \/ StartCompile(t) \/ NoNewCache(t) \/ Request(t) \/ Attempt(t) \/ Continue(t)
             \/ Abort(t) \/ Allocate(t) \/ Trim(t) \/ SwitchReleases(t) \/ SwitchForgets(t)
             \/ Unreserve(t)
    <2>1. UNCHANGED << codeCacheList, curNumberOfCodeCaches >>
      BY <1>7 DEF StartCompile, NoNewCache, Request, Attempt, Continue, Abort, Allocate, Trim,
         SwitchReleases, SwitchForgets, Unreserve
    <2>2. /\ pc[t] \notin {"carve", "construct", "undoCarving", "link"}
          /\ pc'[t] \notin {"carve", "construct", "undoCarving", "link"}
      BY <1>1, <1>7 DEF StartCompile, NoNewCache, Request, Attempt, Continue, Abort, Allocate,
         Trim, SwitchReleases, SwitchForgets, Unreserve
    <2> QED BY <1>2, <2>1, <2>2 DEF Growing
  <1> QED BY <1>3, <1>4, <1>5, <1>6, <1>7 DEF Compile

\* The number of threads on their way is a number, at most that of the threads.
LEMMA GrowingFinite ==
    /\ IsFiniteSet(Growing) /\ Cardinality(Growing) \in Nat
    /\ Cardinality(Threads) \in Nat /\ Cardinality(Threads) >= 1
    /\ Cardinality(Growing) =< Cardinality(Threads)
  <1>1. IsFiniteSet(Threads) /\ Threads # {} /\ Growing \in SUBSET Threads
    BY ThreadsAssumption DEF Growing
  <1>2. IsFiniteSet(Growing) /\ Cardinality(Growing) =< Cardinality(Threads)
    BY <1>1, FS_Subset
  <1>3. Cardinality(Threads) \in Nat /\ Cardinality(Growing) \in Nat
    BY <1>1, <1>2, FS_CardinalityType
  <1>4. Cardinality(Threads) # 0
    BY <1>1, FS_EmptySet
  <1> QED BY <1>2, <1>3, <1>4

\* The same after a step.
LEMMA GrowingFiniteAfter ==
    /\ IsFiniteSet(Growing') /\ Cardinality(Growing') \in Nat
    /\ Cardinality(Growing') =< Cardinality(Threads)
  <1>1. IsFiniteSet(Threads) /\ Growing' \in SUBSET Threads
    BY ThreadsAssumption DEF Growing
  <1>2. IsFiniteSet(Growing') /\ Cardinality(Growing') =< Cardinality(Threads)
    BY <1>1, FS_Subset
  <1> QED BY <1>2, FS_CardinalityType

\* A thread that is allowed one more cache sees fewer than MaxCaches, however
\* many others have been allowed theirs: one less than the threads.
LEMMA CountKept ==
    ASSUME Inv, NEW t \in Threads, StartCompile(t) \/ Compile(t)
    PROVE  CountInv'
  <1>1. /\ Len(codeCacheList) =< curNumberOfCodeCaches
        /\ curNumberOfCodeCaches + Cardinality(Growing) =< MaxCaches + Cardinality(Threads) - 1
        /\ curNumberOfCodeCaches \in Nat /\ MaxCaches \in Nat
    BY SizesAssumption DEF Inv, TypeOK, CountInv
  <1>2. Len(codeCacheList) \in Nat
    BY LenProperties DEF Inv, TypeOK
  <1>3. CASE Growing' = Growing /\ UNCHANGED << codeCacheList, curNumberOfCodeCaches >>
    BY <1>1, <1>3 DEF CountInv
  <1>4. ASSUME t \in Growing
        PROVE  Cardinality(Growing \ {t}) = Cardinality(Growing) - 1
    BY <1>4, GrowingFinite, FS_RemoveElement
  <1>5. CASE /\ Growing' = Growing \ {t} /\ t \in Growing
             /\ UNCHANGED << codeCacheList, curNumberOfCodeCaches >>
    BY <1>1, <1>4, <1>5, GrowingFinite DEF CountInv
  <1>6. CASE /\ curNumberOfCodeCaches < MaxCaches
             /\ UNCHANGED << codeCacheList, curNumberOfCodeCaches >>
    BY <1>1, <1>6, GrowingFinite, GrowingFiniteAfter DEF CountInv
  <1>7. CASE /\ Growing' = Growing \ {t} /\ t \in Growing
             /\ Len(codeCacheList') = Len(codeCacheList) + 1
             /\ curNumberOfCodeCaches' = curNumberOfCodeCaches + 1
    BY <1>1, <1>2, <1>4, <1>7, GrowingFinite DEF CountInv
  <1> QED BY <1>3, <1>5, <1>6, <1>7, GrowingStep

-----------------------------------------------------------------------------
(***************************************************************************)
(* The invariant holds always                                              *)
(***************************************************************************)

\* initialize(true, 1) establishes the types, whether or not there is memory
\* for the first cache.
LEMMA InitTypes ==
    ASSUME Init
    PROVE  TypeOK
  <1>1. /\ PointerSize \in 0 .. RepositorySize /\ CodeCacheSize \in 0 .. RepositorySize
        /\ 0 \in Sizes \cup {0} /\ Retries \in -1 .. Retries
    BY SizesAssumption, FirstCacheFits DEF PointerSize
  <1>2. /\ FirstSegment \in Segments
        /\ FirstSegment.top = CodeCacheSize /\ FirstSegment.base = PointerSize
    BY <1>1 DEF FirstSegment, Segments
  <1>3. Capacity(FirstSegment) \in 0 .. RepositorySize
    BY <1>1, <1>2, CapacityRange, SizesAssumption
  <1>4. NewCodeCache(FirstSegment) \in CacheRecord
    BY <1>1, <1>2, <1>3 DEF NewCodeCache, CacheRecord
  <1>5. /\ pc = [t \in Threads |-> "idle"]
        /\ cache = [t \in Threads |-> NoCache] /\ found = [t \in Threads |-> NoCache]
        /\ segment = [t \in Threads |-> NoCache] /\ tid = [t \in Threads |-> compThreadID]
        /\ retries = [t \in Threads |-> Retries] /\ size = [t \in Threads |-> 0]
        /\ numReserved = [t \in Threads |-> 0]
        /\ curNumberOfCodeCaches = 1 /\ reserved = {} /\ codeCacheFull = FALSE
        /\ hasFailed = FALSE
    BY DEF Init
  <1>6. /\ segmentAlloc \in 0 .. RepositorySize
        /\ Caches \subseteq 0 .. RepositorySize
        /\ codeCaches \in [Caches -> CacheRecord]
        /\ codeCacheList \in Seq(Caches)
    <2>1. CASE /\ segmentAlloc = CodeCacheSize
               /\ codeCacheList = << PointerSize >>
               /\ codeCaches = [c \in {PointerSize} |-> NewCodeCache(FirstSegment)]
      BY <1>1, <1>4, <2>1 DEF Caches
    <2>2. CASE /\ segmentAlloc = PointerSize
               /\ codeCacheList = << >>
               /\ codeCaches = [c \in {} |-> NewCodeCache(FirstSegment)]
      BY <1>1, <2>2 DEF Caches
    <2> QED BY <2>1, <2>2 DEF Init
  <1> QED BY <1>1, <1>5, <1>6 DEF TypeOK, CacheRecord

\* The whole invariant holds initially.
LEMMA InitInv ==
    ASSUME Init
    PROVE  Inv
  <1>1. TypeOK
    BY InitTypes
  <1>2. /\ pc = [t \in Threads |-> "idle"]
        /\ cache = [t \in Threads |-> NoCache] /\ found = [t \in Threads |-> NoCache]
        /\ segment = [t \in Threads |-> NoCache]
        /\ curNumberOfCodeCaches = 1 /\ reserved = {}
    BY DEF Init
  <1>3. Control
    BY <1>2 DEF Control, AtWork
  <1>4. TrimFits
    BY <1>2 DEF TrimFits
  <1>5. CarvedByThread = {}
    BY <1>2 DEF CarvedByThread
  <1>6. /\ \A s \in CacheSegments : s = FirstSegment /\ segmentAlloc = CodeCacheSize
        /\ PointerSize =< segmentAlloc /\ Len(codeCacheList) =< 1
    <2>1. PointerSize =< CodeCacheSize
      BY SizesAssumption, FirstCacheFits DEF PointerSize
    <2>2. CASE /\ segmentAlloc = CodeCacheSize
               /\ codeCacheList = << PointerSize >>
               /\ codeCaches = [c \in {PointerSize} |-> NewCodeCache(FirstSegment)]
      BY <2>1, <2>2 DEF CacheSegments, Caches, NewCodeCache, FirstSegment
    <2>3. CASE /\ segmentAlloc = PointerSize
               /\ codeCacheList = << >>
               /\ codeCaches = [c \in {} |-> NewCodeCache(FirstSegment)]
      BY <2>3 DEF CacheSegments, Caches, PointerSize
    <2> QED BY <2>2, <2>3 DEF Init
  <1>7. /\ FirstSegment.base = PointerSize /\ FirstSegment.top = CodeCacheSize
        /\ PointerSize =< CodeCacheSize /\ CodeCacheSize \in Nat
    BY SizesAssumption, FirstCacheFits DEF FirstSegment, PointerSize
  <1>8. \A s \in AllSegments : s = FirstSegment /\ segmentAlloc = CodeCacheSize
    BY <1>5, <1>6 DEF AllSegments
  <1>9. SegmentsDisjoint
    <2>1. NoCache \notin CacheSegments
      <3>1. \A r \in CacheSegments : r \in [base : 0 .. RepositorySize, top : 0 .. RepositorySize]
        BY <1>1, SegmentsTyped DEF AllSegments, Segments
      <3> QED BY <3>1, NoCacheAssumption
    <2>2. \A s \in AllSegments : PointerSize =< s.base /\ s.base =< s.top /\ s.top =< segmentAlloc
      BY <1>7, <1>8 DEF PointerSize
    <2>3. \A r, s \in AllSegments : r = s
      BY <1>8
    <2>4. \A t \in Threads : segment[t] = NoCache
      BY <1>2
    <2> QED BY <2>1, <2>2, <2>3, <2>4, DisjointParts
  <1>10. SegmentsLarge
    <2>1. FirstSegment.top - FirstSegment.base >= CodeCacheSize - PointerSize
      BY <1>7 DEF PointerSize
    <2> QED BY <1>8, <2>1 DEF SegmentsLarge
  <1>11. AllocStarted /\ ReservedOwned
    BY <1>2, <1>6 DEF AllocStarted, ReservedOwned
  <1>12. CountInv
    <2>1. Growing = {}
      BY <1>2 DEF Growing
    <2>2. Cardinality(Growing) = 0
      BY <2>1, FS_EmptySet
    <2>3. MaxCaches \in Nat \ {0}
      BY SizesAssumption
    <2> QED BY <1>2, <1>6, <2>2, <2>3, GrowingFinite DEF CountInv
  <1> QED BY <1>1, <1>3, <1>4, <1>9, <1>10, <1>11, <1>12 DEF Inv

\* Every step, and every stuttering step, keeps the invariant.
LEMMA InvKept ==
    ASSUME Inv, [Next]_vars
    PROVE  Inv'
  <1>1. CASE Next
    <2>1. PICK t \in Threads : StartCompile(t) \/ Compile(t)
      BY <1>1 DEF Next
    <2> QED BY <2>1, TypesKept, ControlKept, TrimFitsKept, SegmentsKept, AllocStartedKept,
               ReservedOwnedKept, CountKept DEF Inv
  <1>2. CASE UNCHANGED vars
    <2>1. /\ UNCHANGED << segmentAlloc, codeCacheList, curNumberOfCodeCaches, codeCaches >>
          /\ UNCHANGED << reserved, codeCacheFull, hasFailed, pc >>
          /\ UNCHANGED << cache, found, segment, tid, retries, size, numReserved >>
      BY <1>2 DEF vars, shared, locals
    <2>2. TypeOK'
      BY <2>1 DEF Inv, TypeOK, Caches
    <2>3. Control' /\ TrimFits' /\ AllocStarted'
      BY <2>1 DEF Inv, Control, TrimFits, AllocStarted
    <2>4. CacheSegments' = CacheSegments /\ CarvedByThread' = CarvedByThread
      BY <2>1 DEF CacheSegments, CarvedByThread, Caches
    <2>5. SegmentsDisjoint' /\ SegmentsLarge'
      BY <2>1, <2>4 DEF Inv, SegmentsDisjoint, SegmentsLarge, AllSegments
    <2>6. ReservedOwned'
      BY <2>1 DEF Inv, ReservedOwned, Owns, Holds
    <2>7. CountInv'
      BY <2>1 DEF Inv, CountInv, Growing
    <2> QED BY <2>2, <2>3, <2>5, <2>6, <2>7 DEF Inv
  <1> QED BY <1>1, <1>2

\* In every state of the manager, the invariant holds.
LEMMA InvAlways == Spec => []Inv
  <1>1. Init => Inv
    BY InitInv
  <1>2. Inv /\ [Next]_vars => Inv'
    BY InvKept
  <1> QED BY <1>1, <1>2, PTL DEF Spec

-----------------------------------------------------------------------------
(***************************************************************************)
(* What follows from the invariant                                         *)
(***************************************************************************)

\* An address of a cache's code belongs to no other cache, although the test
\* includes the address after the end.
LEMMA OneOwner ==
    ASSUME Inv, NEW c \in Caches, NEW a \in c + PointerSize .. codeCaches[c].top - 1,
           NEW d \in Caches, Encompasses(d, a)
    PROVE  d = c
  <1> DEFINE r == [base |-> c, top |-> codeCaches[c].top]
             s == [base |-> d, top |-> codeCaches[d].top]
  <1>1. /\ c \in Int /\ d \in Int /\ codeCaches[c].top \in Int /\ codeCaches[d].top \in Int
    BY SizesAssumption DEF Inv, TypeOK
  <1>2. c + 1 =< a /\ a < codeCaches[c].top /\ d =< a /\ a =< codeCaches[d].top /\ a \in Int
    BY <1>1 DEF Encompasses, PointerSize
  <1>3. r \in AllSegments /\ s \in AllSegments
    BY DEF AllSegments, CacheSegments
  <1>4. SUFFICES ASSUME d # c PROVE FALSE
    OBVIOUS
  <1>5. r # s
    BY <1>4
  <1>6. r.top =< s.base \/ s.top =< r.base
    BY <1>3, <1>5, DisjointParts DEF Inv
  <1> QED BY <1>1, <1>2, <1>6

\* Therefore the search of the list finds the cache itself.
LEMMA LookupSound ==
    ASSUME Inv
    PROVE  LookupFindsOwner
  <1>1. TypeOK
    BY DEF Inv
  <1>2. ASSUME NEW i \in 1 .. Len(codeCacheList),
               NEW a \in codeCacheList[i] + PointerSize .. codeCaches[codeCacheList[i]].top - 1
        PROVE  findCodeCacheFromPC(a) = codeCacheList[i]
    <2> DEFINE c == codeCacheList[i]
               S == {d \in Caches : Encompasses(d, a)}
    <2>1. c \in Caches
      BY <1>1, ElementOfSeq DEF TypeOK
    <2>2. c \in Int /\ codeCaches[c].top \in Int
      <3>1. c \in 0 .. RepositorySize /\ codeCaches[c].top \in 0 .. RepositorySize
        BY <1>1, <2>1 DEF TypeOK
      <3> QED BY <3>1, SizesAssumption
    <2>3. c \in S
      BY <2>1, <2>2 DEF Encompasses, PointerSize
    <2>4. \A d \in S : d = c
      BY <2>1, OneOwner
    <2>5. findCodeCacheFromPC(a) = FirstCache(S)
      BY DEF findCodeCacheFromPC, Caches
    <2> HIDE DEF S
    <2>6. FirstCache(S) \in S
      BY <1>1, <2>3, FirstCacheFound
    <2> QED BY <2>4, <2>5, <2>6
  <1> QED BY <1>2 DEF LookupFindsOwner

-----------------------------------------------------------------------------
(***************************************************************************)
(* Ownership until a request has to leave its cache                        *)
(***************************************************************************)

\* Where a step takes its thread as long as no request has left its cache.
LEMMA QuietStep ==
    ASSUME Inv, BeforeSwitch, NEW t \in Threads, StartCompile(t) \/ Compile(t),
           pc'[t] \notin {"scan", "grow"}
    PROVE  /\ pc'[t] \notin {"switch", "switched"}
           /\ t \in Growing' => cache'[t] = NoCache /\ tid'[t] = compThreadID
           /\ Owns(t)' \subseteq reserved'
  <1> USE DEF locals, shared, Goto
  <1>1. /\ pc = [v \in Threads |-> pc[v]] /\ cache = [v \in Threads |-> cache[v]]
        /\ found = [v \in Threads |-> found[v]] /\ tid = [v \in Threads |-> tid[v]]
    BY DEF Inv, TypeOK
  <1>2. Control /\ NoCache \notin Caches /\ NoCache \notin 0 .. RepositorySize
    BY NoCacheAssumption DEF Inv, TypeOK
  <1>3. /\ pc[t] \notin {"scan", "grow", "switch", "switched"}
        /\ t \in Growing => cache[t] = NoCache /\ tid[t] = compThreadID
        /\ Owns(t) \subseteq reserved
    BY DEF BeforeSwitch
  <1>4. CASE ReserveScan(t)
    <2>1. pc[t] = "reserve" /\ cache[t] = NoCache /\ found[t] = NoCache
      BY <1>2, <1>4 DEF ReserveScan, Control
    <2>2. CASE \E c \in Caches \ reserved :
                 /\ reserved' = reserved \cup {c} /\ cache' = [cache EXCEPT ![t] = c]
                 /\ pc' = [pc EXCEPT ![t] = "compile"] /\ UNCHANGED found
      BY <1>1, <1>2, <2>1, <2>2 DEF Growing, Owns, Holds
    <2>3. CASE /\ UNCHANGED << reserved, cache, found >>
               /\ pc' = [pc EXCEPT ![t] = "reserveGrow"]
      BY <1>1, <2>1, <2>3 DEF Growing, Owns, Holds
    <2>4. ~Scan(t)
      BY <2>1 DEF Scan
    <2> QED BY <1>4, <2>2, <2>3, <2>4, ScanOutcome
  <1>5. CASE Construct(t)
    <2>1. pc[t] = "construct" /\ found[t] = NoCache /\ UNCHANGED << cache, tid >>
      BY <1>2, <1>5 DEF Construct, Control
    <2>2. cache[t] = NoCache /\ tid[t] = compThreadID
      BY <1>3, <2>1 DEF Growing
    <2> DEFINE c == segment[t].base
    <2>3. /\ reserved' = reserved \cup {c}
          /\ found' = [found EXCEPT ![t] = c] /\ pc' = [pc EXCEPT ![t] = "link"]
      BY <1>5, <2>2, ConstructEffect DEF compThreadID
    <2> HIDE DEF c
    <2>4. pc'[t] = "link" /\ found'[t] = c /\ cache'[t] = NoCache /\ tid'[t] = compThreadID
      BY <1>1, <2>1, <2>2, <2>3
    <2> QED BY <2>3, <2>4 DEF Growing, Owns, Holds
  <1>6. CASE Link(t)
    <2>1. pc[t] = "link" /\ cache[t] = NoCache
      BY <1>3, <1>6 DEF Link, Growing
    <2> QED BY <1>1, <1>3, <1>6, <2>1 DEF Link, Growing, Owns, Holds
  <1>7. CASE ReserveGrow(t)
    <2>1. pc[t] = "reserveGrow" /\ cache[t] = NoCache /\ found[t] = NoCache
      BY <1>2, <1>7 DEF ReserveGrow, Control
    <2> QED BY <1>1, <1>7, <2>1 DEF ReserveGrow, Growing, Owns, Holds
  <1>8. CASE Unreserve(t)
    <2>1. found[t] = NoCache
      BY <1>2, <1>8 DEF Unreserve, Control
    <2> QED BY <1>1, <1>8, <2>1 DEF Unreserve, Growing, Owns, Holds
  <1>9. CASE Carve(t) \/ ConstructFails(t) \/ UndoCarving(t)
    <2>1. /\ pc[t] \in {"carve", "construct"} \/ UndoCarving(t)
          /\ pc'[t] \in {"construct", "undoCarving", "noNewCache"}
          /\ UNCHANGED << cache, found, tid, reserved >>
      BY <1>1, <1>9 DEF Carve, ConstructFails, UndoCarving
    <2>2. UndoCarving(t) => pc'[t] = "noNewCache"
      BY <1>1 DEF UndoCarving
    <2> QED BY <1>3, <2>1, <2>2 DEF Growing, Owns, Holds
  <1>10. CASE \/ StartCompile(t) \/ NoNewCache(t) \/ Request(t) \/ Attempt(t) \/ Allocate(t)
              \/ Continue(t) \/ Trim(t) \/ Abort(t)
    <2>1. /\ UNCHANGED << cache, found, reserved >>
          /\ pc'[t] \in {"reserve", "unreserve", "attempt", "allocate", "allocated", "scan",
                         "grow", "compile"}
      BY <1>1, <1>10 DEF StartCompile, NoNewCache, Request, Attempt, Allocate, Continue, Trim,
         Abort
    <2> QED BY <1>3, <2>1 DEF Growing, Owns, Holds
  <1>11. ~Scan(t) /\ ~Grow(t) /\ ~SwitchReleases(t) /\ ~SwitchForgets(t)
    BY <1>3 DEF Scan, Grow, SwitchReleases, SwitchForgets
  <1> QED BY <1>4, <1>5, <1>6, <1>7, <1>8, <1>9, <1>10, <1>11 DEF Compile

\* A step of one thread keeps all of BeforeSwitch.
LEMMA BeforeSwitchKept ==
    ASSUME Inv, BeforeSwitch, NEW t \in Threads, StartCompile(t) \/ Compile(t),
           pc'[t] \notin {"scan", "grow"}
    PROVE  BeforeSwitch'
  <1>1. OwnershipStep(t)
    BY OwnershipSteps
  <1>2. /\ pc'[t] \notin {"scan", "grow", "switch", "switched"}
        /\ t \in Growing' => cache'[t] = NoCache /\ tid'[t] = compThreadID
        /\ Owns(t)' \subseteq reserved'
    BY QuietStep
  <1>3. \A u \in Threads : /\ Owns(u) \subseteq reserved
                           /\ u # t => Owns(t) \cap Owns(u) = {}
    BY DEF BeforeSwitch, ExclusiveOwnership
  <1>4. ASSUME NEW u \in Threads \ {t}
        PROVE  /\ pc'[u] \notin {"scan", "grow", "switch", "switched"}
               /\ u \in Growing' => cache'[u] = NoCache /\ tid'[u] = compThreadID
               /\ Owns(u)' = Owns(u)
               /\ Owns(u)' \subseteq reserved'
               /\ Owns(t)' \cap Owns(u)' = {}
    <2>1. Owns(u)' = Owns(u)
      BY OthersOwn
    <2>2. pc'[u] = pc[u] /\ cache'[u] = cache[u] /\ tid'[u] = tid[u]
      BY OthersStay
    <2>3. \A c \in Owns(u) : c \in reserved \ Owns(t)
      BY <1>3
    <2>4. Owns(u)' \subseteq reserved' /\ Owns(t)' \cap Owns(u)' = {}
      BY <1>1, <2>1, <2>3 DEF OwnershipStep
    <2> QED BY <2>1, <2>2, <2>4 DEF BeforeSwitch, Growing
  <1>5. ExclusiveOwnership'
    <2>1. ASSUME NEW u \in Threads, NEW v \in Threads, u # v
          PROVE  Owns(u)' \cap Owns(v)' = {}
      <3>1. CASE u = t \/ v = t
        BY <1>4, <2>1, <3>1
      <3>2. CASE u # t /\ v # t
        <4>1. Owns(u)' = Owns(u) /\ Owns(v)' = Owns(v)
          BY <1>4, <3>2
        <4> QED BY <2>1, <4>1 DEF BeforeSwitch, ExclusiveOwnership
      <3> QED BY <3>1, <3>2
    <2> QED BY <2>1 DEF ExclusiveOwnership
  <1>6. \A u \in Threads :
          /\ pc'[u] \notin {"scan", "grow", "switch", "switched"}
          /\ u \in Growing' => cache'[u] = NoCache /\ tid'[u] = compThreadID
          /\ Owns(u)' \subseteq reserved'
    BY <1>2, <1>4
  <1> QED BY <1>5, <1>6 DEF BeforeSwitch

\* In every state of the manager with its history, both invariants hold.
LEMMA SwitchInvAlways == MCSpec => [](Inv /\ SwitchInv)
  <1> DEFINE I == Inv /\ SwitchInv
  <1>1. MCInit => I
    <2> SUFFICES ASSUME MCInit PROVE Inv /\ BeforeSwitch
      BY DEF SwitchInv
    <2>1. Init /\ Inv
      BY InitInv DEF MCInit
    <2>2. /\ pc = [t \in Threads |-> "idle"] /\ cache = [t \in Threads |-> NoCache]
          /\ found = [t \in Threads |-> NoCache]
      BY <2>1 DEF Init
    <2>3. \A t \in Threads : pc[t] = "idle" /\ Owns(t) = {}
      BY <2>2 DEF Owns, Holds
    <2> QED BY <2>1, <2>3 DEF BeforeSwitch, ExclusiveOwnership, Growing
  <1>2. I /\ [MCNext]_<< vars, started, switching >> => I'
    <2> SUFFICES ASSUME Inv, SwitchInv, [MCNext]_<< vars, started, switching >>
                 PROVE  Inv' /\ SwitchInv'
      OBVIOUS
    <2>1. CASE MCNext
      <3>1. Inv'
        BY <2>1, InvKept DEF MCNext
      <3>2. PICK t \in Threads : StartCompile(t) \/ Compile(t)
        BY <2>1 DEF MCNext, Next
      <3>3. ASSUME ~switching' PROVE BeforeSwitch'
        <4>1. ~switching /\ pc'[t] \notin {"scan", "grow"}
          BY <2>1, <3>3 DEF MCNext
        <4> QED BY <3>2, <4>1, BeforeSwitchKept DEF SwitchInv
      <3> QED BY <3>1, <3>3 DEF SwitchInv
    <2>2. CASE UNCHANGED << vars, started, switching >>
      <3>1. Inv'
        BY <2>2, InvKept
      <3>2. UNCHANGED << pc, cache, found, tid, reserved, switching >>
        BY <2>2 DEF vars, shared, locals
      <3> QED BY <3>1, <3>2 DEF SwitchInv, BeforeSwitch, ExclusiveOwnership, Growing, Owns, Holds
    <2> QED BY <2>1, <2>2
  <1> QED BY <1>1, <1>2, PTL DEF MCSpec

-----------------------------------------------------------------------------
(***************************************************************************)
(* One thread                                                              *)
(***************************************************************************)

\* A code cache is large beside a header and the alignment: nj has caches of
\* 128 KB, an alignment of 32 and headers of two words.
CachesLarge == 2 * (Header + 3 * Align) =< CodeCacheSize

\* Every cache is in the list, or about to be.
Listed ==
  \A c \in Caches :
    \/ \E i \in 1 .. Len(codeCacheList) : codeCacheList[i] = c
    \/ \E t \in Threads : pc[t] = "link" /\ found[t] = c

\* What a thread that compiles alone knows of its request: from the second
\* attempt on there is room for it, as there is in the segment it has carved
\* and in the cache it is about to switch to.
Served(t) ==
  /\ pc[t] \in {"scan", "grow"} => retries[t] = Retries - 1
  /\ pc[t] = "construct" /\ cache[t] # NoCache => Capacity(segment[t]) >= Adjusted(size[t])
  /\ pc[t] \in {"link", "switch", "switched"} /\ cache[t] # NoCache => Fits(found[t], size[t])
  /\ pc[t] = "attempt" => retries[t] = Retries \/ Fits(cache[t], size[t])
  /\ pc[t] = "allocate" => retries[t] = Retries - 1 \/ Fits(cache[t], size[t])

\* And of the caches when it asks for a new one: none has room, or there is none.
Searched(t) ==
  /\ pc[t] = "scan" => ~Fits(cache[t], size[t])
  /\ pc[t] \in {"grow", "carve", "construct", "undoCarving", "noNewCache"} /\ cache[t] # NoCache =>
       \A c \in Caches : ~HasRoom(c, size[t])
  /\ pc[t] \in {"reserveGrow", "carve", "construct", "undoCarving", "noNewCache"}
     /\ cache[t] = NoCache => Caches = {}

AloneInv ==
  /\ started \subseteq Threads /\ \A t \in Threads : pc[t] # "idle" => t \in started
  /\ Listed
  /\ Alone => \A t \in Threads : Served(t) /\ (Retries >= 2 => Searched(t))

\* A segment carved for a request has room for it.
LEMMA CarvedRoom ==
    ASSUME TypeOK, CachesLarge, NEW t \in Threads, cache[t] # NoCache, NEW a \in Nat
    PROVE  Capacity([base |-> a, top |-> a + CarvedSize(t)]) >= Adjusted(size[t])
  <1> DEFINE n == size[t] + Helpers
             g == SegmentSize(t)
             w == a + CarvedSize(t)
  <1>1. /\ size[t] \in Nat /\ Helpers \in Nat /\ Header \in Nat /\ Align \in Nat /\ Align >= 1
        /\ CodeCacheSize \in Nat /\ n \in Nat /\ 2 * n \in Int
    BY SizeNatural, SizesAssumption
  <1>2. RoundUp(2 * n) \in Int /\ 2 * n =< RoundUp(2 * n)
    BY <1>1, Rounding
  <1>3. g = IF CodeCacheSize < 2 * n THEN RoundUp(2 * n) ELSE CodeCacheSize
    BY DEF SegmentSize
  <1> HIDE DEF n, g
  <1>4. g \in Int /\ g >= CodeCacheSize /\ g >= 2 * n
    BY <1>1, <1>2, <1>3
  <1>5. CarvedSize(t) \in Int /\ CarvedSize(t) >= g - 1
    BY <1>4 DEF CarvedSize, PointerSize, g
  <1>6. w \in Int /\ w - Helpers \in Int /\ w >= a + g - 1 /\ a + 1 \in Int
    BY <1>1, <1>4, <1>5
  <1> HIDE DEF w
  <1>7. RoundDown(w - Helpers) \in Int /\ w - Helpers - Align + 1 =< RoundDown(w - Helpers)
    BY <1>6, Rounding
  <1>8. RoundUp(a + 1) \in Int /\ RoundUp(a + 1) =< a + 1 + Align - 1
    BY <1>6, Rounding
  <1>9. RoundDown(w - Helpers) - RoundUp(a + 1) >= g - Helpers - 2 * Align
    BY <1>1, <1>4, <1>6, <1>7, <1>8
  <1>10. size[t] + Header \in Int
    BY <1>1
  <1>11. Adjusted(size[t]) \in Int /\ Adjusted(size[t]) =< size[t] + Header + Align - 1
    BY <1>10, Rounding DEF Adjusted
  <1>12. n = size[t] + Helpers
    BY DEF n
  <1>13. 2 * (Header + 3 * Align) =< CodeCacheSize
    BY DEF CachesLarge
  <1>14. g - Helpers - 2 * Align >= size[t] + Header + Align - 1
    BY <1>1, <1>4, <1>12, <1>13
  <1>15. RoundDown(w - Helpers) - RoundUp(a + 1) >= Adjusted(size[t])
    BY <1>1, <1>4, <1>7, <1>8, <1>9, <1>11, <1>14
  <1> QED BY <1>15 DEF Capacity, PointerSize, w

\* Every cache stays in the list, and a new one comes into it.
LEMMA ListedKept ==
    ASSUME Inv, Listed, NEW t \in Threads, StartCompile(t) \/ Compile(t)
    PROVE  Listed'
  <1> USE DEF locals, shared, Goto
  <1>1. pc = [v \in Threads |-> pc[v]] /\ found = [v \in Threads |-> found[v]]
    BY DEF Inv, TypeOK
  <1>2. codeCacheList \in Seq(Caches) /\ Len(codeCacheList) \in Nat
    BY LenProperties DEF Inv, TypeOK
  <1>3. \A u \in Threads \ {t} : pc'[u] = pc[u] /\ found'[u] = found[u]
    BY OthersStay
  <1>4. CASE Construct(t)
    <2>1. /\ Caches' = Caches \cup {segment[t].base} /\ found' = [found EXCEPT ![t] = segment[t].base]
          /\ pc' = [pc EXCEPT ![t] = "link"] /\ codeCacheList' = codeCacheList
          /\ pc[t] = "construct"
      BY <1>4, ConstructEffect DEF Construct
    <2>2. pc'[t] = "link" /\ found'[t] = segment[t].base
      BY <1>1, <2>1
    <2>3. \A u \in Threads : pc[u] = "link" => pc'[u] = "link" /\ found'[u] = found[u]
      BY <1>3, <2>1
    <2> QED BY <2>1, <2>2, <2>3 DEF Listed
  <1>5. CASE Link(t)
    <2> DEFINE new == found[t]
               l == << new >>
    <2>1. codeCacheList' = l \o codeCacheList /\ Caches' = Caches
      BY <1>5 DEF Link, Caches
    <2>2. new \in Caches
      BY <1>5 DEF Link, Inv, TypeOK, Control
    <2> HIDE DEF new
    <2>3. l \in Seq(Caches) /\ Len(l) = 1 /\ l[1] = new
      BY <2>2
    <2> HIDE DEF l
    <2>4. /\ Len(l \o codeCacheList) = 1 + Len(codeCacheList)
          /\ \A i \in 1 .. 1 + Len(codeCacheList) :
               (l \o codeCacheList)[i] = IF i =< 1 THEN l[i] ELSE codeCacheList[i - 1]
      <3>1. /\ Len(l \o codeCacheList) = Len(l) + Len(codeCacheList)
            /\ \A i \in 1 .. Len(l) + Len(codeCacheList) :
                 (l \o codeCacheList)[i] = IF i =< Len(l) THEN l[i] ELSE codeCacheList[i - Len(l)]
        BY ONLY <1>2, <2>3, ConcatProperties
      <3> QED BY ONLY <2>3, <3>1
    <2> DEFINE k == Len(codeCacheList)
               f == l \o codeCacheList
    <2>a. k \in Nat /\ Len(f) = 1 + k
      BY <1>2, <2>4
    <2>b. \A i \in 1 .. 1 + k : f[i] = IF i =< 1 THEN l[i] ELSE codeCacheList[i - 1]
      BY <2>4
    <2> HIDE DEF k, f
    <2>5. \A i \in 1 .. Len(codeCacheList) :
            /\ i + 1 \in 1 .. Len(codeCacheList') /\ codeCacheList'[i + 1] = codeCacheList[i]
      <3> SUFFICES ASSUME NEW i \in 1 .. k
                   PROVE  i + 1 \in 1 .. Len(f) /\ f[i + 1] = codeCacheList[i]
        BY <2>1 DEF k, f
      <3>1. i + 1 \in 1 .. 1 + k /\ ~(i + 1 =< 1) /\ (i + 1) - 1 = i
        BY <2>a
      <3> QED BY <2>a, <2>b, <3>1
    <2>6. 1 \in 1 .. Len(codeCacheList') /\ codeCacheList'[1] = new
      <3>1. 1 \in 1 .. Len(f) /\ f[1] = new
        BY <2>3, <2>a, <2>b
      <3> QED BY <2>1, <3>1 DEF f
    <2>7. ASSUME NEW c \in Caches
          PROVE  \/ \E i \in 1 .. Len(codeCacheList') : codeCacheList'[i] = c
                 \/ \E u \in Threads : pc'[u] = "link" /\ found'[u] = c
      <3>1. CASE \E i \in 1 .. Len(codeCacheList) : codeCacheList[i] = c
        BY <2>5, <3>1
      <3>2. CASE \E u \in Threads : pc[u] = "link" /\ found[u] = c
        <4>1. PICK u \in Threads : pc[u] = "link" /\ found[u] = c
          BY <3>2
        <4>2. CASE u = t
          BY <2>6, <4>1, <4>2 DEF new
        <4>3. CASE u # t
          BY <1>3, <4>1, <4>3
        <4> QED BY <4>2, <4>3
      <3> QED BY <3>1, <3>2 DEF Listed
    <2> QED BY <2>1, <2>7 DEF Listed
  <1>6. CASE ~Construct(t) /\ ~Link(t)
    <2>1. Caches' = Caches
      BY <1>6, CachesKeptUnless DEF CachesKept
    <2>2. codeCacheList' = codeCacheList /\ pc[t] # "link"
      <3>1. CASE StartCompile(t) \/ ReserveGrow(t) \/ ConstructFails(t) \/ NoNewCache(t) \/ Carve(t)
        BY <3>1 DEF StartCompile, ReserveGrow, ConstructFails, NoNewCache, Carve
      <3>2. CASE Request(t) \/ Attempt(t) \/ Grow(t) \/ Continue(t) \/ Abort(t)
        BY <3>2 DEF Request, Attempt, Grow, Continue, Abort
      <3>3. CASE UndoCarving(t) \/ SwitchReleases(t) \/ SwitchForgets(t) \/ Unreserve(t)
        BY <3>3 DEF UndoCarving, SwitchReleases, SwitchForgets, Unreserve
      <3>4. CASE Allocate(t) \/ Trim(t) \/ ReserveScan(t) \/ Scan(t)
        BY <3>4 DEF Allocate, Trim, ReserveScan, Scan
      <3> QED BY <1>6, <3>1, <3>2, <3>3, <3>4 DEF Compile
    <2>3. \A u \in Threads : pc[u] = "link" => pc'[u] = "link" /\ found'[u] = found[u]
      BY <1>3, <2>2
    <2> QED BY <2>1, <2>2, <2>3 DEF Listed
  <1> QED BY <1>4, <1>5, <1>6

\* A step of a thread that compiles alone leaves room for its request where it
\* goes next.
LEMMA ServedKept ==
    ASSUME Inv, CachesLarge, NEW t \in Threads, Served(t), StartCompile(t) \/ Compile(t)
    PROVE  Served(t)'
  <1> USE DEF locals, shared, Goto
  <1>1. /\ pc = [v \in Threads |-> pc[v]] /\ cache = [v \in Threads |-> cache[v]]
        /\ found = [v \in Threads |-> found[v]] /\ segment = [v \in Threads |-> segment[v]]
        /\ retries = [v \in Threads |-> retries[v]] /\ size = [v \in Threads |-> size[v]]
    BY DEF Inv, TypeOK
  <1>2. TypeOK /\ Control /\ NoCache \notin Caches
    BY NoCacheAssumption DEF Inv, TypeOK
  <1>3. ASSUME pc'[t] \notin {"scan", "grow", "construct", "link", "switch", "switched", "attempt",
                              "allocate"}
        PROVE  Served(t)'
    BY <1>3 DEF Served
  <1>4. CASE StartCompile(t) \/ ReserveGrow(t) \/ ConstructFails(t) \/ UndoCarving(t) \/ NoNewCache(t)
    <2>1. pc'[t] \in {"reserve", "carve", "unreserve", "undoCarving", "noNewCache"}
      BY <1>1, <1>4 DEF StartCompile, ReserveGrow, ConstructFails, UndoCarving, NoNewCache
    <2> QED BY <1>3, <2>1
  <1>5. CASE Grow(t) \/ Continue(t) \/ Trim(t) \/ Abort(t) \/ Unreserve(t) \/ ReserveScan(t)
    <2>1. pc'[t] \in {"carve", "unreserve", "compile", "idle", "reserveGrow"}
      BY <1>1, <1>5 DEF Grow, Continue, Trim, Abort, Unreserve, ReserveScan
    <2> QED BY <1>3, <2>1
  <1>6. CASE Carve(t)
    <2>1. pc'[t] = "noNewCache" \/ pc'[t] = "construct"
      BY <1>1, <1>6 DEF Carve
    <2>2. ASSUME pc'[t] = "construct" PROVE Served(t)'
      <3>1. /\ segment'[t] = [base |-> segmentAlloc, top |-> segmentAlloc + CarvedSize(t)]
            /\ cache' = cache /\ size' = size
        BY <1>1, <1>6, <2>2 DEF Carve
      <3>2. segmentAlloc \in Nat
        BY <1>2, SizesAssumption DEF TypeOK
      <3>3. cache[t] # NoCache => Capacity(segment'[t]) >= Adjusted(size[t])
        BY <1>2, <3>1, <3>2, CarvedRoom
      <3> QED BY <2>2, <3>1, <3>3 DEF Served
    <2> QED BY <1>3, <2>1, <2>2
  <1>7. CASE Construct(t)
    <2>1. /\ pc[t] = "construct" /\ cache' = cache /\ size' = size
      BY <1>7 DEF Construct
    <2>2. /\ pc'[t] = "link" /\ found'[t] = segment[t].base
          /\ codeCaches'[segment[t].base].hole = Capacity(segment[t])
      BY <1>1, <1>7, ConstructEffect
    <2>3. cache[t] # NoCache => Capacity(segment[t]) >= Adjusted(size[t])
      BY <2>1 DEF Served
    <2>4. cache'[t] # NoCache => Fits(found[t], size[t])'
      BY <2>1, <2>2, <2>3 DEF Fits
    <2> QED BY <2>2, <2>4 DEF Served
  <1>8. CASE Link(t)
    <2>1. \/ pc'[t] = "compile"
          \/ /\ pc'[t] = "switch" /\ cache[t] # NoCache
             /\ UNCHANGED << cache, found, size, codeCaches >>
      BY <1>1, <1>8 DEF Link
    <2>2. cache[t] # NoCache => Fits(found[t], size[t])
      BY <1>8 DEF Link, Served
    <2> QED BY <1>3, <2>1, <2>2 DEF Served, Fits
  <1>9. CASE Request(t)
    BY <1>1, <1>9 DEF Request, Served
  <1>10. CASE Attempt(t)
    <2>1. pc[t] = "attempt" /\ UNCHANGED << cache, size, codeCaches >>
      BY <1>10 DEF Attempt
    <2>2. retries[t] = Retries \/ Fits(cache[t], size[t])
      BY <2>1 DEF Served
    <2>3. \/ pc'[t] = "unreserve"
          \/ pc'[t] = "allocate" /\ retries'[t] = retries[t] - 1
      BY <1>1, <1>10 DEF Attempt
    <2> QED BY <1>3, <2>1, <2>2, <2>3 DEF Served, Fits
  <1>11. CASE Allocate(t)
    <2>1. pc[t] = "allocate" /\ UNCHANGED << cache, size, retries >>
      BY <1>11 DEF Allocate
    <2>2. \/ pc'[t] = "allocated"
          \/ pc'[t] \in {"scan", "grow"} /\ ~Fits(cache[t], size[t])
      BY <1>1, <1>11 DEF Allocate
    <2>3. retries[t] = Retries - 1 \/ Fits(cache[t], size[t])
      BY <2>1 DEF Served
    <2> QED BY <1>3, <2>1, <2>2, <2>3 DEF Served
  <1>12. CASE Scan(t)
    <2> DEFINE S == {c \in Eligible : HasRoom(c, size[t])}
               c == FirstWithRoom(size[t])
    <2>1. pc[t] = "scan" /\ UNCHANGED << cache, size, retries >> /\ retries[t] = Retries - 1
      BY <1>12 DEF Scan, Served
    <2>2. CASE c = NoCache
      <3>1. pc'[t] = "grow"
        BY <1>1, <1>12, <2>2 DEF Scan
      <3> QED BY <2>1, <3>1 DEF Served
    <2>3. CASE c # NoCache
      <3>1. c = FirstCache(S)
        BY DEF FirstWithRoom
      <3>2. c \in S /\ c \in Caches
        <4> HIDE DEF c, S
        <4> QED BY <1>2, <2>3, <3>1, FirstCacheFound
      <3>3. pc'[t] = "switch" /\ found'[t] = c /\ reserve(c, tid[t])
        BY <1>1, <1>12, <2>3 DEF Scan
      <3>4. HasRoom(c, size[t])
        BY <3>2
      <3> HIDE DEF c
      <3>5. HolesKept
        <4>1. tid[t] \in {NotReserving, compThreadID}
          BY <1>2 DEF TypeOK
        <4> QED BY <1>2, <3>2, <3>3, <4>1, ReserveMarks
      <3>6. codeCaches'[c].hole = codeCaches[c].hole
        BY <3>2, <3>5 DEF HolesKept
      <3>7. codeCaches[c].hole \in Int /\ Adjusted(size[t]) \in Int
        <4>1. size[t] \in Nat
          BY <1>2, SizeNatural
        <4>2. Adjusted(size[t]) \in Int
          BY <4>1, AdjustedSize
        <4>3. codeCaches[c].hole \in 0 .. RepositorySize
          BY <1>2, <3>2 DEF TypeOK
        <4> QED BY <4>2, <4>3, SizesAssumption
      <3>8. Fits(found[t], size[t])'
        BY <2>1, <3>3, <3>4, <3>6, <3>7 DEF Fits, HasRoom
      <3> QED BY <3>3, <3>8 DEF Served
    <2> QED BY <2>2, <2>3
  <1>13. CASE SwitchReleases(t)
    <2>1. pc'[t] = "switched" /\ pc[t] = "switch" /\ UNCHANGED << cache, found, size, codeCaches >>
      BY <1>1, <1>13 DEF SwitchReleases
    <2> QED BY <2>1 DEF Served, Fits
  <1>14. CASE SwitchForgets(t)
    <2>1. /\ pc[t] = "switched" /\ pc'[t] = "attempt" /\ cache'[t] = found[t] /\ size' = size
          /\ codeCaches' = [codeCaches EXCEPT ![cache[t]].reservingCompThreadID = NotReserving]
      BY <1>1, <1>14 DEF SwitchForgets
    <2>2. cache[t] # NoCache /\ found[t] # NoCache
      BY <1>2, <2>1 DEF Control, AtWork
    <2>3. cache[t] \in Caches /\ found[t] \in Caches
      BY <1>2, <2>2 DEF TypeOK
    <2>4. HolesKept
      BY <1>2, <2>1, <2>3, MarkWritten
    <2>5. Fits(found[t], size[t])
      BY <2>1, <2>2 DEF Served
    <2>6. Fits(cache[t], size[t])'
      BY <2>1, <2>3, <2>4, <2>5 DEF Fits, HolesKept
    <2> QED BY <2>1, <2>6 DEF Served
  <1> QED BY <1>4, <1>5, <1>6, <1>7, <1>8, <1>9, <1>10, <1>11, <1>12, <1>13, <1>14 DEF Compile

\* A thread that has reserved nothing has no cache reserved while the others
\* are idle, and one that works in a cache only that cache.
LEMMA AloneReserves ==
    ASSUME Inv, NEW t \in Threads, \A u \in Threads \ {t} : pc[u] = "idle", found[t] = NoCache
    PROVE  \A c \in reserved : c = cache[t] /\ c # NoCache
  <1>1. \A u \in Threads \ {t} : Owns(u) = {}
    <2> SUFFICES ASSUME NEW u \in Threads \ {t} PROVE Owns(u) = {}
      OBVIOUS
    <2>1. cache[u] = NoCache /\ found[u] = NoCache /\ pc[u] = "idle"
      BY DEF Inv, Control
    <2> QED BY <2>1 DEF Owns, Holds
  <1>2. Owns(t) \subseteq {cache[t]} \ {NoCache}
    BY DEF Owns, Holds
  <1> QED BY <1>1, <1>2 DEF Inv, ReservedOwned

\* While nobody is about to link a cache, every cache is in the list.
LEMMA AllListed ==
    ASSUME Listed, \A u \in Threads : pc[u] # "link", NEW c \in Caches
    PROVE  \E i \in 1 .. Len(codeCacheList) : codeCacheList[i] = c
  BY DEF Listed

\* A step of a thread that compiles alone asks for a new cache only when it has
\* searched all others.
LEMMA SearchedKept ==
    ASSUME Inv, Listed, NEW t \in Threads, \A u \in Threads \ {t} : pc[u] = "idle",
           Served(t), Searched(t), Retries >= 2, StartCompile(t) \/ Compile(t)
    PROVE  Searched(t)'
  <1> USE DEF locals, shared, Goto
  <1>1. /\ pc = [v \in Threads |-> pc[v]] /\ cache = [v \in Threads |-> cache[v]]
        /\ found = [v \in Threads |-> found[v]] /\ size = [v \in Threads |-> size[v]]
    BY DEF Inv, TypeOK
  <1>2. TypeOK /\ Control
    BY DEF Inv
  <1>3. ASSUME pc'[t] \notin {"scan", "grow", "carve", "construct", "undoCarving", "noNewCache",
                              "reserveGrow"}
        PROVE  Searched(t)'
    BY <1>3 DEF Searched
  <1>4. ASSUME UNCHANGED << cache, size, codeCaches >>,
               pc'[t] \in {"carve", "construct", "undoCarving", "noNewCache"},
               \/ pc[t] \in {"carve", "construct", "undoCarving"}
               \/ pc[t] = "grow" /\ cache[t] # NoCache
               \/ pc[t] = "reserveGrow" /\ cache[t] = NoCache
        PROVE  Searched(t)'
    <2>1. Caches' = Caches /\ \A c : HasRoom(c, size[t])' <=> HasRoom(c, size[t])
      BY <1>4 DEF Caches, HasRoom
    <2>2. cache[t] # NoCache => \A c \in Caches : ~HasRoom(c, size[t])
      BY <1>4 DEF Searched
    <2>3. cache[t] = NoCache => Caches = {}
      BY <1>4 DEF Searched
    <2> QED BY <1>4, <2>1, <2>2, <2>3 DEF Searched
  <1>5. CASE StartCompile(t) \/ NoNewCache(t) \/ Construct(t) \/ Link(t) \/ Request(t) \/ Attempt(t)
    <2>1. pc'[t] \in {"reserve", "unreserve", "link", "compile", "switch", "attempt", "allocate"}
      BY <1>1, <1>5 DEF StartCompile, NoNewCache, Construct, Link, Request, Attempt
    <2> QED BY <1>3, <2>1
  <1>6. CASE SwitchReleases(t) \/ SwitchForgets(t) \/ Continue(t) \/ Trim(t) \/ Abort(t) \/ Unreserve(t)
    <2>1. pc'[t] \in {"switched", "attempt", "compile", "unreserve", "idle"}
      BY <1>1, <1>6 DEF SwitchReleases, SwitchForgets, Continue, Trim, Abort, Unreserve
    <2> QED BY <1>3, <2>1
  <1>7. CASE Carve(t) \/ ConstructFails(t) \/ UndoCarving(t)
    <2>1. /\ UNCHANGED << cache, size, codeCaches >>
          /\ pc[t] \in {"carve", "construct", "undoCarving"}
          /\ pc'[t] \in {"construct", "undoCarving", "noNewCache"}
      BY <1>1, <1>7 DEF Carve, ConstructFails, UndoCarving
    <2> QED BY <1>4, <2>1
  <1>8. CASE ReserveGrow(t) \/ Grow(t)
    <2>1. /\ UNCHANGED << cache, size, codeCaches >> /\ pc'[t] \in {"carve", "unreserve"}
          /\ pc[t] \in {"reserveGrow", "grow"}
      BY <1>1, <1>8 DEF ReserveGrow, Grow
    <2>2. /\ pc[t] = "grow" => cache[t] # NoCache
          /\ pc[t] = "reserveGrow" => cache[t] = NoCache
      BY <1>2 DEF Control, AtWork
    <2> QED BY <1>3, <1>4, <2>1, <2>2
  <1>9. CASE Allocate(t)
    <2>1. pc[t] = "allocate" /\ UNCHANGED << cache, size, retries >>
      BY <1>9 DEF Allocate
    <2>2. CASE Fits(cache[t], size[t])
      <3>1. pc'[t] = "allocated"
        BY <1>1, <1>9, <2>2 DEF Allocate
      <3> QED BY <1>3, <3>1
    <2>3. CASE ~Fits(cache[t], size[t])
      <3>1. retries[t] = Retries - 1
        BY <2>1, <2>3 DEF Served
      <3>2. retries[t] > 0
        BY <3>1, SizesAssumption
      <3>3. pc'[t] = "scan" /\ codeCaches' = codeCaches
        BY <1>1, <1>9, <2>3, <3>2 DEF Allocate
      <3> QED BY <2>1, <2>3, <3>3 DEF Searched, Fits
    <2> QED BY <2>2, <2>3
  <1>10. CASE ReserveScan(t)
    <2>1. pc[t] = "reserve" /\ cache[t] = NoCache /\ found[t] = NoCache
      BY <1>2, <1>10 DEF ReserveScan, Control
    <2>2. CASE FirstCache(Eligible) # NoCache
      <3>1. pc'[t] = "compile"
        BY <1>1, <1>10, <2>2 DEF ReserveScan
      <3> QED BY <1>3, <3>1
    <2>3. CASE FirstCache(Eligible) = NoCache
      <3>1. pc'[t] = "reserveGrow" /\ UNCHANGED << cache, codeCaches >>
        BY <1>1, <1>10, <2>3 DEF ReserveScan
      <3>2. reserved = {}
        BY <2>1, AloneReserves
      <3>3. Eligible = Caches
        BY <3>2 DEF Eligible, Caches
      <3>4. NoCache \notin Caches
        BY <1>2, NoCacheAssumption DEF TypeOK
      <3>5. \A i \in 1 .. Len(codeCacheList) : codeCacheList[i] \notin Caches
        BY <1>2, <2>3, <3>3, <3>4, FirstCacheFound
      <3>6. \A u \in Threads : pc[u] # "link"
        BY <2>1
      <3>7. Caches = {}
        BY <3>5, <3>6, AllListed
      <3>8. Caches' = {}
        BY <3>1, <3>7 DEF Caches
      <3> QED BY <2>1, <3>1, <3>8 DEF Searched
    <2> QED BY <2>2, <2>3
  <1>11. CASE Scan(t)
    <2> DEFINE S == {c \in Eligible : HasRoom(c, size[t])}
    <2>1. pc[t] = "scan" /\ found[t] = NoCache /\ cache[t] # NoCache
      BY <1>2, <1>11 DEF Scan, Control, AtWork
    <2>2. CASE FirstCache(S) # NoCache
      <3>1. pc'[t] = "switch"
        BY <1>1, <1>11, <2>2 DEF Scan, FirstWithRoom
      <3> QED BY <1>3, <3>1
    <2>3. CASE FirstCache(S) = NoCache
      <3>1. pc'[t] = "grow" /\ UNCHANGED << cache, size, codeCaches >>
        BY <1>1, <1>11, <2>3 DEF Scan, FirstWithRoom
      <3>2. NoCache \notin S
        <4>1. NoCache \notin Caches
          BY <1>2, NoCacheAssumption DEF TypeOK
        <4> QED BY <4>1 DEF Eligible, Caches
      <3>3. \A i \in 1 .. Len(codeCacheList) : codeCacheList[i] \notin S
        <4> HIDE DEF S
        <4> QED BY <1>2, <2>3, <3>2, FirstCacheFound
      <3>4. \A u \in Threads : pc[u] # "link"
        BY <2>1
      <3>5. ASSUME NEW c \in Caches, HasRoom(c, size[t]) PROVE FALSE
        <4>1. c \notin S
          BY <3>3, <3>4, AllListed
        <4>2. c \in reserved
          BY <3>5, <4>1 DEF Eligible, Caches
        <4>3. c = cache[t]
          BY <2>1, <4>2, AloneReserves
        <4>4. ~Fits(cache[t], size[t])
          BY <2>1 DEF Searched
        <4>5. codeCaches[c].hole \in Int /\ Adjusted(size[t]) \in Int
          <5>1. size[t] \in Nat
            BY <1>2, SizeNatural
          <5>2. Adjusted(size[t]) \in Int
            BY <5>1, AdjustedSize
          <5>3. codeCaches[c].hole \in 0 .. RepositorySize
            BY <1>2 DEF TypeOK
          <5> QED BY <5>2, <5>3, SizesAssumption
        <4> QED BY <3>5, <4>3, <4>4, <4>5 DEF Fits, HasRoom
      <3>6. \A c \in Caches' : ~HasRoom(c, size[t])'
        BY <3>1, <3>5 DEF Caches, HasRoom
      <3> QED BY <2>1, <3>1, <3>6 DEF Searched
    <2> QED BY <2>2, <2>3
  <1> QED BY <1>5, <1>6, <1>7, <1>8, <1>9, <1>10, <1>11 DEF Compile

\* A thread that has begun is the only one that has, or there are two.
LEMMA OnlyOneStarted ==
    ASSUME NEW S, IsFiniteSet(S), NEW t \in S
    PROVE  /\ Cardinality(S) =< 1 => S \subseteq {t}
           /\ \A R \in SUBSET S : IsFiniteSet(R) /\ Cardinality(R) =< Cardinality(S)
  <1>1. \A R \in SUBSET S : IsFiniteSet(R) /\ Cardinality(R) =< Cardinality(S)
    BY FS_Subset
  <1>2. ASSUME Cardinality(S) =< 1, NEW u \in S, u # t PROVE FALSE
    <2>1. IsFiniteSet({t}) /\ Cardinality({t}) = 1
      BY FS_Singleton
    <2>2. Cardinality({t} \cup {u}) = 2
      BY <1>2, <2>1, FS_AddElement
    <2>3. Cardinality({t} \cup {u}) =< Cardinality(S) /\ Cardinality(S) \in Nat
      BY <1>1, FS_CardinalityType
    <2> QED BY <1>2, <2>2, <2>3
  <1> QED BY <1>1, <1>2

\* A step of a thread that is alone after it was alone before.
LEMMA AloneStep ==
    ASSUME Inv, AloneInv, MCNext, NEW t \in Threads, StartCompile(t) \/ Compile(t)
    PROVE  /\ started' \subseteq Threads /\ \A u \in Threads : pc'[u] # "idle" => u \in started'
           /\ Alone' => /\ Alone /\ \A u \in Threads \ {t} : pc[u] = "idle" /\ pc'[u] = "idle"
  <1>1. started' = {u \in Threads : u \in started \/ pc'[u] # "idle"}
    BY DEF MCNext
  <1>2. started \subseteq started' /\ started' \subseteq Threads
    BY <1>1 DEF AloneInv
  <1>3. t \in started'
    <2>1. CASE StartCompile(t)
      <3>1. pc'[t] = "reserve"
        BY <2>1 DEF StartCompile, Goto, Inv, TypeOK
      <3> QED BY <1>1, <3>1
    <2>2. CASE Compile(t)
      <3>1. pc[t] # "idle"
        BY <2>2 DEF Compile, ReserveScan, ReserveGrow, Carve, Construct, ConstructFails, UndoCarving,
           Link, NoNewCache, Request, Attempt, Allocate, Scan, SwitchReleases, SwitchForgets, Grow,
           Continue, Trim, Abort, Unreserve
      <3> QED BY <1>2, <3>1 DEF AloneInv
    <2> QED BY <2>1, <2>2
  <1>4. IsFiniteSet(started')
    BY <1>2, FS_Subset, ThreadsAssumption
  <1>5. ASSUME Alone' PROVE Alone /\ \A u \in Threads \ {t} : pc[u] = "idle" /\ pc'[u] = "idle"
    <2>1. Cardinality(started') =< 1
      BY <1>5 DEF Alone
    <2>2. started' \subseteq {t}
      BY <1>3, <1>4, <2>1, OnlyOneStarted
    <2>3. Cardinality(started) =< Cardinality(started') /\ IsFiniteSet(started)
      BY <1>2, <1>3, <1>4, OnlyOneStarted
    <2>4. Cardinality(started) \in Nat /\ Cardinality(started') \in Nat
      BY <1>4, <2>3, FS_CardinalityType
    <2>5. Alone
      BY <2>1, <2>3, <2>4 DEF Alone
    <2>6. ASSUME NEW u \in Threads \ {t} PROVE pc[u] = "idle" /\ pc'[u] = "idle"
      <3>1. u \notin started' /\ u \notin started
        BY <1>2, <2>2
      <3> QED BY <1>1, <3>1 DEF AloneInv
    <2> QED BY <2>5, <2>6
  <1> QED BY <1>1, <1>2, <1>5

\* Idle threads know nothing of requests.
LEMMA IdleServed ==
    ASSUME NEW u \in Threads, pc[u] = "idle"
    PROVE  Served(u) /\ Searched(u)
  BY DEF Served, Searched

\* In every state of the manager with its history, both invariants hold.
LEMMA AloneInvAlways ==
    ASSUME CachesLarge
    PROVE  MCSpec => [](Inv /\ AloneInv)
  <1> DEFINE I == Inv /\ AloneInv
  <1>1. MCInit => I
    <2> SUFFICES ASSUME MCInit PROVE Inv /\ AloneInv
      OBVIOUS
    <2>1. Init /\ Inv /\ started = {}
      BY InitInv DEF MCInit
    <2>2. \A t \in Threads : pc[t] = "idle"
      BY <2>1 DEF Init
    <2>3. Listed
      <3>1. CASE codeCacheList = << PointerSize >> /\ Caches = {PointerSize}
        <4>1. 1 \in 1 .. Len(codeCacheList) /\ codeCacheList[1] = PointerSize
          BY <3>1
        <4> QED BY <3>1, <4>1 DEF Listed
      <3>2. CASE Caches = {}
        BY <3>2 DEF Listed
      <3> QED BY <2>1, <3>1, <3>2 DEF Init, Caches
    <2> QED BY <2>1, <2>2, <2>3, IdleServed DEF AloneInv
  <1>2. I /\ [MCNext]_<< vars, started, switching >> => I'
    <2> SUFFICES ASSUME Inv, AloneInv, [MCNext]_<< vars, started, switching >>
                 PROVE  Inv' /\ AloneInv'
      OBVIOUS
    <2>1. CASE MCNext
      <3>1. Inv'
        BY <2>1, InvKept DEF MCNext
      <3>2. PICK t \in Threads : StartCompile(t) \/ Compile(t)
        BY <2>1 DEF MCNext, Next
      <3>3. /\ started' \subseteq Threads /\ \A u \in Threads : pc'[u] # "idle" => u \in started'
            /\ Alone' => /\ Alone /\ \A u \in Threads \ {t} : pc[u] = "idle" /\ pc'[u] = "idle"
        BY <2>1, <3>2, AloneStep
      <3>4. Listed'
        BY <3>2, ListedKept DEF AloneInv
      <3>5. ASSUME Alone', NEW u \in Threads PROVE Served(u)' /\ (Retries >= 2 => Searched(u)')
        <4>1. Alone /\ \A v \in Threads \ {t} : pc[v] = "idle" /\ pc'[v] = "idle"
          BY <3>3, <3>5
        <4>2. CASE u = t
          <5>1. Listed /\ Served(t) /\ (Retries >= 2 => Searched(t))
            BY <4>1 DEF AloneInv
          <5>2. Served(t)'
            BY <3>2, <5>1, ServedKept
          <5>3. Retries >= 2 => Searched(t)'
            BY <3>2, <4>1, <5>1, SearchedKept
          <5> QED BY <4>2, <5>2, <5>3
        <4>3. CASE u # t
          <5>1. pc'[u] = "idle"
            BY <4>1, <4>3
          <5> QED BY <5>1 DEF Served, Searched
        <4> QED BY <4>2, <4>3
      <3> QED BY <3>1, <3>3, <3>4, <3>5 DEF AloneInv
    <2>2. CASE UNCHANGED << vars, started, switching >>
      <3>1. Inv'
        BY <2>2, InvKept
      <3>2. /\ UNCHANGED << pc, cache, found, size, retries, segment, codeCaches, codeCacheList >>
            /\ UNCHANGED started
        BY <2>2 DEF vars, shared, locals
      <3>3. Alone' = Alone /\ Listed' = Listed
        BY <3>2 DEF Alone, Listed, Caches
      <3>4. \A t \in Threads : (Served(t)' <=> Served(t)) /\ (Searched(t)' <=> Searched(t))
        BY <3>2 DEF Served, Searched, Fits, HasRoom, Caches
      <3> QED BY <3>1, <3>2, <3>3, <3>4 DEF AloneInv
    <2> QED BY <2>1, <2>2
  <1> QED BY <1>1, <1>2, PTL DEF MCSpec

\* A thread that declares the code caches full while it compiles alone has
\* searched them all.
LEMMA FullStep ==
    ASSUME Inv, AloneInv, Retries >= 2, [MCNext]_<< vars, started, switching >>
    PROVE  [Alone' => \A t \in Threads :
                        DeclaresFull(t) => \A c \in Caches : ~ HasRoom(c, size[t])]_vars
  <1> SUFFICES ASSUME MCNext, Alone', NEW t \in Threads, DeclaresFull(t), NEW c \in Caches
               PROVE  ~HasRoom(c, size[t])
    BY DEF vars
  <1>1. PICK u \in Threads : StartCompile(u) \/ Compile(u)
    BY DEF MCNext, Next
  <1>2. u = t
    BY <1>1, OthersStay DEF DeclaresFull
  <1>3. Alone
    BY <1>1, AloneStep
  <1>4. Searched(t) /\ Control
    BY <1>3 DEF AloneInv, Inv
  <1> USE DEF locals, shared, Goto
  <1>5. pc[t] \in {"reserveGrow", "grow", "noNewCache"}
    <2>1. codeCacheFull' # codeCacheFull
      BY DEF DeclaresFull
    <2>2. CASE ReserveGrow(t) \/ Grow(t) \/ NoNewCache(t)
      BY <2>2 DEF ReserveGrow, Grow, NoNewCache
    <2>3. ~(StartCompile(t) \/ ConstructFails(t) \/ Carve(t) \/ UndoCarving(t) \/ Link(t))
      BY <2>1 DEF StartCompile, ConstructFails, Carve, UndoCarving, Link
    <2>4. ~(Request(t) \/ Attempt(t) \/ Continue(t) \/ Abort(t) \/ Construct(t))
      BY <2>1 DEF Request, Attempt, Continue, Abort, Construct
    <2>5. ~(Allocate(t) \/ Trim(t) \/ SwitchForgets(t) \/ Unreserve(t) \/ SwitchReleases(t))
      BY <2>1 DEF Allocate, Trim, SwitchForgets, Unreserve, SwitchReleases
    <2>6. ~(ReserveScan(t) \/ Scan(t))
      BY <2>1 DEF ReserveScan, Scan
    <2> QED BY <1>1, <1>2, <2>2, <2>3, <2>4, <2>5, <2>6 DEF Compile
  <1>6. /\ pc[t] = "grow" => cache[t] # NoCache
        /\ pc[t] = "reserveGrow" => cache[t] = NoCache
    BY <1>4 DEF Control, AtWork
  <1> QED BY <1>4, <1>5, <1>6 DEF Searched

-----------------------------------------------------------------------------
(***************************************************************************)
(* Theorems                                                                *)
(***************************************************************************)

\* For any number of threads and any sizes, the repository is divided soundly:
\* carveCodeCacheSpaceFromRepository and undoCarvingFromRepository, in any
\* order, hand no address out twice, and findCodeCacheFromPC finds the cache
\* that an address of code belongs to.
THEOREM SegmentsAlwaysSound == Spec => []SegmentsSound
  <1>1. Inv => SegmentsSound
    BY LookupSound DEF Inv, SegmentsSound
  <1> QED BY <1>1, InvAlways, PTL

\* No compilation, however it ends, leaves a cache reserved behind: every
\* reserved cache is in the hands of a thread (reserveCodeCache,
\* unreserveCodeCache and the two writes of allocateCodeMemoryWithRetries).
THEOREM ReservationsNeverLeak == Spec => []NoLeakedReservation
  <1>1. Inv => NoLeakedReservation
    <2> SUFFICES ASSUME Inv, NEW c \in reserved PROVE \E t \in Threads : c \in Holds(t)
      BY DEF NoLeakedReservation
    <2>1. PICK t \in Threads : c \in Owns(t)
      BY DEF Inv, ReservedOwned
    <2>2. c \in Holds(t)
      BY <2>1 DEF Owns, Holds
    <2> QED BY <2>2
  <1> QED BY <1>1, InvAlways, PTL

\* The unsynchronized test of canAddNewCodeCache lets the caches exceed their
\* maximum by one less than the number of threads, and never by more.
THEOREM CachesAlwaysBounded == Spec => []OvershootBounded
  <1>1. Inv => OvershootBounded
    <2> SUFFICES ASSUME Inv PROVE OvershootBounded
      OBVIOUS
    <2>1. Len(codeCacheList) \in Nat
      BY LenProperties DEF Inv, TypeOK
    <2>2. curNumberOfCodeCaches \in Nat /\ MaxCaches \in Nat /\ CountInv
      BY SizesAssumption DEF Inv, TypeOK
    <2> QED BY <2>1, <2>2, GrowingFinite DEF CountInv, OvershootBounded
  <1> QED BY <1>1, InvAlways, PTL

\* As long as no request has had to leave its cache, reservation gives every
\* cache to at most one thread, however many threads compile at once.
THEOREM OwnershipExclusive == MCSpec => []ExclusiveUntilSwitch
  <1>1. Inv /\ SwitchInv => ExclusiveUntilSwitch
    BY DEF SwitchInv, BeforeSwitch, ExclusiveUntilSwitch
  <1> QED BY <1>1, SwitchInvAlways, PTL

\* While one thread compiles, and if a code cache is large beside a header and
\* the alignment, only the first attempt of a request fails, whatever was
\* allocated, trimmed and given back before and however large the request is:
\* the cache that allocateCodeMemoryWithRetries scans for or creates has room
\* for it, and the bound on retries is never reached.
THEOREM LaterAttemptsSucceed ==
    ASSUME CachesLarge
    PROVE  MCSpec => []OnlyFirstAttemptFails
  <1>1. Inv /\ AloneInv => OnlyFirstAttemptFails
    BY DEF AloneInv, Served, OnlyFirstAttemptFails
  <1> QED BY <1>1, AloneInvAlways, PTL

\* While one thread compiles, if a code cache is large beside a header and the
\* alignment and the list is scanned at all, the code caches are declared full
\* only when no cache has more room than the request needs (the three places
\* that call setCodeCacheFull).
THEOREM FullMeansNoRoom ==
    ASSUME CachesLarge, Retries >= 2
    PROVE  MCSpec => FullOnlyWhenNoRoom
  <1>1. Inv /\ AloneInv /\ [MCNext]_<< vars, started, switching >> =>
          [Alone' => \A t \in Threads :
                       DeclaresFull(t) => \A c \in Caches : ~ HasRoom(c, size[t])]_vars
    BY FullStep
  <1> QED BY <1>1, AloneInvAlways, PTL DEF MCSpec, FullOnlyWhenNoRoom

=============================================================================
